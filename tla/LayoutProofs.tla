---------------------------- MODULE LayoutProofs ----------------------------
(***************************************************************************)
(* The layout of a store and its marker, for any number of processes: what *)
(* is published, guarded and reported is the whole layout, whoever reads   *)
(* without the lock is not misled, and foreign stores are left alone.      *)
(***************************************************************************)
EXTENDS LayoutMarker, SequenceTheorems, FiniteSetTheorems, TLAPS

(* The calls a process can be in, by where they return.                    *)
ResolveReturns == {"preliminary", "layout", "report"}
RecoverReturns == {"locked", "reclaim"}
PlainReturns == {"check", "verify", "diagnosed", "paired", "reread"}
ReadReturns == {"resolved", "recverify"} \cup PlainReturns

Labels == {"matched", "explained"} \cup ResolveReturns \cup RecoverReturns \cup ReadReturns

Push(x, s) == <<x>> \o s

ResolveFrames == {Push(x, <<>>) : x \in ResolveReturns}
RecoverFrames == {Push(x, <<>>) : x \in RecoverReturns}
ReadFrames ==
    {Push("resolved", s) : s \in ResolveFrames} \cup {Push("recverify", s) : s \in RecoverFrames}
        \cup {Push(x, <<>>) : x \in PlainReturns}
ListFrames == {Push("matched", s) : s \in ReadFrames} \cup {Push("explained", s) : s \in RecoverFrames}

Resolving == {"resolve", "resolved"}
Recovering == {"recover", "explained", "recsync", "recverify"}
Reading == {"stat", "matched", "read", "converged"}
Listing == {"list", "probe"}

FramesInv(p) ==
    /\ local[p].pc \in Resolving => local[p].stack \in ResolveFrames
    /\ local[p].pc \in Recovering => local[p].stack \in RecoverFrames
    /\ local[p].pc \in Reading => local[p].stack \in ReadFrames
    /\ local[p].pc \in Listing => local[p].stack \in ListFrames
    /\ local[p].pc \notin Resolving \cup Recovering \cup Reading \cup Listing => local[p].stack = <<>>

(* The operation's own control point, below all calls.                     *)
Bottom(s) == s[Len(s)]
Base(p) == IF local[p].stack = <<>> THEN local[p].pc ELSE Bottom(local[p].stack)

Publishing == {"reclaim", "reclaiming", "check", "create", "write", "link", "unlink", "sync", "verify",
               "failed", "discard", "ensured"}
Writing == {"mutating", "spaces", "trash"} \cup Publishing
Locking == {"locked", "layout"} \cup Writing
Diagnosing == {"diagnose", "diagnosed", "staging", "paired", "interrupted", "reread", "report"}

Points ==
    {"idle", "preliminary", "lock"} \cup Resolving \cup Recovering \cup Reading \cup Listing \cup Locking \cup Diagnosing
Results == {"none", "ok", "visible", "dotted"} \cup Errors
Reports == {"none", "absent", "newer-format", "ambiguous-dual-layout", "invalid", "interrupted-publication",
            "unmarked-visible", "marked-visible", "marked-dotted-read-only"}
Entries == {"root", "spaces", "trash", ".spaces"}

LocalType ==
    [pc : Points, op : Operations \cup {"none"}, stack : Seq(Labels), out : Results, seen : SUBSET Entries,
     ino : Inodes \cup {NoIno}, links : 0..2, pending : SUBSET Inodes, matching : BOOLEAN,
     reads : 0..MaxReads - 1, made : Inodes \cup {NoIno}, raw : SUBSET Entries, todo : SUBSET Inodes,
     found : Results, issue : BOOLEAN, interrupted : BOOLEAN, quiet : BOOLEAN, report : Reports]

TypeInv ==
    /\ entries \in SUBSET Entries
    /\ marker \in Inodes \cup {NoIno}
    /\ staging \in SUBSET Inodes
    /\ content \in [Inodes -> Formats \cup {"empty"}]
    /\ holder \in Procs \cup {NoProc}
    /\ mishaps \in 0..MaxMishaps
    /\ local \in [Procs -> LocalType]

(* A link elsewhere is of the marker, which is complete, and nothing is in *)
(* a root that does not exist.                                             *)
DiskInv ==
    /\ outside \subseteq {marker} \cap Inodes
    /\ "root" \notin entries => entries = {} /\ marker = NoIno /\ staging = {}
    /\ MarkerComplete

HolderInv(p) == holder = p <=> Base(p) \in Locking

(* What calls return.                                                      *)
InResolve(p) ==
    Base(p) \in ResolveReturns /\ local[p].pc \in Reading \cup Listing \cup {"resolved"}

OutInv(p) ==
    /\ local[p].pc \notin Reading \cup Listing \cup {"explained"} => local[p].reads = 0
    /\ local[p].pc \notin Reading \cup Listing \cup {"explained", "recsync"} => ~local[p].matching
    /\ local[p].pc \in Listing \cup {"matched", "explained", "read", "converged"} => local[p].ino \in Inodes
    /\ local[p].pc \in ReadReturns => local[p].out \in {"none", "visible", "dotted"} \cup Errors
    /\ local[p].pc \in ResolveReturns => local[p].out \in {"visible", "dotted"} \cup Errors
    /\ local[p].pc \in {"matched", "explained"} => local[p].out \in {"ok", "io"}
    /\ InResolve(p) => (".spaces" \in local[p].seen <=> ".spaces" \in entries)
    /\ local[p].pc \in ResolveReturns /\ local[p].out = "visible" => ".spaces" \notin entries

(* What a reader knows of a sound store that others change as it reads.    *)
ReaderInv(p) ==
    Healthy =>
        LET l == local[p]
        IN  /\ l.out \notin {"corrupt", "newer", "limit", "unsupported", "dotted"}
            /\ l.pc = "stat" /\ l.reads # 0 => marker # NoIno /\ marker \notin staging
            /\ l.pc \in {"list", "probe", "matched", "read", "converged"} => l.ino = marker /\ marker # NoIno
            /\ l.pc \in {"list", "probe", "matched", "converged"} => l.reads = 0
            /\ l.pc \in Listing /\ Head(l.stack) = "matched" => l.links = 2
            /\ l.pc = "matched" => l.links = 2
            /\ l.pc = "probe" /\ marker \in staging => marker \in l.pending \/ l.matching
            /\ l.pc = "matched" /\ l.out = "ok" /\ ~l.matching => marker \notin staging
            /\ l.pc = "read" => l.links \in {1, 2}
            /\ l.pc = "read" /\ l.links = 1 => marker \notin staging
            /\ l.pc = "read" /\ l.reads # 0 => l.links = 1
            /\ l.pc = "converged" => marker \notin staging

(* What one read of the marker gives when nothing changes meanwhile.       *)
ReadValue ==
    IF marker = NoIno THEN "none"
    ELSE IF outside # {} THEN "corrupt"
    ELSE IF marker \in staging /\ content[marker] = "dotted" THEN "corrupt"
    ELSE content[marker]

Undisturbed(p) == Base(p) \in Locking \/ (Base(p) \in Diagnosing /\ local[p].quiet)

AloneInv(p) ==
    Undisturbed(p) =>
        LET l == local[p]
        IN  /\ l.pc = "stat" => l.reads = 0
            /\ l.pc \in {"stat", "list"} => ~l.matching
            /\ l.pc \in Listing \cup {"matched", "explained", "read", "converged"} =>
                  l.ino = marker /\ marker # NoIno /\ l.reads = 0
            /\ l.pc \in Listing \cup {"matched", "explained", "converged"} => Links(marker) = 2
            /\ l.pc \in Listing /\ Head(l.stack) = "matched" => l.links = 2
            /\ l.pc = "matched" => l.links = 2
            /\ l.pc = "probe" =>
                  l.pending \subseteq staging /\ (l.matching <=> marker \in staging \ l.pending)
            /\ l.pc \in {"matched", "explained"} => l.out = "ok" /\ (l.matching <=> marker \in staging)
            /\ l.pc = "read" => l.links \in {1, 2} /\ l.links = Links(marker)
            /\ l.pc = "read" /\ l.links = 2 => marker \in staging
            /\ l.pc = "converged" => marker \notin staging
            /\ l.pc \in ReadReturns => l.out = ReadValue
            /\ InResolve(p) => l.seen = entries
            /\ l.pc \in {"layout", "report"} => l.out = Layout(ReadValue, entries)

(* A recovery that has removed the staging name, and one that has not.     *)
AfterUnlink(p) ==
    \/ local[p].pc \in {"recsync", "recverify"}
    \/ Base(p) \in RecoverReturns /\ local[p].pc \in Reading
    \/ Base(p) \in RecoverReturns /\ local[p].pc \in Listing /\ Head(local[p].stack) = "matched"

BeforeUnlink(p) ==
    \/ local[p].pc = "explained"
    \/ local[p].pc \in Listing /\ Head(local[p].stack) = "explained"

(* What the holder of the lock knows at each control point.                *)
SectionInv(p) ==
    LET base == Base(p)
        made == local[p].made
    IN  /\ base \in Locking \cup {"lock"} => ".spaces" \notin entries
        /\ base \in Locking => "root" \in entries
        /\ base \in Writing => Healthy
        /\ AfterUnlink(p) => Healthy /\ marker # NoIno /\ marker \notin staging
        /\ BeforeUnlink(p) => marker # NoIno /\ content[marker] = "visible"
        /\ local[p].pc \in RecoverReturns /\ local[p].out = "ok" => marker \notin staging
        /\ base \in {"layout", "mutating"} => marker \notin staging
        /\ base \in {"mutating", "trash"} \cup Publishing => "spaces" \in entries
        /\ base \in Publishing => "trash" \in entries
        /\ base = "reclaiming" => local[p].todo = staging /\ marker \notin staging
        /\ base \in {"check", "create", "sync", "verify", "ensured"} => staging = {}
        /\ base \in {"write", "link", "discard", "unlink"} => staging = {made}
        /\ base \in {"create", "write", "link", "discard"} => marker = NoIno
        /\ base \in {"write", "link", "discard", "unlink", "sync", "verify", "failed"} => made \in Inodes
        /\ base \in {"unlink", "sync", "verify"} => marker = made
        /\ base = "failed" => marker = made \/ (marker = NoIno /\ staging = {made})
        /\ base = "link" => content[made] = "visible"
        /\ base = "ensured" => marker # NoIno

(* What a diagnosis that was not disturbed has seen.                       *)
Interrupted == marker # NoIno /\ Links(marker) = 2 /\ ReadValue \notin Errors \cup {"none"}

DiagnosisInv(p) ==
    LET l == local[p]
        base == Base(p)
    IN  /\ l.quiet /\ base \in Diagnosing \ {"diagnose"} => l.raw = entries /\ "root" \in entries
        /\ l.quiet /\ base \in {"staging", "paired", "interrupted", "reread", "report"} => l.found = ReadValue
        /\ l.quiet /\ base \in Diagnosing \ {"report"} => ~l.interrupted
        /\ l.quiet /\ base = "reread" => marker # NoIno /\ Links(marker) = 2
        /\ l.quiet /\ base = "report" => (l.interrupted <=> Interrupted)

Truthful(p) ==
    /\ local[p].report = "interrupted-publication" <=> Healthy /\ marker \in staging
    /\ local[p].report \in {"absent", "interrupted-publication", "unmarked-visible", "marked-visible"} <=> Healthy

ReportInv(p) ==
    /\ local[p].pc # "idle" => local[p].report = "none"
    /\ local[p].report # "none" /\ local[p].quiet => Truthful(p)

ProcessInv(p) ==
    /\ FramesInv(p)
    /\ HolderInv(p)
    /\ OutInv(p)
    /\ ReaderInv(p)
    /\ AloneInv(p)
    /\ SectionInv(p)
    /\ DiagnosisInv(p)
    /\ ReportInv(p)

LInv ==
    /\ TypeInv
    /\ DiskInv
    /\ \A p \in Procs : ProcessInv(p)

USE LayoutAssumption DEF disk

-----------------------------------------------------------------------------
(* Stacks of calls.                                                        *)
LEMMA PushPop ==
    ASSUME NEW x \in Labels, NEW s \in Seq(Labels)
    PROVE  /\ Push(x, s) \in Seq(Labels) /\ Push(x, s) # <<>>
           /\ Head(Push(x, s)) = x /\ Tail(Push(x, s)) = s
           /\ Bottom(Push(x, s)) = IF s = <<>> THEN x ELSE Bottom(s)
<1>1. <<x>> \in Seq(Labels) /\ Len(<<x>>) = 1 /\ <<x>>[1] = x /\ Len(s) \in Nat
  OBVIOUS
<1>2. /\ Push(x, s) \in Seq(Labels)
      /\ Len(Push(x, s)) = 1 + Len(s)
      /\ \A i \in 1 .. 1 + Len(s) : Push(x, s)[i] = IF i <= 1 THEN <<x>>[i] ELSE s[i - 1]
  BY <1>1, ConcatProperties DEF Push
<1>3. Push(x, s) # <<>>
  BY <1>1, <1>2, EmptySeq
<1>4. Head(Push(x, s)) = x
  BY <1>1, <1>2, <1>3, HeadTailProperties
<1>5. Tail(Push(x, s)) = s
  <2>1. /\ Tail(Push(x, s)) \in Seq(Labels) /\ Len(Tail(Push(x, s))) = Len(s)
        /\ \A i \in 1 .. Len(s) : Tail(Push(x, s))[i] = Push(x, s)[i + 1]
    BY <1>1, <1>2, <1>3, HeadTailProperties
  <2>2. \A i \in 1 .. Len(s) : Tail(Push(x, s))[i] = s[i]
    BY <1>1, <1>2, <2>1
  <2> QED
    BY <2>1, <2>2, SeqEqual
<1>6. CASE s = <<>>
  BY <1>1, <1>2, <1>3, <1>4, <1>5, <1>6 DEF Bottom
<1>7. CASE s # <<>>
  <2>1. Len(s) \in Nat \ {0}
    BY <1>7, EmptySeq
  <2>2. Bottom(Push(x, s)) = s[Len(s)]
    BY <1>1, <1>2, <2>1 DEF Bottom
  <2> QED
    BY <1>2, <1>3, <1>4, <1>5, <1>7, <2>2 DEF Bottom
<1> QED
  BY <1>6, <1>7

LEMMA PushOne ==
    ASSUME NEW x \in Labels
    PROVE  /\ Push(x, <<>>) \in Seq(Labels) /\ Push(x, <<>>) # <<>>
           /\ Head(Push(x, <<>>)) = x /\ Tail(Push(x, <<>>)) = <<>>
           /\ Bottom(Push(x, <<>>)) = x
<1>1. <<>> \in Seq(Labels)
  OBVIOUS
<1> QED
  BY <1>1, PushPop

LEMMA ResolveFrame ==
    ASSUME NEW s \in ResolveFrames
    PROVE  /\ s \in Seq(Labels) /\ s # <<>>
           /\ Head(s) \in ResolveReturns /\ Tail(s) = <<>> /\ Bottom(s) = Head(s)
<1>1. PICK x \in ResolveReturns : s = Push(x, <<>>)
  BY DEF ResolveFrames
<1>2. x \in Labels
  BY <1>1 DEF Labels
<1> QED
  BY <1>1, <1>2, PushOne

LEMMA RecoverFrame ==
    ASSUME NEW s \in RecoverFrames
    PROVE  /\ s \in Seq(Labels) /\ s # <<>>
           /\ Head(s) \in RecoverReturns /\ Tail(s) = <<>> /\ Bottom(s) = Head(s)
<1>1. PICK x \in RecoverReturns : s = Push(x, <<>>)
  BY DEF RecoverFrames
<1>2. x \in Labels
  BY <1>1 DEF Labels
<1> QED
  BY <1>1, <1>2, PushOne

LEMMA ReadFrame ==
    ASSUME NEW s \in ReadFrames
    PROVE  /\ s \in Seq(Labels) /\ s # <<>>
           /\ Head(s) \in ReadReturns
           /\ Head(s) = "resolved" => Tail(s) \in ResolveFrames /\ Bottom(s) = Bottom(Tail(s))
           /\ Head(s) = "recverify" => Tail(s) \in RecoverFrames /\ Bottom(s) = Bottom(Tail(s))
           /\ Head(s) \in PlainReturns => Tail(s) = <<>> /\ Bottom(s) = Head(s)
<1>1. CASE \E r \in ResolveFrames : s = Push("resolved", r)
  <2>1. PICK r \in ResolveFrames : s = Push("resolved", r)
    BY <1>1
  <2>2. r \in Seq(Labels) /\ r # <<>> /\ "resolved" \in Labels
    BY ResolveFrame DEF Labels, ReadReturns
  <2>3. /\ s \in Seq(Labels) /\ s # <<>> /\ Head(s) = "resolved" /\ Tail(s) = r
        /\ Bottom(s) = Bottom(r)
    BY <2>1, <2>2, PushPop
  <2> QED
    BY <2>3 DEF ReadReturns, PlainReturns
<1>2. CASE \E r \in RecoverFrames : s = Push("recverify", r)
  <2>1. PICK r \in RecoverFrames : s = Push("recverify", r)
    BY <1>2
  <2>2. r \in Seq(Labels) /\ r # <<>> /\ "recverify" \in Labels
    BY RecoverFrame DEF Labels, ReadReturns
  <2>3. /\ s \in Seq(Labels) /\ s # <<>> /\ Head(s) = "recverify" /\ Tail(s) = r
        /\ Bottom(s) = Bottom(r)
    BY <2>1, <2>2, PushPop
  <2> QED
    BY <2>3 DEF ReadReturns, PlainReturns
<1>3. CASE \E x \in PlainReturns : s = Push(x, <<>>)
  <2>1. PICK x \in PlainReturns : s = Push(x, <<>>)
    BY <1>3
  <2>2. x \in Labels /\ x \notin {"resolved", "recverify"}
    BY <2>1 DEF PlainReturns, ReadReturns, Labels
  <2> QED
    BY <2>1, <2>2, PushOne DEF ReadReturns, PlainReturns
<1> QED
  BY <1>1, <1>2, <1>3 DEF ReadFrames

LEMMA ListFrame ==
    ASSUME NEW s \in ListFrames
    PROVE  /\ s \in Seq(Labels) /\ s # <<>>
           /\ Head(s) \in {"matched", "explained"}
           /\ Bottom(s) = Bottom(Tail(s)) /\ Tail(s) # <<>>
           /\ Head(s) = "matched" => Tail(s) \in ReadFrames
           /\ Head(s) = "explained" => Tail(s) \in RecoverFrames
<1>1. CASE \E r \in ReadFrames : s = Push("matched", r)
  <2>1. PICK r \in ReadFrames : s = Push("matched", r)
    BY <1>1
  <2>2. r \in Seq(Labels) /\ r # <<>> /\ "matched" \in Labels
    BY ReadFrame DEF Labels
  <2>3. /\ s \in Seq(Labels) /\ s # <<>> /\ Head(s) = "matched" /\ Tail(s) = r
        /\ Bottom(s) = Bottom(r)
    BY <2>1, <2>2, PushPop
  <2> QED
    BY <2>2, <2>3
<1>2. CASE \E r \in RecoverFrames : s = Push("explained", r)
  <2>1. PICK r \in RecoverFrames : s = Push("explained", r)
    BY <1>2
  <2>2. r \in Seq(Labels) /\ r # <<>> /\ "explained" \in Labels
    BY RecoverFrame DEF Labels
  <2>3. /\ s \in Seq(Labels) /\ s # <<>> /\ Head(s) = "explained" /\ Tail(s) = r
        /\ Bottom(s) = Bottom(r)
    BY <2>1, <2>2, PushPop
  <2> QED
    BY <2>2, <2>3
<1> QED
  BY <1>1, <1>2 DEF ListFrames

(* The number of links of an inode.                                        *)
LEMMA LinksOf ==
    ASSUME NEW i
    PROVE  LET one(b) == IF b THEN 1 ELSE 0
           IN  Links(i) = one(i \in staging) + one(marker = i) + one(i \in outside)
<1> DEFINE a == {k \in {1} : i \in staging}
           b == {k \in {2} : marker = i}
           c == {k \in {3} : i \in outside}
<1>1. IsFiniteSet({}) /\ Cardinality({}) = 0
  BY FS_EmptySet
<1>2. IsFiniteSet(a) /\ Cardinality(a) = IF i \in staging THEN 1 ELSE 0
  <2>1. CASE i \in staging
    <3>1. a = {1}
      BY <2>1
    <3>2. IsFiniteSet({1}) /\ Cardinality({1}) = 1
      BY FS_Singleton
    <3> HIDE DEF a
    <3> QED
      BY <2>1, <3>1, <3>2
  <2>2. CASE i \notin staging
    <3>1. a = {}
      BY <2>2
    <3> HIDE DEF a
    <3> QED
      BY <2>2, <3>1, <1>1
  <2> QED
    BY <2>1, <2>2
<1>3. IsFiniteSet(a \cup b) /\ Cardinality(a \cup b) = Cardinality(a) + IF marker = i THEN 1 ELSE 0
  <2>1. CASE marker = i
    <3>1. a \cup b = a \cup {2} /\ 2 \notin a
      BY <2>1
    <3> HIDE DEF a, b
    <3> QED
      BY <1>2, <2>1, <3>1, FS_AddElement
  <2>2. CASE marker # i
    <3>1. a \cup b = a
      BY <2>2
    <3>2. Cardinality(a) \in Nat /\ Cardinality(a) + 0 = Cardinality(a)
      BY <1>2
    <3> HIDE DEF a, b
    <3> QED
      BY <1>2, <2>2, <3>1, <3>2
  <2> QED
    BY <2>1, <2>2
<1>4. Cardinality((a \cup b) \cup c) = Cardinality(a \cup b) + IF i \in outside THEN 1 ELSE 0
  <2>1. CASE i \in outside
    <3>1. (a \cup b) \cup c = (a \cup b) \cup {3} /\ 3 \notin a \cup b
      BY <2>1
    <3> HIDE DEF a, b, c
    <3> QED
      BY <1>3, <2>1, <3>1, FS_AddElement
  <2>2. CASE i \notin outside
    <3>1. (a \cup b) \cup c = a \cup b
      BY <2>2
    <3>2. Cardinality(a) \in Nat
      BY <1>2
    <3>3. Cardinality(a \cup b) \in Nat
      BY <1>3, <3>2
    <3>4. Cardinality((a \cup b) \cup c) = Cardinality(a \cup b)
      BY <3>1
    <3> HIDE DEF a, b, c
    <3> QED
      BY <2>2, <3>3, <3>4
  <2> QED
    BY <2>1, <2>2
<1>5. Links(i) = Cardinality((a \cup b) \cup c)
  BY DEF Links
<1> QED
  BY <1>2, <1>3, <1>4, <1>5

-----------------------------------------------------------------------------
(* What the steps of one process do to the others: nothing that they can   *)
(* see, or a change of a sound store by the holder of the lock or by the   *)
(* creator of the root.                                                    *)
Quietly(p) ==
    /\ UNCHANGED disk
    /\ \A q \in Procs \ {p} : local'[q] = local[q] /\ (holder' = q <=> holder = q)

Progress ==
    /\ Healthy /\ Healthy'
    /\ UNCHANGED outside
    /\ ".spaces" \notin entries /\ ".spaces" \notin entries'
    /\ marker # NoIno => marker' = marker
    /\ marker # NoIno /\ marker \notin staging => marker \notin staging'

Changing(p) ==
    /\ Progress
    /\ \A q \in Procs \ {p} :
          /\ local'[q] = [local[q] EXCEPT !.quiet = FALSE, !.report = "none"]
          /\ holder # q /\ holder' # q

Settles(p) ==
    /\ Quietly(p) \/ Changing(p)
    /\ TypeInv'
    /\ DiskInv'
    /\ ProcessInv(p)'

LEMMA Unmoved ==
    ASSUME UNCHANGED disk
    PROVE  /\ entries' = entries /\ marker' = marker /\ staging' = staging /\ content' = content
           /\ outside' = outside
           /\ Healthy' = Healthy /\ ReadValue' = ReadValue /\ Links(marker)' = Links(marker)
           /\ Interrupted' = Interrupted /\ DiskInv' = DiskInv
BY DEF Healthy, ReadValue, Links, Interrupted, DiskInv, MarkerComplete

LEMMA QuietlyKeepsOthers ==
    ASSUME NEW p \in Procs, NEW q \in Procs \ {p}, ProcessInv(q), Quietly(p)
    PROVE  ProcessInv(q)'
<1>1. local'[q] = local[q] /\ (holder' = q <=> holder = q)
  BY DEF Quietly
<1>2. /\ entries' = entries /\ marker' = marker /\ staging' = staging /\ content' = content
      /\ outside' = outside
      /\ Healthy' = Healthy /\ ReadValue' = ReadValue /\ Links(marker)' = Links(marker)
      /\ Interrupted' = Interrupted
  BY Unmoved DEF Quietly
<1>3. Base(q)' = Base(q)
  BY <1>1 DEF Base
<1>4. FramesInv(q)'
  BY <1>1 DEF ProcessInv, FramesInv
<1>5. HolderInv(q)'
  BY <1>1, <1>3 DEF ProcessInv, HolderInv
<1>6. OutInv(q)'
  BY <1>1, <1>2, <1>3 DEF ProcessInv, OutInv, InResolve
<1>7. ReaderInv(q)'
  BY <1>1, <1>2 DEF ProcessInv, ReaderInv
<1>8. AloneInv(q)'
  BY <1>1, <1>2, <1>3 DEF ProcessInv, AloneInv, Undisturbed, InResolve
<1>9. SectionInv(q)'
  BY <1>1, <1>2, <1>3 DEF ProcessInv, SectionInv, AfterUnlink, BeforeUnlink
<1>10. DiagnosisInv(q)'
  BY <1>1, <1>2, <1>3 DEF ProcessInv, DiagnosisInv
<1>11. ReportInv(q)'
  BY <1>1, <1>2 DEF ProcessInv, ReportInv, Truthful
<1> QED
  BY <1>4, <1>5, <1>6, <1>7, <1>8, <1>9, <1>10, <1>11 DEF ProcessInv

LEMMA ChangingKeepsOthers ==
    ASSUME TypeInv, NEW p \in Procs, NEW q \in Procs \ {p}, ProcessInv(q), Changing(p)
    PROVE  ProcessInv(q)'
<1>1. local[q] \in LocalType /\ local'[q] = [local[q] EXCEPT !.quiet = FALSE, !.report = "none"]
  BY DEF TypeInv, Changing
<1>2. /\ local'[q].pc = local[q].pc /\ local'[q].stack = local[q].stack /\ local'[q].out = local[q].out
      /\ local'[q].seen = local[q].seen /\ local'[q].ino = local[q].ino /\ local'[q].links = local[q].links
      /\ local'[q].pending = local[q].pending /\ local'[q].matching = local[q].matching
      /\ local'[q].reads = local[q].reads
      /\ local'[q].quiet = FALSE /\ local'[q].report = "none"
  BY <1>1 DEF LocalType
<1>3. Base(q)' = Base(q) /\ holder # q /\ holder' # q
  BY <1>2 DEF Base, Changing
<1>4. Base(q) \notin Locking /\ Base(q)' \notin Locking /\ ~Undisturbed(q)'
  BY <1>2, <1>3 DEF ProcessInv, HolderInv, Undisturbed
<1>5. Progress
  BY DEF Changing
<1>6. FramesInv(q)'
  BY <1>2 DEF ProcessInv, FramesInv
<1>7. HolderInv(q)'
  BY <1>3, <1>4 DEF HolderInv
<1>8. OutInv(q)'
  BY <1>2, <1>3, <1>5 DEF ProcessInv, OutInv, InResolve, Progress
<1>9. ReaderInv(q)'
  BY <1>2, <1>5 DEF ProcessInv, ReaderInv, Progress
<1>10. AloneInv(q)'
  BY <1>4 DEF AloneInv
<1>11. ~AfterUnlink(q) /\ ~BeforeUnlink(q) /\ local[q].pc \notin RecoverReturns
  BY <1>4, ResolveFrame, RecoverFrame, ReadFrame, ListFrame
     DEF ProcessInv, FramesInv, AfterUnlink, BeforeUnlink, Base, RecoverReturns, Locking, Writing, Publishing,
         Resolving, Recovering, Reading, Listing
<1>12. SectionInv(q)'
  BY <1>2, <1>3, <1>4, <1>5, <1>11
     DEF SectionInv, AfterUnlink, BeforeUnlink, Progress, Locking, Writing, Publishing
<1>13. DiagnosisInv(q)' /\ ReportInv(q)'
  BY <1>2 DEF DiagnosisInv, ReportInv
<1> QED
  BY <1>6, <1>7, <1>8, <1>9, <1>10, <1>12, <1>13 DEF ProcessInv

LEMMA StepSettles ==
    ASSUME LInv, NEW p \in Procs, Settles(p)
    PROVE  LInv' /\ (~Healthy => UNCHANGED disk)
<1>1. ASSUME NEW q \in Procs PROVE ProcessInv(q)'
  BY <1>1, QuietlyKeepsOthers, ChangingKeepsOthers DEF LInv, Settles
<1> QED
  BY <1>1 DEF LInv, Settles, Quietly, Changing, Progress

-----------------------------------------------------------------------------
(* Steps inside a call, which neither see nor change the operation's own   *)
(* state.                                                                  *)
LEMMA GoTo ==
    ASSUME TypeInv, NEW p \in Procs, NEW m \in LocalType, Go(p, m)
    PROVE  /\ local' \in [Procs -> LocalType]
           /\ local'[p] = m
           /\ \A q \in Procs \ {p} : local'[q] = local[q]
BY DEF TypeInv, Go

LEMMA ChangeTo ==
    ASSUME TypeInv, NEW p \in Procs, NEW m \in LocalType, Change(p, m)
    PROVE  /\ local' \in [Procs -> LocalType]
           /\ local'[p] = m
           /\ \A q \in Procs \ {p} : local'[q] = [local[q] EXCEPT !.quiet = FALSE, !.report = "none"]
<1>1. \A q \in Procs : local[q] \in LocalType
  BY DEF TypeInv
<1>2. \A q \in Procs : [local[q] EXCEPT !.quiet = FALSE, !.report = "none"] \in LocalType
  <2>1. ASSUME NEW r \in LocalType, NEW b \in BOOLEAN, NEW s \in Reports
        PROVE  [r EXCEPT !.quiet = b, !.report = s] \in LocalType
    BY <2>1 DEF LocalType
  <2>2. FALSE \in BOOLEAN /\ "none" \in Reports
    BY Zenon DEF Reports
  <2> QED
    BY <1>1, <2>1, <2>2
<1>3. local' = [q \in Procs |-> IF q = p THEN m ELSE [local[q] EXCEPT !.quiet = FALSE, !.report = "none"]]
  BY DEF Change
<1> HIDE DEF LocalType
<1> QED
  BY <1>2, <1>3

LEMMA ReturnTyped ==
    ASSUME NEW l \in LocalType, NEW v \in Results,
           Head(l.stack) \in Points, Tail(l.stack) \in Seq(Labels)
    PROVE  Return(l, v) \in LocalType /\ Back(l, v) \in LocalType
<1>1. Back(l, v) \in LocalType
  BY DEF LocalType, Back
<1>2. ASSUME NEW k \in LocalType, NEW s \in SUBSET Inodes, NEW b \in BOOLEAN, NEW n \in 0..MaxReads - 1,
             NEW i \in Inodes \cup {NoIno}, NEW j \in 0..2
      PROVE  [k EXCEPT !.pending = s, !.matching = b, !.reads = n, !.ino = i, !.links = j] \in LocalType
  BY <1>2 DEF LocalType
<1>3. FALSE \in BOOLEAN
  BY Zenon
<1>4. {} \in SUBSET Inodes /\ 0 \in 0..MaxReads - 1 /\ NoIno \in Inodes \cup {NoIno} /\ 0 \in 0..2
  OBVIOUS
<1> QED
  BY <1>1, <1>2, <1>3, <1>4 DEF Return

KeptBelow(p) ==
    /\ local'[p].made = local[p].made /\ local'[p].raw = local[p].raw
    /\ local'[p].todo = local[p].todo /\ local'[p].found = local[p].found
    /\ local'[p].interrupted = local[p].interrupted
    /\ local'[p].quiet = local[p].quiet /\ local'[p].report = local[p].report

Kept(p) == KeptBelow(p) /\ local'[p].seen = local[p].seen

LEMMA InnerStep ==
    ASSUME LInv, NEW p \in Procs, NEW m \in LocalType, Go(p, m),
           UNCHANGED <<disk, holder>>, mishaps' \in 0..MaxMishaps,
           KeptBelow(p), Base(p)' = Base(p), local[p].pc # "idle",
           FramesInv(p)', OutInv(p)', ReaderInv(p)', AloneInv(p)',
           AfterUnlink(p)' => AfterUnlink(p),
           BeforeUnlink(p)' => BeforeUnlink(p) \/ (marker # NoIno /\ content[marker] = "visible"),
           local'[p].pc \in RecoverReturns /\ local'[p].out = "ok" => marker \notin staging
    PROVE  Settles(p)
<1>1. TypeInv /\ DiskInv /\ ProcessInv(p)
  BY DEF LInv
<1>2. /\ UNCHANGED disk /\ holder' = holder
      /\ entries' = entries /\ marker' = marker /\ staging' = staging /\ content' = content
      /\ outside' = outside
      /\ Healthy' = Healthy /\ ReadValue' = ReadValue /\ Links(marker)' = Links(marker)
      /\ Interrupted' = Interrupted /\ DiskInv' = DiskInv
  BY Unmoved
<1>3. Quietly(p)
  BY <1>1, <1>2, GoTo DEF Quietly
<1>4. TypeInv'
  BY <1>1, <1>2, GoTo DEF TypeInv
<1>5. HolderInv(p)'
  BY <1>1, <1>2 DEF ProcessInv, HolderInv
<1>6. SectionInv(p)'
  BY <1>1, <1>2 DEF ProcessInv, SectionInv, KeptBelow
<1>7. DiagnosisInv(p)'
  BY <1>1, <1>2 DEF ProcessInv, DiagnosisInv, KeptBelow
<1>8. ReportInv(p)'
  BY <1>1, <1>2 DEF ProcessInv, ReportInv, KeptBelow
<1> QED
  BY <1>1, <1>2, <1>3, <1>4, <1>5, <1>6, <1>7, <1>8 DEF Settles, ProcessInv

LEMMA InnerSettles ==
    ASSUME LInv, NEW p \in Procs, NEW m \in LocalType, Go(p, m), Unread,
           KeptBelow(p), Base(p)' = Base(p), local[p].pc # "idle",
           FramesInv(p)', OutInv(p)', ReaderInv(p)', AloneInv(p)',
           AfterUnlink(p)' => AfterUnlink(p),
           BeforeUnlink(p)' => BeforeUnlink(p) \/ (marker # NoIno /\ content[marker] = "visible"),
           local'[p].pc \in RecoverReturns /\ local'[p].out = "ok" => marker \notin staging
    PROVE  Settles(p)
<1>1. UNCHANGED <<disk, holder>> /\ mishaps' \in 0..MaxMishaps
  BY DEF Unread, LInv, TypeInv
<1> QED
  BY <1>1, InnerStep

(* A read of the marker returns.                                           *)
LEMMA ReadReturned ==
    ASSUME LInv, NEW p \in Procs, local[p].pc \in Reading,
           NEW v \in {"none", "visible", "dotted"} \cup Errors,
           Healthy => v \notin {"corrupt", "newer", "limit", "unsupported", "dotted"},
           Undisturbed(p) => v = ReadValue,
           Go(p, Return(local[p], v)), Unread
    PROVE  Settles(p)
<1> DEFINE l == local[p]
           m == Return(l, v)
<1>1. TypeInv /\ ProcessInv(p) /\ l \in LocalType
  BY DEF LInv, TypeInv
<1>2. l.stack \in ReadFrames
  BY <1>1 DEF ProcessInv, FramesInv
<1>3. Head(l.stack) \in ReadReturns /\ Tail(l.stack) \in Seq(Labels) /\ l.stack # <<>>
  <2>1. <<>> \in Seq(Labels)
    OBVIOUS
  <2> QED
    BY <1>2, <2>1, ReadFrame, ResolveFrame, RecoverFrame DEF ReadReturns
<1>4. Head(l.stack) \in Points /\ v \in Results
  BY <1>3 DEF ReadReturns, PlainReturns, Points, Recovering, Resolving, Locking, Writing, Publishing, Diagnosing, Results
<1>5. m \in LocalType
  BY <1>1, <1>3, <1>4, ReturnTyped
<1>6. local'[p] = m
  BY <1>1, <1>5, GoTo
<1>7. /\ local'[p].pc = Head(l.stack) /\ local'[p].stack = Tail(l.stack) /\ local'[p].out = v
      /\ local'[p].reads = 0 /\ ~local'[p].matching /\ Kept(p)
  BY <1>1, <1>6 DEF LocalType, Return, Back, Kept, KeptBelow
<1>8. Base(p)' = Base(p) /\ FramesInv(p)'
  <2>1. CASE Head(l.stack) = "resolved"
    <3>1. Tail(l.stack) \in ResolveFrames /\ Bottom(l.stack) = Bottom(Tail(l.stack))
      BY <1>2, <2>1, ReadFrame
    <3>2. Tail(l.stack) # <<>>
      BY <3>1, ResolveFrame
    <3> QED
      BY <1>3, <1>7, <2>1, <3>1, <3>2 DEF Base, FramesInv, Resolving, Recovering, Reading, Listing
  <2>2. CASE Head(l.stack) = "recverify"
    <3>1. Tail(l.stack) \in RecoverFrames /\ Bottom(l.stack) = Bottom(Tail(l.stack))
      BY <1>2, <2>2, ReadFrame
    <3>2. Tail(l.stack) # <<>>
      BY <3>1, RecoverFrame
    <3> QED
      BY <1>3, <1>7, <2>2, <3>1, <3>2 DEF Base, FramesInv, Resolving, Recovering, Reading, Listing
  <2>3. CASE Head(l.stack) \in PlainReturns
    BY <1>2, <1>3, <1>7, <2>3, ReadFrame
       DEF Base, FramesInv, PlainReturns, Resolving, Recovering, Reading, Listing
  <2> QED
    BY <1>3, <2>1, <2>2, <2>3 DEF ReadReturns
<1>9. /\ entries' = entries /\ marker' = marker /\ staging' = staging
      /\ Healthy' = Healthy /\ ReadValue' = ReadValue
  BY Unmoved DEF Unread
<1>10. OutInv(p)'
  BY <1>1, <1>3, <1>7, <1>8, <1>9
     DEF ProcessInv, OutInv, InResolve, Kept, KeptBelow, ReadReturns, PlainReturns, ResolveReturns, Reading, Listing
<1>11. ReaderInv(p)'
  BY <1>3, <1>7, <1>9 DEF ReaderInv, ReadReturns, PlainReturns, Listing
<1>12. AloneInv(p)'
  BY <1>1, <1>3, <1>7, <1>8, <1>9
     DEF ProcessInv, AloneInv, Undisturbed, Kept, KeptBelow, InResolve, ReadReturns, PlainReturns, Reading, Listing
<1>13. /\ AfterUnlink(p)' => AfterUnlink(p)
       /\ ~BeforeUnlink(p)'
       /\ local'[p].pc \notin RecoverReturns
  <2>1. ASSUME Head(l.stack) = "recverify" PROVE Base(p) \in RecoverReturns
    <3>1. Tail(l.stack) \in RecoverFrames /\ Bottom(l.stack) = Bottom(Tail(l.stack))
      BY <1>2, <2>1, ReadFrame
    <3>2. Bottom(Tail(l.stack)) \in RecoverReturns
      BY <3>1, RecoverFrame
    <3> QED
      BY <1>3, <3>1, <3>2 DEF Base
  <2> QED
    BY <1>3, <1>7, <1>8, <2>1
       DEF AfterUnlink, BeforeUnlink, ReadReturns, PlainReturns, RecoverReturns, Reading, Listing
<1> QED
  BY <1>5, <1>7, <1>8, <1>10, <1>11, <1>12, <1>13, InnerSettles DEF Kept, KeptBelow, Reading

-----------------------------------------------------------------------------
(* read_marker                                                             *)
LEMMA MarkerLinks ==
    ASSUME TypeInv, DiskInv, marker # NoIno
    PROVE  /\ marker \in Inodes
           /\ Links(marker) \in {1, 2, 3}
           /\ Links(marker) = 1 <=> marker \notin staging /\ outside = {}
           /\ Links(marker) = 2 => (marker \in staging <=> outside = {})
           /\ Links(marker) = 3 <=> marker \in staging /\ outside # {}
<1>1. marker \in Inodes /\ (outside = {} \/ outside = {marker})
  BY DEF TypeInv, DiskInv
<1>2. Links(marker) = (IF marker \in staging THEN 1 ELSE 0) + 1 + (IF marker \in outside THEN 1 ELSE 0)
  BY LinksOf
<1> QED
  BY <1>1, <1>2

LEMMA ReadMoved ==
    ASSUME LInv, NEW p \in Procs, NEW m \in LocalType, Go(p, m), Unread,
           local[p].pc \in Reading, m.pc \in Reading \ {"matched"},
           m.stack = local[p].stack, m.out = local[p].out, m.pc # "stat" => m.ino \in Inodes,
           Kept(p), ReaderInv(p)', AloneInv(p)'
    PROVE  Settles(p)
<1>1. TypeInv /\ ProcessInv(p)
  BY DEF LInv
<1>2. local'[p] = m
  BY <1>1, GoTo
<1>3. local[p].stack \in ReadFrames /\ local[p].stack # <<>>
  BY <1>1, ReadFrame DEF ProcessInv, FramesInv
<1>4. Base(p)' = Base(p)
  BY <1>2, <1>3 DEF Base
<1>5. FramesInv(p)'
  BY <1>2, <1>3 DEF FramesInv, Reading, Resolving, Recovering, Listing
<1>6. entries' = entries
  BY DEF Unread
<1>7. OutInv(p)'
  BY <1>1, <1>2, <1>4, <1>6
     DEF ProcessInv, OutInv, InResolve, Kept, KeptBelow, Reading, Listing, ReadReturns, PlainReturns, ResolveReturns
<1>8. /\ AfterUnlink(p)' => AfterUnlink(p)
      /\ ~BeforeUnlink(p)'
      /\ local'[p].pc \notin RecoverReturns
  BY <1>2, <1>4 DEF AfterUnlink, BeforeUnlink, RecoverReturns, Reading, Listing
<1> QED
  BY <1>4, <1>5, <1>7, <1>8, InnerSettles DEF Kept, KeptBelow, Reading

LEMMA StatMarkerSettles ==
    ASSUME LInv, NEW p \in Procs, StatMarker(p)
    PROVE  Settles(p)
<1> DEFINE l == local[p]
<1>1. /\ TypeInv /\ DiskInv /\ ProcessInv(p) /\ l \in LocalType /\ l.pc = "stat"
      /\ Unread
  BY DEF LInv, TypeInv, StatMarker, At
<1>2. /\ entries' = entries /\ marker' = marker /\ staging' = staging /\ content' = content
      /\ outside' = outside
      /\ Healthy' = Healthy /\ ReadValue' = ReadValue /\ Links(marker)' = Links(marker)
  BY <1>1, Unmoved DEF Unread
<1>3. CASE marker = NoIno
  <2>1. Go(p, Return(l, "none"))
    BY <1>3 DEF StatMarker
  <2>2. ReadValue = "none" /\ "none" \in {"none", "visible", "dotted"} \cup Errors
    BY <1>3 DEF ReadValue
  <2> QED
    BY <1>1, <2>1, <2>2, ReadReturned DEF Reading
<1>4. CASE marker # NoIno /\ Links(marker) = 1
  <2> DEFINE m == [l EXCEPT !.pc = "read", !.ino = marker, !.links = 1]
  <2>1. Go(p, m) /\ marker \in Inodes /\ marker \notin staging
    BY <1>1, <1>4, MarkerLinks DEF StatMarker
  <2>2. m \in LocalType
    <3>1. "read" \in Points /\ 1 \in 0..2
      BY DEF Points, Reading
    <3> QED
      BY <1>1, <2>1, <3>1 DEF LocalType
  <2>3. /\ local'[p] = m /\ m.pc = "read" /\ m.ino = marker /\ m.links = 1 /\ m.stack = l.stack
        /\ m.out = l.out /\ m.reads = l.reads /\ m.matching = l.matching /\ Kept(p)
    <3>1. local'[p] = m
      BY <1>1, <2>1, <2>2, GoTo
    <3> QED
      BY <1>1, <3>1 DEF LocalType, Kept, KeptBelow
  <2> HIDE DEF m
  <2>4. ReaderInv(p)'
    BY <1>1, <1>2, <1>4, <2>1, <2>3 DEF ProcessInv, ReaderInv, Listing
  <2>5. Base(p)' = Base(p)
    BY <1>1, <2>3, ReadFrame DEF ProcessInv, FramesInv, Reading, Base
  <2>6. AloneInv(p)'
    BY <1>1, <1>2, <1>4, <2>1, <2>3, <2>5
       DEF ProcessInv, AloneInv, Undisturbed, Kept, KeptBelow, InResolve, Reading, Listing, ReadReturns, PlainReturns
  <2> QED
    BY <1>1, <2>1, <2>2, <2>3, <2>4, <2>6, ReadMoved DEF Reading
<1>5. CASE marker # NoIno /\ Links(marker) = 2
  <2> DEFINE m == [Call(l, "list", "matched") EXCEPT !.ino = marker, !.links = 2]
             s == Push("matched", l.stack)
  <2>1. Go(p, m) /\ marker \in Inodes
    BY <1>1, <1>5, MarkerLinks DEF StatMarker
  <2>2. l.stack \in ReadFrames /\ l.stack # <<>> /\ l.stack \in Seq(Labels)
    BY <1>1, ReadFrame DEF ProcessInv, FramesInv, Reading
  <2>3. s \in ListFrames /\ s \in Seq(Labels) /\ s # <<>> /\ Head(s) = "matched" /\ Bottom(s) = Bottom(l.stack)
    BY <2>2, PushPop DEF ListFrames, Labels
  <2>4. m \in LocalType
    <3>1. "list" \in Points /\ 2 \in 0..2
      BY DEF Points, Listing
    <3>2. m = [l EXCEPT !.pc = "list", !.stack = s, !.ino = marker, !.links = 2]
      BY <1>1 DEF LocalType, Call, Push
    <3> HIDE DEF m, s
    <3> QED
      BY <1>1, <2>1, <2>3, <3>1, <3>2 DEF LocalType
  <2>5. /\ local'[p] = m /\ m.pc = "list" /\ m.ino = marker /\ m.links = 2 /\ m.stack = s
        /\ m.out = l.out /\ m.reads = l.reads /\ m.matching = l.matching /\ Kept(p)
    <3>1. local'[p] = m
      BY <1>1, <2>1, <2>4, GoTo
    <3> QED
      BY <1>1, <3>1 DEF LocalType, Kept, KeptBelow, Call, Push
  <2> HIDE DEF m, s
  <2>6. Base(p)' = Base(p) /\ FramesInv(p)'
    BY <2>2, <2>3, <2>5 DEF Base, FramesInv, Resolving, Recovering, Reading, Listing
  <2>7. OutInv(p)'
    BY <1>1, <1>2, <2>1, <2>5, <2>6
       DEF ProcessInv, OutInv, InResolve, Kept, KeptBelow, Reading, Listing, ReadReturns, PlainReturns, ResolveReturns
  <2>8. ReaderInv(p)'
    BY <1>1, <1>2, <1>5, <2>3, <2>5, MarkerLinks DEF ProcessInv, ReaderInv, Healthy, Listing
  <2>9. AloneInv(p)'
    BY <1>1, <1>2, <1>5, <2>5, <2>6
       DEF ProcessInv, AloneInv, Undisturbed, Kept, KeptBelow, InResolve, Reading, Listing, ReadReturns, PlainReturns
  <2>10. /\ AfterUnlink(p)' => AfterUnlink(p)
         /\ ~BeforeUnlink(p)'
         /\ local'[p].pc \notin RecoverReturns
    BY <1>1, <2>3, <2>5, <2>6 DEF AfterUnlink, BeforeUnlink, RecoverReturns, Reading, Listing
  <2> QED
    BY <1>1, <2>1, <2>4, <2>5, <2>6, <2>7, <2>8, <2>9, <2>10, InnerSettles DEF Kept, KeptBelow
<1>6. CASE marker # NoIno /\ Links(marker) \notin {1, 2}
  <2>1. Go(p, Return(l, "corrupt"))
    BY <1>6 DEF StatMarker
  <2>2. ReadValue = "corrupt" /\ ~Healthy /\ "corrupt" \in {"none", "visible", "dotted"} \cup Errors
    BY <1>1, <1>6, MarkerLinks DEF ReadValue, Healthy, Errors
  <2> QED
    BY <1>1, <2>1, <2>2, ReadReturned DEF Reading
<1> QED
  BY <1>3, <1>4, <1>5, <1>6

LEMMA ListStagingSettles ==
    ASSUME LInv, NEW p \in Procs, ListStaging(p)
    PROVE  Settles(p)
<1> DEFINE l == local[p]
           m == [l EXCEPT !.pc = "probe", !.pending = staging]
<1>1. /\ TypeInv /\ ProcessInv(p) /\ l \in LocalType /\ l.pc = "list"
      /\ Go(p, m) /\ Unread
  BY DEF LInv, TypeInv, ListStaging, At
<1>2. /\ entries' = entries /\ marker' = marker /\ staging' = staging /\ content' = content
      /\ outside' = outside
      /\ Healthy' = Healthy /\ ReadValue' = ReadValue /\ Links(marker)' = Links(marker)
  BY <1>1, Unmoved DEF Unread
<1>3. m \in LocalType
  <2>1. "probe" \in Points /\ staging \in SUBSET Inodes
    BY <1>1 DEF Points, Listing, TypeInv
  <2> QED
    BY <1>1, <2>1 DEF LocalType
<1>4. /\ local'[p] = m /\ m.pc = "probe" /\ m.pending = staging /\ m.ino = l.ino /\ m.links = l.links
      /\ m.stack = l.stack /\ m.out = l.out /\ m.reads = l.reads /\ m.matching = l.matching /\ Kept(p)
  <2>1. local'[p] = m
    BY <1>1, <1>3, GoTo
  <2> QED
    BY <1>1, <2>1 DEF LocalType, Kept, KeptBelow
<1> HIDE DEF m
<1>5. Base(p)' = Base(p) /\ FramesInv(p)'
  BY <1>1, <1>4, ListFrame DEF ProcessInv, Base, FramesInv, Resolving, Recovering, Reading, Listing
<1>6. OutInv(p)'
  BY <1>1, <1>2, <1>4, <1>5
     DEF ProcessInv, OutInv, InResolve, Kept, KeptBelow, Reading, Listing, ReadReturns, PlainReturns, ResolveReturns
<1>7. ReaderInv(p)'
  BY <1>1, <1>2, <1>4 DEF ProcessInv, ReaderInv, Listing
<1>8. AloneInv(p)'
  BY <1>1, <1>2, <1>4, <1>5
     DEF ProcessInv, AloneInv, Undisturbed, Kept, KeptBelow, InResolve, Reading, Listing, ReadReturns, PlainReturns
<1>9. /\ AfterUnlink(p)' => AfterUnlink(p)
      /\ BeforeUnlink(p)' => BeforeUnlink(p)
      /\ local'[p].pc \notin RecoverReturns
  BY <1>1, <1>4, <1>5 DEF AfterUnlink, BeforeUnlink, RecoverReturns, Reading, Listing
<1> QED
  BY <1>1, <1>3, <1>4, <1>5, <1>6, <1>7, <1>8, <1>9, InnerSettles DEF Kept, KeptBelow

LEMMA ProbeStagingSettles ==
    ASSUME LInv, NEW p \in Procs, ProbeStaging(p)
    PROVE  Settles(p)
<1> DEFINE l == local[p]
<1>1. /\ TypeInv /\ ProcessInv(p) /\ l \in LocalType /\ l.pc = "probe" /\ Unread
  BY DEF LInv, TypeInv, ProbeStaging, At
<1>2. /\ entries' = entries /\ marker' = marker /\ staging' = staging /\ content' = content
      /\ outside' = outside
      /\ Healthy' = Healthy /\ ReadValue' = ReadValue /\ Links(marker)' = Links(marker)
  BY <1>1, Unmoved DEF Unread
<1>3. l.stack \in ListFrames
  BY <1>1 DEF ProcessInv, FramesInv, Listing
<1>4. ASSUME NEW k \in LocalType, NEW v \in {"ok", "io"}, Go(p, Back(k, v)),
             k \in {l, [l EXCEPT !.pending = {}]},
             v = "ok" => l.pending = {}, v = "io" => ~(l.pending \subseteq staging)
      PROVE  Settles(p)
  <2> DEFINE m == Back(k, v)
  <2>1. /\ k.stack = l.stack /\ k.ino = l.ino /\ k.links = l.links /\ k.reads = l.reads /\ k.matching = l.matching
        /\ k.seen = l.seen /\ k.made = l.made /\ k.raw = l.raw /\ k.todo = l.todo /\ k.found = l.found
        /\ k.interrupted = l.interrupted /\ k.quiet = l.quiet /\ k.report = l.report
    BY <1>1, <1>4 DEF LocalType
  <2>2. Head(l.stack) \in {"matched", "explained"} /\ Head(l.stack) \in Points /\ v \in Results
    BY <1>3, <1>4, ListFrame DEF Points, Reading, Recovering, Results, Errors
  <2>3. Tail(l.stack) \in Seq(Labels)
    BY <1>3, ListFrame, ReadFrame, RecoverFrame
  <2>4. m \in LocalType
    BY <2>1, <2>2, <2>3, ReturnTyped
  <2>5. local'[p] = m
    BY <1>1, <1>4, <2>4, GoTo
  <2>6. /\ m.pc = Head(l.stack) /\ m.stack = Tail(l.stack) /\ m.out = v /\ m.ino = k.ino /\ m.links = k.links
        /\ m.reads = k.reads /\ m.matching = k.matching
        /\ m.seen = k.seen /\ m.made = k.made /\ m.raw = k.raw /\ m.todo = k.todo /\ m.found = k.found
        /\ m.interrupted = k.interrupted /\ m.quiet = k.quiet /\ m.report = k.report
    BY <2>1 DEF LocalType, Back
  <2> HIDE DEF m
  <2>7. Kept(p)
    BY <2>1, <2>5, <2>6 DEF Kept, KeptBelow
  <2>8. Base(p)' = Base(p) /\ FramesInv(p)'
    <3>1. /\ l.stack # <<>> /\ Tail(l.stack) # <<>> /\ Bottom(l.stack) = Bottom(Tail(l.stack))
          /\ Head(l.stack) = "matched" => Tail(l.stack) \in ReadFrames
          /\ Head(l.stack) = "explained" => Tail(l.stack) \in RecoverFrames
      BY <1>3, ListFrame
    <3> QED
      BY <2>2, <2>5, <2>6, <3>1 DEF Base, FramesInv, Resolving, Recovering, Reading, Listing
  <2>9. OutInv(p)'
    BY <1>1, <1>2, <2>1, <2>2, <2>5, <2>6, <2>7, <2>8
       DEF ProcessInv, OutInv, InResolve, Kept, KeptBelow, Reading, Listing, ReadReturns, PlainReturns, ResolveReturns
  <2>10. ReaderInv(p)'
    BY <1>1, <1>2, <1>4, <2>1, <2>2, <2>5, <2>6 DEF ProcessInv, ReaderInv, Listing
  <2>11. AloneInv(p)'
    BY <1>1, <1>2, <1>4, <2>1, <2>2, <2>5, <2>6, <2>7, <2>8
       DEF ProcessInv, AloneInv, Undisturbed, Kept, KeptBelow, InResolve, Reading, Listing, ReadReturns, PlainReturns
  <2>12. /\ AfterUnlink(p)' => AfterUnlink(p)
         /\ BeforeUnlink(p)' => BeforeUnlink(p)
         /\ local'[p].pc \notin RecoverReturns
    BY <1>1, <2>2, <2>5, <2>6, <2>8 DEF AfterUnlink, BeforeUnlink, RecoverReturns, Reading, Listing
  <2> QED
    BY <1>1, <1>4, <2>4, <2>5, <2>7, <2>8, <2>9, <2>10, <2>11, <2>12, InnerSettles DEF Kept, KeptBelow, m
<1>5. CASE l.pending = {} /\ Go(p, Back(l, "ok"))
  BY <1>1, <1>4, <1>5
<1>6. ASSUME NEW i \in l.pending, i \notin staging, Go(p, Back([l EXCEPT !.pending = {}], "io"))
      PROVE  Settles(p)
  <2>1. [l EXCEPT !.pending = {}] \in LocalType
    BY <1>1 DEF LocalType
  <2> QED
    BY <1>4, <1>6, <2>1
<1>7. ASSUME NEW i \in l.pending, i \in staging,
             Go(p, [l EXCEPT !.pending = @ \ {i}, !.matching = @ \/ i = l.ino])
      PROVE  Settles(p)
  <2> DEFINE m == [l EXCEPT !.pending = @ \ {i}, !.matching = @ \/ i = l.ino]
  <2>1. m \in LocalType
    <3>1. ASSUME NEW s \in SUBSET Inodes, NEW b \in BOOLEAN
          PROVE  [l EXCEPT !.pending = s, !.matching = b] \in LocalType
      BY <1>1, <3>1 DEF LocalType
    <3>2. l.pending \ {i} \in SUBSET Inodes
      BY <1>1 DEF LocalType
    <3>3. (l.matching \/ i = l.ino) \in BOOLEAN
      BY Zenon
    <3> QED
      BY <3>1, <3>2, <3>3
  <2>2. local'[p] = m
    BY <1>1, <1>7, <2>1, GoTo
  <2>3. /\ m.pc = "probe" /\ m.pending = l.pending \ {i} /\ m.ino = l.ino /\ m.links = l.links
        /\ m.stack = l.stack /\ m.out = l.out /\ m.reads = l.reads
        /\ m.matching = (l.matching \/ i = l.ino) /\ Kept(p)
    BY <1>1, <2>2 DEF LocalType, Kept, KeptBelow
  <2> HIDE DEF m
  <2>4. Base(p)' = Base(p) /\ FramesInv(p)'
    BY <1>1, <2>2, <2>3, ListFrame DEF ProcessInv, Base, FramesInv, Resolving, Recovering, Reading, Listing
  <2>5. OutInv(p)'
    BY <1>1, <1>2, <2>2, <2>3, <2>4
       DEF ProcessInv, OutInv, InResolve, Kept, KeptBelow, Reading, Listing, ReadReturns, PlainReturns, ResolveReturns
  <2>6. ReaderInv(p)'
    BY <1>1, <1>2, <2>2, <2>3 DEF ProcessInv, ReaderInv, Listing
  <2>7. AloneInv(p)'
    <3>1. ASSUME Undisturbed(p)'
          PROVE  /\ Undisturbed(p)
                 /\ m.pending \subseteq staging /\ (m.matching <=> marker \in staging \ m.pending)
      <4>1. Undisturbed(p)
        BY <2>2, <2>3, <2>4, <3>1 DEF Undisturbed, Kept, KeptBelow
      <4>2. l.ino = marker /\ l.pending \subseteq staging /\ (l.matching <=> marker \in staging \ l.pending)
        BY <1>1, <4>1 DEF ProcessInv, AloneInv, Listing
      <4>3. m.matching <=> (l.matching \/ i = l.ino)
        BY <2>3
      <4> QED
        BY <1>7, <2>3, <4>1, <4>2, <4>3
    <3> QED
      BY <1>1, <1>2, <2>2, <2>3, <2>4, <3>1
         DEF ProcessInv, AloneInv, Kept, KeptBelow, InResolve, Reading, Listing, ReadReturns, PlainReturns
  <2>8. /\ AfterUnlink(p)' => AfterUnlink(p)
        /\ BeforeUnlink(p)' => BeforeUnlink(p)
        /\ local'[p].pc \notin RecoverReturns
    BY <1>1, <2>2, <2>3, <2>4 DEF AfterUnlink, BeforeUnlink, RecoverReturns, Reading, Listing
  <2> QED
    BY <1>1, <1>7, <2>1, <2>3, <2>4, <2>5, <2>6, <2>7, <2>8, InnerSettles DEF Kept, KeptBelow, m
<1> QED
  BY <1>5, <1>6, <1>7 DEF ProbeStaging

LEMMA MatchedSettles ==
    ASSUME LInv, NEW p \in Procs, Matched(p)
    PROVE  Settles(p)
<1> DEFINE l == local[p]
<1>1. /\ TypeInv /\ ProcessInv(p) /\ l \in LocalType /\ l.pc = "matched" /\ Unread /\ l.out \in {"ok", "io"}
      /\ l.ino \in Inodes
  BY DEF LInv, TypeInv, Matched, At, ProcessInv, OutInv
<1>2. /\ entries' = entries /\ marker' = marker /\ staging' = staging /\ content' = content
      /\ outside' = outside
      /\ Healthy' = Healthy /\ ReadValue' = ReadValue /\ Links(marker)' = Links(marker)
  BY <1>1, Unmoved DEF Unread
<1>3. CASE l.out = "io"
  <2>1. Go(p, Return(l, "io")) /\ "io" \in {"none", "visible", "dotted"} \cup Errors
    BY <1>3 DEF Matched, Errors
  <2>2. ~Undisturbed(p)
    BY <1>1, <1>3 DEF ProcessInv, AloneInv
  <2> QED
    BY <1>1, <2>1, <2>2, ReadReturned DEF Reading
<1>4. CASE l.out = "ok"
  <2> DEFINE to == IF l.matching THEN "read" ELSE "converged"
             m == [l EXCEPT !.pc = to]
  <2>1. Go(p, m)
    BY <1>4 DEF Matched
  <2>2. m \in LocalType
    <3>1. to \in Points
      BY DEF Points, Reading
    <3> HIDE DEF to
    <3> QED
      BY <1>1, <3>1 DEF LocalType
  <2>3. local'[p] = m
    BY <1>1, <2>1, <2>2, GoTo
  <2>4. /\ m.pc = to /\ m.ino = l.ino /\ m.links = l.links
        /\ m.stack = l.stack /\ m.out = l.out /\ m.reads = l.reads
        /\ m.matching = l.matching /\ Kept(p)
    BY <1>1, <2>3 DEF LocalType, Kept, KeptBelow
  <2> HIDE DEF m
  <2>5. Base(p)' = Base(p)
    BY <1>1, <2>3, <2>4, ReadFrame DEF ProcessInv, FramesInv, Reading, Base
  <2>6. ReaderInv(p)'
    BY <1>1, <1>2, <1>4, <2>3, <2>4 DEF ProcessInv, ReaderInv, Listing
  <2>7. AloneInv(p)'
    BY <1>1, <1>2, <1>4, <2>3, <2>4, <2>5
       DEF ProcessInv, AloneInv, Undisturbed, Kept, KeptBelow, InResolve, Reading, Listing, ReadReturns, PlainReturns
  <2> QED
    BY <1>1, <2>1, <2>2, <2>4, <2>6, <2>7, ReadMoved DEF Reading
<1> QED
  BY <1>1, <1>3, <1>4

LEMMA ReadMarkerSettles ==
    ASSUME LInv, NEW p \in Procs, ReadMarker(p)
    PROVE  Settles(p)
<1> DEFINE l == local[p]
           i == l.ino
           format == Parsed(i)
<1>1. /\ TypeInv /\ DiskInv /\ ProcessInv(p) /\ l \in LocalType /\ l.pc = "read" /\ Unread
      /\ i \in Inodes
  BY DEF LInv, TypeInv, ReadMarker, At, ProcessInv, OutInv
<1>2. /\ entries' = entries /\ marker' = marker /\ staging' = staging /\ content' = content
      /\ outside' = outside
      /\ Healthy' = Healthy /\ ReadValue' = ReadValue /\ Links(marker)' = Links(marker)
  BY <1>1, Unmoved DEF Unread
<1>3. /\ format \in {"visible", "dotted", "newer", "corrupt"}
      /\ "corrupt" \in {"none", "visible", "dotted"} \cup Errors
      /\ format \in {"none", "visible", "dotted"} \cup Errors
  BY <1>1 DEF TypeInv, Parsed, Formats, Errors
<1>4. ASSUME Healthy
      PROVE  /\ i = marker /\ marker # NoIno /\ l.links \in {1, 2} /\ format = "visible"
             /\ l.links = 1 => Links(i) = 1
             /\ Links(i) # 2 => marker \notin staging
             /\ l.links = 2 => l.reads = 0
  <2>1. i = marker /\ marker # NoIno /\ l.links \in {1, 2} /\ (l.links = 1 => marker \notin staging)
        /\ (l.links = 2 => l.reads = 0)
    BY <1>1, <1>4 DEF ProcessInv, ReaderInv
  <2>2. content[marker] = "visible" /\ outside = {}
    BY <1>4, <2>1 DEF Healthy
  <2> QED
    BY <1>1, <2>1, <2>2, MarkerLinks DEF Parsed
<1>5. ASSUME Undisturbed(p)
      PROVE  /\ i = marker /\ Links(i) = l.links
             /\ ReadValue = IF l.links = 2 /\ format = "dotted" THEN "corrupt" ELSE format
  <2>1. i = marker /\ marker # NoIno /\ l.links = Links(marker) /\ l.links \in {1, 2}
        /\ (l.links = 2 => marker \in staging)
    BY <1>1, <1>5 DEF ProcessInv, AloneInv, Listing
  <2>2. format = content[marker] /\ outside = {} /\ (marker \in staging <=> l.links = 2)
    BY <1>1, <2>1, MarkerLinks DEF DiskInv, MarkerComplete, Parsed
  <2> QED
    BY <2>1, <2>2 DEF ReadValue
<1> HIDE DEF format
<1>6. CASE Links(i) # l.links /\ l.links = 2
  <2> DEFINE m == [l EXCEPT !.pc = "converged"]
  <2>1. Go(p, m)
    BY <1>6 DEF ReadMarker
  <2>2. m \in LocalType
    <3>1. "converged" \in Points
      BY DEF Points, Reading
    <3> QED
      BY <1>1, <3>1 DEF LocalType
  <2>3. local'[p] = m
    BY <1>1, <2>1, <2>2, GoTo
  <2>4. /\ m.pc = "converged" /\ m.ino = l.ino /\ m.links = l.links
        /\ m.stack = l.stack /\ m.out = l.out /\ m.reads = l.reads
        /\ m.matching = l.matching /\ Kept(p)
    BY <1>1, <2>3 DEF LocalType, Kept, KeptBelow
  <2> HIDE DEF m
  <2>5. Base(p)' = Base(p)
    BY <1>1, <2>3, <2>4, ReadFrame DEF ProcessInv, FramesInv, Reading, Base
  <2>6. ReaderInv(p)'
    BY <1>1, <1>2, <1>4, <1>6, <2>3, <2>4 DEF ProcessInv, ReaderInv, Listing
  <2>7. AloneInv(p)'
    BY <1>5, <1>6, <2>3, <2>4, <2>5 DEF AloneInv, Undisturbed, Kept, KeptBelow
  <2> QED
    BY <1>1, <2>1, <2>2, <2>4, <2>6, <2>7, ReadMoved DEF Reading
<1>7. CASE Links(i) # l.links /\ l.links # 2
  <2>1. Go(p, Return(l, "corrupt"))
    BY <1>7 DEF ReadMarker
  <2> QED
    BY <1>1, <1>3, <1>4, <1>5, <1>7, <2>1, ReadReturned DEF Reading
<1>8. CASE Links(i) = l.links /\ l.links = 2 /\ format = "dotted"
  <2>1. Go(p, Return(l, "corrupt"))
    BY <1>8 DEF ReadMarker, format
  <2> QED
    BY <1>1, <1>3, <1>4, <1>5, <1>8, <2>1, ReadReturned DEF Reading
<1>9. CASE Links(i) = l.links /\ ~(l.links = 2 /\ format = "dotted")
  <2>1. Go(p, Return(l, format))
    BY <1>9 DEF ReadMarker, format
  <2> QED
    BY <1>1, <1>3, <1>4, <1>5, <1>9, <2>1, ReadReturned DEF Reading
<1> QED
  BY <1>6, <1>7, <1>8, <1>9

LEMMA RetryReadSettles ==
    ASSUME LInv, NEW p \in Procs, RetryRead(p)
    PROVE  Settles(p)
<1> DEFINE l == local[p]
<1>1. /\ TypeInv /\ DiskInv /\ ProcessInv(p) /\ l \in LocalType /\ l.pc = "converged" /\ Unread
      /\ l.ino \in Inodes
  BY DEF LInv, TypeInv, RetryRead, At, ProcessInv, OutInv
<1>2. /\ entries' = entries /\ marker' = marker /\ staging' = staging /\ content' = content
      /\ outside' = outside
      /\ Healthy' = Healthy /\ ReadValue' = ReadValue /\ Links(marker)' = Links(marker)
  BY <1>1, Unmoved DEF Unread
<1>3. Healthy => PublicationConverged(p) /\ l.reads = 0
  <2>1. Healthy => l.ino = marker /\ marker # NoIno /\ marker \notin staging /\ l.reads = 0
    BY <1>1 DEF ProcessInv, ReaderInv
  <2> QED
    BY <1>1, <2>1, MarkerLinks DEF PublicationConverged, Healthy
<1>4. Undisturbed(p) => ~PublicationConverged(p) /\ ReadValue = "corrupt"
  <2>1. Undisturbed(p) => marker # NoIno /\ Links(marker) = 2 /\ marker \notin staging
    BY <1>1 DEF ProcessInv, AloneInv
  <2> QED
    BY <1>1, <2>1, MarkerLinks DEF PublicationConverged, ReadValue
<1>5. "corrupt" \in {"none", "visible", "dotted"} \cup Errors /\ "limit" \in {"none", "visible", "dotted"} \cup Errors
  BY DEF Errors
<1>6. CASE ~PublicationConverged(p)
  <2>1. Go(p, Return(l, "corrupt"))
    BY <1>6 DEF RetryRead
  <2> QED
    BY <1>1, <1>3, <1>4, <1>5, <1>6, <2>1, ReadReturned DEF Reading
<1>7. CASE PublicationConverged(p) /\ l.reads + 1 = MaxReads
  <2>1. Go(p, Return(l, "limit"))
    BY <1>7 DEF RetryRead
  <2>2. ~Healthy
    BY <1>3, <1>7
  <2> QED
    BY <1>1, <1>4, <1>5, <1>7, <2>1, <2>2, ReadReturned DEF Reading
<1>8. CASE PublicationConverged(p) /\ l.reads + 1 # MaxReads
  <2> DEFINE m == [l EXCEPT !.pc = "stat", !.reads = @ + 1, !.matching = FALSE]
  <2>1. Go(p, m)
    BY <1>8 DEF RetryRead
  <2>2. m \in LocalType
    <3>1. ASSUME NEW n \in 0..MaxReads - 1, NEW b \in BOOLEAN, NEW a \in Points
          PROVE  [l EXCEPT !.pc = a, !.reads = n, !.matching = b] \in LocalType
      BY <1>1, <3>1 DEF LocalType
    <3>2. l.reads + 1 \in 0..MaxReads - 1 /\ "stat" \in Points
      <4>1. l.reads \in 0..MaxReads - 1
        BY <1>1 DEF LocalType
      <4> QED
        BY <1>8, <4>1 DEF Points, Reading
    <3>3. FALSE \in BOOLEAN
      BY Zenon
    <3> QED
      BY <3>1, <3>2, <3>3
  <2>3. local'[p] = m
    BY <1>1, <2>1, <2>2, GoTo
  <2>4. /\ m.pc = "stat" /\ m.stack = l.stack /\ m.out = l.out /\ Kept(p)
    BY <1>1, <2>3 DEF LocalType, Kept, KeptBelow
  <2> HIDE DEF m
  <2>5. Base(p)' = Base(p)
    BY <1>1, <2>3, <2>4, ReadFrame DEF ProcessInv, FramesInv, Reading, Base
  <2>6. marker # NoIno /\ marker \notin staging
    BY <1>1, <1>8, MarkerLinks DEF PublicationConverged
  <2>7. ReaderInv(p)'
    BY <1>1, <1>2, <2>3, <2>4, <2>6 DEF ProcessInv, ReaderInv, Listing
  <2>8. AloneInv(p)'
    BY <1>4, <1>8, <2>3, <2>4, <2>5 DEF AloneInv, Undisturbed, Kept, KeptBelow
  <2> QED
    BY <1>1, <2>1, <2>2, <2>4, <2>7, <2>8, ReadMoved DEF Reading
<1> QED
  BY <1>6, <1>7, <1>8

-----------------------------------------------------------------------------
(* resolve                                                                 *)
SameData(m, l) ==
    /\ m.op = l.op /\ m.out = l.out /\ m.seen = l.seen /\ m.ino = l.ino /\ m.links = l.links
    /\ m.pending = l.pending /\ m.matching = l.matching /\ m.reads = l.reads /\ m.made = l.made
    /\ m.raw = l.raw /\ m.todo = l.todo /\ m.found = l.found /\ m.issue = l.issue
    /\ m.interrupted = l.interrupted /\ m.quiet = l.quiet /\ m.report = l.report

LEMMA Called ==
    ASSUME NEW l \in LocalType, NEW a \in Points, NEW r \in Labels
    PROVE  /\ Call(l, a, r) \in LocalType
           /\ Call(l, a, r).pc = a /\ Call(l, a, r).stack = Push(r, l.stack)
           /\ SameData(Call(l, a, r), l)
<1>1. l.stack \in Seq(Labels)
  BY DEF LocalType
<1>2. Push(r, l.stack) \in Seq(Labels)
  BY <1>1, PushPop
<1>3. Call(l, a, r) = [l EXCEPT !.pc = a, !.stack = Push(r, l.stack)]
  BY DEF LocalType, Call, Push
<1> DEFINE s == Push(r, l.stack)
           m == [l EXCEPT !.pc = a, !.stack = s]
<1>4. s \in Seq(Labels)
  BY <1>2
<1> HIDE DEF s
<1>5. m \in LocalType
  BY <1>4 DEF LocalType
<1>6. m.pc = a /\ m.stack = s /\ SameData(m, l)
  BY DEF LocalType, SameData
<1>7. Call(l, a, r) = m
  BY <1>3 DEF s
<1> HIDE DEF m
<1> QED
  BY <1>5, <1>6, <1>7 DEF s

LEMMA ResolveReturned ==
    ASSUME LInv, NEW p \in Procs, local[p].pc \in Resolving,
           NEW k \in LocalType, k \in {local[p], [local[p] EXCEPT !.seen = {}]},
           NEW v \in {"visible", "dotted"} \cup Errors,
           v = "visible" => ".spaces" \notin entries,
           Healthy => v \notin {"corrupt", "newer", "limit", "unsupported", "dotted"},
           Undisturbed(p) => v = Layout(ReadValue, entries),
           Go(p, Return(k, v)), Unread
    PROVE  Settles(p)
<1> DEFINE l == local[p]
           m == Return(k, v)
<1>1. TypeInv /\ ProcessInv(p) /\ l \in LocalType
  BY DEF LInv, TypeInv
<1>2. /\ k.stack = l.stack /\ k.made = l.made /\ k.raw = l.raw /\ k.todo = l.todo /\ k.found = l.found
      /\ k.interrupted = l.interrupted /\ k.quiet = l.quiet /\ k.report = l.report
  BY <1>1 DEF LocalType
<1>3. l.stack \in ResolveFrames
  BY <1>1 DEF ProcessInv, FramesInv
<1>4. Head(l.stack) \in ResolveReturns /\ Tail(l.stack) = <<>> /\ l.stack # <<>> /\ Bottom(l.stack) = Head(l.stack)
  BY <1>3, ResolveFrame
<1>5. Head(l.stack) \in Points /\ v \in Results /\ Tail(l.stack) \in Seq(Labels)
  <2>1. <<>> \in Seq(Labels)
    OBVIOUS
  <2> QED
    BY <1>4, <2>1 DEF ResolveReturns, Points, Locking, Diagnosing, Results
<1>6. m \in LocalType
  BY <1>2, <1>5, ReturnTyped
<1>7. local'[p] = m
  BY <1>1, <1>6, GoTo
<1>8. /\ m.pc = Head(l.stack) /\ m.stack = <<>> /\ m.out = v /\ m.reads = 0 /\ ~m.matching
      /\ KeptBelow(p)
  BY <1>2, <1>4, <1>7 DEF LocalType, Return, Back, KeptBelow
<1> HIDE DEF m
<1>9. Base(p)' = Base(p) /\ FramesInv(p)'
  BY <1>4, <1>7, <1>8 DEF Base, FramesInv, ResolveReturns, Resolving, Recovering, Reading, Listing
<1>10. /\ entries' = entries /\ marker' = marker /\ staging' = staging
       /\ Healthy' = Healthy /\ ReadValue' = ReadValue
  BY Unmoved DEF Unread
<1>11. OutInv(p)'
  BY <1>4, <1>7, <1>8, <1>10
     DEF OutInv, InResolve, ReadReturns, PlainReturns, ResolveReturns, Reading, Listing
<1>12. ReaderInv(p)'
  BY <1>4, <1>7, <1>8, <1>10 DEF ReaderInv, ResolveReturns, Listing
<1>13. AloneInv(p)'
  BY <1>4, <1>7, <1>8, <1>9, <1>10
     DEF AloneInv, Undisturbed, KeptBelow, InResolve, ResolveReturns, ReadReturns, PlainReturns, Reading, Listing,
         Layout
<1>14. /\ ~AfterUnlink(p)' /\ ~BeforeUnlink(p)'
       /\ local'[p].pc \notin RecoverReturns
  BY <1>4, <1>7, <1>8 DEF AfterUnlink, BeforeUnlink, ResolveReturns, RecoverReturns, Reading, Listing
<1> QED
  BY <1>6, <1>8, <1>9, <1>11, <1>12, <1>13, <1>14, InnerSettles DEF Resolving, m

LEMMA ResolveSettles ==
    ASSUME LInv, NEW p \in Procs, Resolve(p)
    PROVE  Settles(p)
<1> DEFINE l == local[p]
<1>1. /\ TypeInv /\ DiskInv /\ ProcessInv(p) /\ l \in LocalType /\ l.pc = "resolve" /\ Unread
  BY DEF LInv, TypeInv, Resolve, At
<1>2. l.stack \in ResolveFrames /\ l.stack # <<>> /\ l.stack \in Seq(Labels) /\ Bottom(l.stack) \in ResolveReturns
  BY <1>1, ResolveFrame DEF ProcessInv, FramesInv, Resolving
<1>3. /\ entries' = entries /\ marker' = marker /\ staging' = staging /\ content' = content
      /\ outside' = outside
      /\ Healthy' = Healthy /\ ReadValue' = ReadValue /\ Links(marker)' = Links(marker)
  BY <1>1, Unmoved DEF Unread
<1>4. CASE "root" \notin entries
  <2>1. Go(p, Return(l, "visible")) /\ ".spaces" \notin entries
    BY <1>1, <1>4 DEF Resolve, DiskInv
  <2>2. ~Undisturbed(p)
    BY <1>1, <1>2, <1>4
       DEF ProcessInv, SectionInv, DiagnosisInv, Undisturbed, Base, ResolveReturns, Diagnosing, Locking
  <2>3. "visible" \in {"visible", "dotted"} \cup Errors
    OBVIOUS
  <2> QED
    BY <1>1, <2>1, <2>2, <2>3, ResolveReturned DEF Resolving
<1>5. CASE "root" \in entries
  <2> DEFINE k == Call(l, "stat", "resolved")
             m == [k EXCEPT !.seen = entries]
             s == Push("resolved", l.stack)
  <2>1. Go(p, m) /\ "stat" \in Points /\ "resolved" \in Labels /\ entries \in SUBSET Entries
    BY <1>1, <1>5 DEF Resolve, Points, Reading, Labels, ReadReturns, TypeInv
  <2>2. k \in LocalType /\ k.pc = "stat" /\ k.stack = s /\ SameData(k, l)
    BY <1>1, <2>1, Called
  <2>3. s \in ReadFrames /\ s # <<>> /\ Bottom(s) = Bottom(l.stack)
    BY <1>2, <2>1, PushPop DEF ReadFrames
  <2> HIDE DEF k, s
  <2>4. m \in LocalType
    BY <2>1, <2>2 DEF LocalType
  <2>5. local'[p] = m
    BY <1>1, <2>1, <2>4, GoTo
  <2>6. /\ m.pc = "stat" /\ m.stack = s /\ m.seen = entries /\ m.out = l.out /\ m.reads = l.reads
        /\ m.matching = l.matching /\ KeptBelow(p)
    BY <2>2, <2>5 DEF LocalType, SameData, KeptBelow
  <2> HIDE DEF m
  <2>7. Base(p)' = Base(p) /\ FramesInv(p)'
    BY <1>2, <2>3, <2>5, <2>6 DEF Base, FramesInv, Resolving, Recovering, Reading, Listing
  <2>8. OutInv(p)'
    BY <1>3, <2>5, <2>6 DEF OutInv, InResolve, Reading, Listing, ReadReturns, PlainReturns, ResolveReturns
  <2>9. l.reads = 0 /\ ~l.matching
    BY <1>1 DEF ProcessInv, OutInv, Reading, Listing
  <2>10. ReaderInv(p)'
    BY <1>1, <1>3, <2>5, <2>6, <2>9 DEF ProcessInv, ReaderInv, Listing
  <2>11. AloneInv(p)'
    BY <1>3, <2>5, <2>6, <2>9 DEF AloneInv, Listing, ReadReturns, PlainReturns
  <2>12. /\ ~AfterUnlink(p)' /\ ~BeforeUnlink(p)'
         /\ local'[p].pc \notin RecoverReturns
    BY <1>2, <2>3, <2>5, <2>6 DEF AfterUnlink, BeforeUnlink, ResolveReturns, RecoverReturns, Reading, Listing, Base
  <2> QED
    BY <1>1, <2>1, <2>4, <2>6, <2>7, <2>8, <2>10, <2>11, <2>12, InnerSettles DEF m
<1> QED
  BY <1>4, <1>5

LEMMA ResolvedSettles ==
    ASSUME LInv, NEW p \in Procs, Resolved(p)
    PROVE  Settles(p)
<1> DEFINE l == local[p]
           k == [l EXCEPT !.seen = {}]
           v == Layout(l.out, l.seen)
<1>1. /\ TypeInv /\ ProcessInv(p) /\ l \in LocalType /\ l.pc = "resolved" /\ Unread
      /\ Go(p, Return(k, v)) /\ k \in LocalType
  <2>1. TypeInv /\ ProcessInv(p) /\ l \in LocalType /\ l.pc = "resolved" /\ Unread /\ Go(p, Return(k, v))
    BY DEF LInv, TypeInv, Resolved, At
  <2>2. k \in LocalType
    BY <2>1 DEF LocalType
  <2> QED
    BY <2>1, <2>2
<1>2. InResolve(p) /\ l.out \in {"none", "visible", "dotted"} \cup Errors
  <2>1. l.stack \in ResolveFrames
    BY <1>1 DEF ProcessInv, FramesInv, Resolving
  <2> QED
    BY <1>1, <2>1, ResolveFrame DEF ProcessInv, OutInv, InResolve, Base, ReadReturns
<1>3. ".spaces" \in l.seen <=> ".spaces" \in entries
  BY <1>1, <1>2 DEF ProcessInv, OutInv
<1>4. v \in {"visible", "dotted"} \cup Errors /\ (v = "visible" => ".spaces" \notin entries)
  BY <1>2, <1>3 DEF Layout, Errors
<1>5. Healthy => v \notin {"corrupt", "newer", "limit", "unsupported", "dotted"}
  BY <1>1, <1>2, <1>3 DEF ProcessInv, ReaderInv, Layout, Errors, Healthy
<1>6. Undisturbed(p) => v = Layout(ReadValue, entries)
  BY <1>1, <1>2 DEF ProcessInv, AloneInv, ReadReturns
<1> HIDE DEF v
<1> QED
  BY <1>1, <1>4, <1>5, <1>6, ResolveReturned DEF Resolving

-----------------------------------------------------------------------------
(* recover_interrupted_publication                                         *)
LEMMA InRecovery ==
    ASSUME TypeInv, NEW p \in Procs, ProcessInv(p), local[p].pc \in Recovering
    PROVE  /\ local[p].stack \in RecoverFrames /\ local[p].stack # <<>> /\ local[p].stack \in Seq(Labels)
           /\ Head(local[p].stack) \in RecoverReturns /\ Tail(local[p].stack) = <<>>
           /\ Base(p) = Head(local[p].stack) /\ Base(p) = Bottom(local[p].stack)
           /\ Base(p) \in Locking /\ holder = p /\ Undisturbed(p)
           /\ ".spaces" \notin entries /\ "root" \in entries
<1>1. local[p].stack \in RecoverFrames
  BY DEF ProcessInv, FramesInv
<1>2. /\ local[p].stack \in Seq(Labels) /\ local[p].stack # <<>>
      /\ Head(local[p].stack) \in RecoverReturns /\ Tail(local[p].stack) = <<>>
      /\ Bottom(local[p].stack) = Head(local[p].stack)
  BY <1>1, RecoverFrame
<1>3. Base(p) = Head(local[p].stack) /\ Base(p) = Bottom(local[p].stack)
  BY <1>2 DEF Base
<1>4. Base(p) \in Locking
  BY <1>2, <1>3 DEF RecoverReturns, Locking, Writing, Publishing
<1> QED
  BY <1>1, <1>2, <1>3, <1>4 DEF ProcessInv, HolderInv, SectionInv, Undisturbed

LEMMA RecoverReturned ==
    ASSUME LInv, NEW p \in Procs, local[p].pc \in Recovering,
           NEW v \in {"ok"} \cup Errors, NEW m,
           \/ m = Return(local[p], v)
           \/ m = Back(local[p], v) /\ local[p].reads = 0 /\ ~local[p].matching,
           v = "ok" => marker \notin staging,
           Healthy => v \notin {"corrupt", "newer", "limit", "unsupported", "dotted"},
           Go(p, m), UNCHANGED <<disk, holder>>, mishaps' \in 0..MaxMishaps
    PROVE  Settles(p)
<1> DEFINE l == local[p]
<1>1. TypeInv /\ ProcessInv(p) /\ l \in LocalType
  BY DEF LInv, TypeInv
<1>2. /\ l.stack # <<>> /\ Head(l.stack) \in RecoverReturns /\ Tail(l.stack) = <<>>
      /\ Base(p) = Head(l.stack)
  BY <1>1, InRecovery
<1>3. Head(l.stack) \in Points /\ v \in Results /\ Tail(l.stack) \in Seq(Labels)
  <2>1. <<>> \in Seq(Labels)
    OBVIOUS
  <2> QED
    BY <1>2, <2>1 DEF RecoverReturns, Points, Locking, Writing, Publishing, Results
<1>4. m \in LocalType
  BY <1>1, <1>3, ReturnTyped
<1>5. local'[p] = m
  BY <1>1, <1>4, GoTo
<1>6. /\ m.pc = Head(l.stack) /\ m.stack = <<>> /\ m.out = v /\ m.reads = 0 /\ ~m.matching
      /\ KeptBelow(p)
  <2>1. CASE m = Return(l, v)
    BY <1>1, <1>2, <1>5, <2>1 DEF LocalType, Return, Back, KeptBelow
  <2>2. CASE m = Back(l, v) /\ l.reads = 0 /\ ~l.matching
    BY <1>1, <1>2, <1>5, <2>2 DEF LocalType, Back, KeptBelow
  <2> QED
    BY <2>1, <2>2
<1>7. Base(p)' = Base(p) /\ FramesInv(p)'
  BY <1>2, <1>5, <1>6 DEF Base, FramesInv, RecoverReturns, Resolving, Recovering, Reading, Listing
<1>8. /\ entries' = entries /\ marker' = marker /\ staging' = staging
      /\ Healthy' = Healthy /\ ReadValue' = ReadValue
  BY Unmoved
<1>9. OutInv(p)'
  BY <1>2, <1>5, <1>6 DEF OutInv, InResolve, RecoverReturns, ReadReturns, PlainReturns, ResolveReturns, Reading, Listing
<1>10. ReaderInv(p)'
  BY <1>2, <1>5, <1>6, <1>8 DEF ReaderInv, RecoverReturns, Listing
<1>11. AloneInv(p)'
  BY <1>2, <1>5, <1>6 DEF AloneInv, InResolve, RecoverReturns, ReadReturns, PlainReturns, Reading, Listing
<1>12. /\ ~AfterUnlink(p)' /\ ~BeforeUnlink(p)'
  BY <1>2, <1>5, <1>6 DEF AfterUnlink, BeforeUnlink, RecoverReturns, Reading, Listing
<1> QED
  BY <1>4, <1>5, <1>6, <1>7, <1>9, <1>10, <1>11, <1>12, InnerStep DEF Recovering

LEMMA RecoverSettles ==
    ASSUME LInv, NEW p \in Procs, Recover(p)
    PROVE  Settles(p)
<1> DEFINE l == local[p]
<1>1. /\ TypeInv /\ DiskInv /\ ProcessInv(p) /\ l \in LocalType /\ l.pc = "recover" /\ l.pc \in Recovering
      /\ Unread /\ UNCHANGED <<disk, holder>> /\ mishaps' \in 0..MaxMishaps
  BY DEF LInv, TypeInv, Recover, At, Recovering, Unread
<1>2. l.reads = 0 /\ ~l.matching
  BY <1>1 DEF ProcessInv, OutInv, Reading, Listing
<1>3. {"ok", "newer", "corrupt"} \subseteq {"ok"} \cup Errors
  BY DEF Errors
<1>4. marker = NoIno => marker \notin staging
  BY <1>1 DEF TypeInv
<1>5. Healthy /\ marker # NoIno => Links(marker) \in {1, 2} /\ Parsed(marker) = "visible"
  BY <1>1, MarkerLinks DEF Healthy, Parsed
<1>6. CASE marker = NoIno \/ Links(marker) = 1
  <2>1. Go(p, Back(l, "ok")) /\ marker \notin staging
    BY <1>1, <1>4, <1>6, MarkerLinks DEF Recover
  <2> QED
    BY <1>1, <1>2, <1>3, <2>1, RecoverReturned
<1>7. CASE marker # NoIno /\ Links(marker) = 2 /\ Parsed(marker) = "visible"
  <2> DEFINE k == Call(l, "list", "explained")
             m == [k EXCEPT !.ino = marker]
             s == Push("explained", l.stack)
  <2>1. Go(p, m) /\ "list" \in Points /\ "explained" \in Labels /\ marker \in Inodes
    BY <1>1, <1>7, MarkerLinks DEF Recover, Points, Listing, Labels
  <2>2. k \in LocalType /\ k.pc = "list" /\ k.stack = s /\ SameData(k, l)
    BY <1>1, <2>1, Called
  <2>3. /\ s \in ListFrames /\ s # <<>> /\ Bottom(s) = Bottom(l.stack) /\ Head(s) = "explained"
    BY <1>1, <2>1, InRecovery, PushPop DEF ListFrames
  <2> HIDE DEF k, s
  <2>4. m \in LocalType
    BY <2>1, <2>2 DEF LocalType
  <2>5. local'[p] = m
    BY <1>1, <2>1, <2>4, GoTo
  <2>6. /\ m.pc = "list" /\ m.stack = s /\ m.ino = marker /\ m.out = l.out /\ m.reads = l.reads
        /\ m.matching = l.matching /\ KeptBelow(p)
    BY <2>2, <2>5 DEF LocalType, SameData, KeptBelow
  <2> HIDE DEF m
  <2>7. Base(p)' = Base(p) /\ FramesInv(p)'
    BY <1>1, <2>3, <2>5, <2>6, InRecovery DEF Base, FramesInv, Resolving, Recovering, Reading, Listing
  <2>8. /\ marker' = marker /\ staging' = staging /\ Healthy' = Healthy /\ Links(marker)' = Links(marker)
    BY <1>1, Unmoved
  <2>9. Base(p) \in RecoverReturns
    BY <1>1, InRecovery
  <2>10. OutInv(p)'
    BY <2>1, <2>5, <2>6, <2>7, <2>9
       DEF OutInv, InResolve, Reading, Listing, RecoverReturns, ReadReturns, PlainReturns, ResolveReturns
  <2>11. ReaderInv(p)'
    BY <1>1, <1>2, <1>7, <2>3, <2>5, <2>6, <2>8 DEF ProcessInv, ReaderInv, Listing
  <2>12. AloneInv(p)'
    BY <1>2, <1>7, <2>3, <2>5, <2>6, <2>7, <2>8, <2>9
       DEF AloneInv, InResolve, Reading, Listing, RecoverReturns, ResolveReturns, ReadReturns, PlainReturns
  <2>13. ~AfterUnlink(p)' /\ local'[p].pc \notin RecoverReturns
    BY <2>3, <2>5, <2>6 DEF AfterUnlink, RecoverReturns, Reading, Listing
  <2>14. content[marker] = "visible"
    BY <1>7 DEF Parsed
  <2> QED
    BY <1>1, <1>7, <2>1, <2>4, <2>6, <2>7, <2>10, <2>11, <2>12, <2>13, <2>14, InnerSettles DEF m
<1>8. CASE marker # NoIno /\ Links(marker) = 2 /\ Parsed(marker) = "newer"
  <2>1. Go(p, Back(l, "newer"))
    BY <1>8 DEF Recover
  <2> QED
    BY <1>1, <1>2, <1>3, <1>5, <1>8, <2>1, RecoverReturned
<1>9. CASE marker # NoIno /\ Links(marker) # 1 /\ ~(Links(marker) = 2 /\ Parsed(marker) \in {"visible", "newer"})
  <2>1. Go(p, Back(l, "corrupt"))
    BY <1>9 DEF Recover
  <2> QED
    BY <1>1, <1>2, <1>3, <1>5, <1>9, <2>1, RecoverReturned
<1> QED
  BY <1>6, <1>7, <1>8, <1>9

LEMMA RecoverVerifySettles ==
    ASSUME LInv, NEW p \in Procs, RecoverVerify(p)
    PROVE  Settles(p)
<1> DEFINE l == local[p]
           v == CASE l.out = "visible" -> "ok"
                  [] l.out \in Errors -> l.out
                  [] OTHER -> "corrupt"
<1>1. /\ TypeInv /\ DiskInv /\ ProcessInv(p) /\ l \in LocalType /\ l.pc = "recverify" /\ l.pc \in Recovering
      /\ UNCHANGED <<disk, holder>> /\ mishaps' \in 0..MaxMishaps /\ Go(p, Back(l, v))
  BY DEF LInv, TypeInv, RecoverVerify, At, Recovering, Unread
<1>2. l.reads = 0 /\ ~l.matching
  BY <1>1 DEF ProcessInv, OutInv, Reading, Listing
<1>3. Undisturbed(p)
  BY <1>1, InRecovery
<1>4. Healthy /\ marker # NoIno /\ marker \notin staging
  BY <1>1 DEF ProcessInv, SectionInv, AfterUnlink
<1>5. l.out = "visible"
  BY <1>1, <1>3, <1>4 DEF ProcessInv, AloneInv, ReadReturns, ReadValue, Healthy
<1>6. v = "ok" /\ "ok" \in {"ok"} \cup Errors
  BY <1>5 DEF Errors
<1> QED
  BY <1>1, <1>2, <1>4, <1>6, RecoverReturned

LEMMA RecoverSyncSettles ==
    ASSUME LInv, NEW p \in Procs, RecoverSync(p)
    PROVE  Settles(p)
<1> DEFINE l == local[p]
<1>1. /\ TypeInv /\ ProcessInv(p) /\ l \in LocalType /\ l.pc = "recsync" /\ l.pc \in Recovering
      /\ UNCHANGED <<disk, holder>>
  BY DEF LInv, TypeInv, RecoverSync, At, Recovering
<1>2. mishaps' \in 0..MaxMishaps
  BY <1>1 DEF TypeInv, RecoverSync, Mishap
<1>3. CASE Go(p, Return(l, "io"))
  <2>1. "io" \in {"ok"} \cup Errors
    BY DEF Errors
  <2> QED
    BY <1>1, <1>2, <1>3, <2>1, RecoverReturned
<1>4. CASE Go(p, Call([l EXCEPT !.matching = FALSE, !.ino = NoIno], "stat", "recverify"))
  <2> DEFINE j == [l EXCEPT !.matching = FALSE, !.ino = NoIno]
             k == Call(j, "stat", "recverify")
             s == Push("recverify", l.stack)
  <2>1. j \in LocalType
    <3>1. ASSUME NEW b \in BOOLEAN, NEW i \in Inodes \cup {NoIno}
          PROVE  [l EXCEPT !.matching = b, !.ino = i] \in LocalType
      BY <1>1, <3>1 DEF LocalType
    <3>2. FALSE \in BOOLEAN
      BY Zenon
    <3> QED
      BY <3>1, <3>2
  <2>2. /\ j.stack = l.stack /\ j.out = l.out /\ j.reads = l.reads /\ ~j.matching /\ j.made = l.made
        /\ j.raw = l.raw /\ j.todo = l.todo /\ j.found = l.found /\ j.interrupted = l.interrupted
        /\ j.quiet = l.quiet /\ j.report = l.report
    BY <1>1 DEF LocalType
  <2>3. "stat" \in Points /\ "recverify" \in Labels
    BY DEF Points, Reading, Labels, ReadReturns
  <2> HIDE DEF j
  <2>4. k \in LocalType /\ k.pc = "stat" /\ k.stack = s /\ SameData(k, j)
    BY <2>1, <2>2, <2>3, Called
  <2>5. s \in ReadFrames /\ s # <<>> /\ Bottom(s) = Bottom(l.stack)
    BY <1>1, <2>3, InRecovery, PushPop DEF ReadFrames
  <2> HIDE DEF k, s
  <2>6. local'[p] = k
    BY <1>1, <1>4, <2>4, GoTo DEF k, j
  <2>7. KeptBelow(p)
    BY <2>2, <2>4, <2>6 DEF SameData, KeptBelow
  <2>8. Base(p)' = Base(p) /\ FramesInv(p)'
    BY <1>1, <2>4, <2>5, <2>6, InRecovery DEF Base, FramesInv, Resolving, Recovering, Reading, Listing
  <2>9. /\ marker' = marker /\ staging' = staging /\ Healthy' = Healthy /\ Links(marker)' = Links(marker)
    BY <1>1, Unmoved
  <2>10. Base(p) \in RecoverReturns
    BY <1>1, InRecovery
  <2>11. k.reads = 0 /\ ~k.matching /\ k.out = l.out
    BY <1>1, <2>2, <2>4 DEF ProcessInv, OutInv, Reading, Listing, SameData
  <2>12. OutInv(p)'
    BY <2>4, <2>6, <2>8, <2>10
       DEF OutInv, InResolve, Reading, Listing, RecoverReturns, ReadReturns, PlainReturns, ResolveReturns
  <2>13. ReaderInv(p)'
    BY <1>1, <2>4, <2>6, <2>9, <2>11 DEF ProcessInv, ReaderInv, Listing
  <2>14. AloneInv(p)'
    BY <2>4, <2>6, <2>8, <2>10, <2>11
       DEF AloneInv, InResolve, Reading, Listing, RecoverReturns, ResolveReturns, ReadReturns, PlainReturns
  <2>15. AfterUnlink(p) /\ ~BeforeUnlink(p)' /\ local'[p].pc \notin RecoverReturns
    BY <1>1, <2>4, <2>6 DEF AfterUnlink, BeforeUnlink, RecoverReturns, Listing
  <2> QED
    BY <1>1, <1>2, <1>4, <2>4, <2>7, <2>8, <2>12, <2>13, <2>14, <2>15, InnerStep DEF k, j
<1> QED
  BY <1>3, <1>4 DEF RecoverSync

-----------------------------------------------------------------------------
(* Steps of an operation outside all calls.                                *)
PlainPoints == {"idle", "lock", "mutating", "spaces", "trash", "reclaiming", "create", "write", "link", "unlink",
                "sync", "failed", "discard", "ensured", "diagnose", "staging", "interrupted"}
BasePoints == PlainPoints \cup ResolveReturns \cup RecoverReturns \cup PlainReturns

Bad == {"corrupt", "newer", "limit", "unsupported", "dotted"}

LEMMA AtBase ==
    ASSUME NEW p \in Procs, ProcessInv(p), local[p].pc \in BasePoints
    PROVE  /\ local[p].stack = <<>> /\ Base(p) = local[p].pc /\ local[p].reads = 0 /\ ~local[p].matching
           /\ local[p].pc \in Locking <=> holder = p
<1>1. /\ local[p].pc \notin Resolving \cup Recovering \cup Reading \cup Listing
      /\ local[p].pc \notin Reading \cup Listing \cup {"explained", "recsync"}
  BY DEF BasePoints, PlainPoints, ResolveReturns, RecoverReturns, PlainReturns, Resolving, Recovering, Reading, Listing
<1>2. local[p].stack = <<>> /\ Base(p) = local[p].pc
  BY <1>1 DEF ProcessInv, FramesInv, Base
<1> QED
  BY <1>1, <1>2 DEF ProcessInv, OutInv, HolderInv

LEMMA PlainInv ==
    ASSUME NEW p \in Procs, local'[p].pc \in PlainPoints, local'[p].stack = <<>>, local'[p].reads = 0,
           ~local'[p].matching, Healthy' => local'[p].out \notin Bad,
           holder' = p <=> local'[p].pc \in Locking,
           SectionInv(p)', DiagnosisInv(p)', ReportInv(p)'
    PROVE  ProcessInv(p)'
<1>1. /\ local'[p].pc \notin Resolving \cup Recovering \cup Reading \cup Listing
      /\ local'[p].pc \notin Reading \cup Listing \cup {"resolved", "matched", "explained", "read", "converged"}
      /\ local'[p].pc \notin ReadReturns /\ local'[p].pc \notin ResolveReturns
  BY DEF PlainPoints, ResolveReturns, ReadReturns, PlainReturns, Resolving, Recovering, Reading, Listing
<1>2. Base(p)' = local'[p].pc
  BY DEF Base
<1>3. FramesInv(p)'
  BY <1>1 DEF FramesInv
<1>4. HolderInv(p)'
  BY <1>2 DEF HolderInv
<1>5. OutInv(p)'
  BY <1>1 DEF OutInv, InResolve
<1>6. ReaderInv(p)'
  BY <1>1 DEF ReaderInv, Bad, Reading, Listing
<1>7. AloneInv(p)'
  BY <1>1 DEF AloneInv, InResolve, ResolveReturns, Reading, Listing
<1> QED
  BY <1>3, <1>4, <1>5, <1>6, <1>7 DEF ProcessInv

LEMMA CalledInv ==
    ASSUME NEW p \in Procs, NEW r,
           \/ local'[p].pc = "stat" /\ r \in PlainReturns
           \/ local'[p].pc = "resolve" /\ r \in ResolveReturns
           \/ local'[p].pc = "recover" /\ r \in RecoverReturns,
           local'[p].stack = Push(r, <<>>), local'[p].reads = 0,
           ~local'[p].matching, Healthy' => local'[p].out \notin Bad,
           holder' = p <=> r \in Locking,
           SectionInv(p)', DiagnosisInv(p)', ReportInv(p)'
    PROVE  ProcessInv(p)'
<1>1. r \in Labels
  BY DEF Labels, ReadReturns
<1>2. Push(r, <<>>) # <<>> /\ Bottom(Push(r, <<>>)) = r
  BY <1>1, PushOne
<1>3. Base(p)' = r
  BY <1>2 DEF Base
<1>4. FramesInv(p)'
  BY DEF FramesInv, Resolving, Recovering, Reading, Listing, ResolveFrames, RecoverFrames, ReadFrames
<1>5. HolderInv(p)'
  BY <1>3 DEF HolderInv
<1>6. OutInv(p)'
  BY <1>3 DEF OutInv, InResolve, Reading, Listing, ResolveReturns, ReadReturns, PlainReturns
<1>7. ReaderInv(p)'
  BY DEF ReaderInv, Bad, Listing
<1>8. AloneInv(p)'
  BY <1>3 DEF AloneInv, InResolve, Reading, Listing, ResolveReturns, ReadReturns, PlainReturns
<1> QED
  BY <1>4, <1>5, <1>6, <1>7, <1>8 DEF ProcessInv

LEMMA OuterStep ==
    ASSUME LInv, NEW p \in Procs, NEW m \in LocalType, Go(p, m), UNCHANGED disk,
           holder' \in {holder, p, NoProc}, holder' # holder => holder \in {p, NoProc},
           mishaps' \in 0..MaxMishaps, ProcessInv(p)'
    PROVE  Settles(p)
<1>1. TypeInv /\ DiskInv
  BY DEF LInv
<1>2. DiskInv'
  BY <1>1, Unmoved
<1>3. Quietly(p)
  BY <1>1, GoTo DEF Quietly, TypeInv
<1>4. TypeInv'
  BY <1>1, GoTo DEF TypeInv
<1> QED
  BY <1>2, <1>3, <1>4 DEF Settles

LEMMA IdleTyped == Idle \in LocalType
<1>1. ASSUME NEW a \in Points, NEW b \in Results, NEW c \in BOOLEAN, NEW d \in BOOLEAN, NEW e \in Reports,
             NEW f \in Operations \cup {"none"}, NEW g \in Seq(Labels), NEW h \in SUBSET Entries,
             NEW i \in Inodes \cup {NoIno}, NEW j \in 0..2, NEW k \in SUBSET Inodes, NEW n \in 0..MaxReads - 1
      PROVE  [pc |-> a, op |-> f, stack |-> g, out |-> b, seen |-> h, ino |-> i, links |-> j,
              pending |-> k, matching |-> c, reads |-> n, made |-> i, raw |-> h, todo |-> k, found |-> b,
              issue |-> c, interrupted |-> c, quiet |-> d, report |-> e] \in LocalType
  BY <1>1 DEF LocalType
<1>2. /\ "idle" \in Points /\ "none" \in Results /\ "none" \in Reports /\ "none" \in Operations \cup {"none"}
      /\ {} \in SUBSET Entries /\ NoIno \in Inodes \cup {NoIno} /\ 0 \in 0..2 /\ {} \in SUBSET Inodes
      /\ 0 \in 0..MaxReads - 1
  BY DEF Points, Results, Reports
<1>3. <<>> \in Seq(Labels)
  OBVIOUS
<1>4. TRUE \in BOOLEAN /\ FALSE \in BOOLEAN
  BY Zenon
<1> QED
  BY <1>1, <1>2, <1>3, <1>4 DEF Idle

(* An operation ends, with or without a report.                            *)
LEMMA IdleSettles ==
    ASSUME LInv, NEW p \in Procs, NEW m \in LocalType, Go(p, m), Release(p), UNCHANGED disk,
           m.pc = "idle", m.stack = <<>>, m.reads = 0, ~m.matching,
           Healthy => m.out \notin Bad, mishaps' \in 0..MaxMishaps,
           m.report # "none" /\ m.quiet =>
               /\ m.report = "interrupted-publication" <=> Healthy /\ marker \in staging
               /\ m.report \in {"absent", "interrupted-publication", "unmarked-visible", "marked-visible"} <=> Healthy
    PROVE  Settles(p)
<1>1. TypeInv
  BY DEF LInv
<1>2. local'[p] = m
  BY <1>1, GoTo
<1>3. marker' = marker /\ staging' = staging /\ Healthy' = Healthy
  BY Unmoved
<1>4. /\ holder' # p /\ holder' \in {holder, p, NoProc} /\ (holder' # holder => holder \in {p, NoProc})
  BY <1>1 DEF Release, TypeInv
<1>5. Base(p)' = "idle"
  BY <1>2 DEF Base
<1>6. SectionInv(p)' /\ DiagnosisInv(p)'
  BY <1>2, <1>5
     DEF SectionInv, DiagnosisInv, AfterUnlink, BeforeUnlink, Locking, Writing, Publishing, Diagnosing, RecoverReturns,
         Reading, Listing
<1>7. ReportInv(p)'
  BY <1>2, <1>3 DEF ReportInv, Truthful
<1>8. ProcessInv(p)'
  BY <1>2, <1>3, <1>4, <1>6, <1>7, PlainInv DEF PlainPoints, Locking, Writing, Publishing
<1> QED
  BY <1>4, <1>8, OuterStep

LEMMA EndedTyped ==
    ASSUME TypeInv, NEW p \in Procs, NEW v \in Results
    PROVE  LET m == Ended(p, v)
           IN  /\ m \in LocalType /\ m.pc = "idle" /\ m.stack = <<>> /\ m.reads = 0 /\ ~m.matching
               /\ m.out = v /\ m.quiet = local[p].quiet /\ m.report = "none" /\ ~m.interrupted
<1> DEFINE m == Ended(p, v)
<1>1. local[p].quiet \in BOOLEAN
  BY DEF TypeInv, LocalType
<1>2. ASSUME NEW q \in BOOLEAN PROVE [Idle EXCEPT !.out = v, !.quiet = q] \in LocalType
  BY <1>2, IdleTyped DEF LocalType
<1>3. m \in LocalType
  BY <1>1, <1>2 DEF Ended
<1>4. /\ m.pc = Idle.pc /\ m.stack = Idle.stack /\ m.reads = Idle.reads /\ m.matching = Idle.matching
      /\ m.out = v /\ m.quiet = local[p].quiet /\ m.report = Idle.report /\ m.interrupted = Idle.interrupted
  BY IdleTyped DEF LocalType, Ended
<1>5. /\ Idle.pc = "idle" /\ Idle.stack = <<>> /\ Idle.reads = 0 /\ Idle.matching = FALSE /\ Idle.report = "none"
      /\ Idle.interrupted = FALSE /\ Idle.out = "none" /\ Idle.quiet = TRUE
  BY DEF Idle
<1> QED
  BY <1>3, <1>4, <1>5

LEMMA FinishSettles ==
    ASSUME LInv, NEW p \in Procs, NEW v \in Results, Finish(p, v), Healthy => v \notin Bad,
           mishaps' \in 0..MaxMishaps
    PROVE  Settles(p)
<1>1. TypeInv
  BY DEF LInv
<1> QED
  BY <1>1, EndedTyped, IdleSettles DEF Finish

LEMMA CrashSettles ==
    ASSUME LInv, NEW p \in Procs, Crash(p)
    PROVE  Settles(p)
<1>1. mishaps' \in 0..MaxMishaps
  BY DEF LInv, TypeInv, Crash, Mishap
<1>2. /\ Idle.pc = "idle" /\ Idle.stack = <<>> /\ Idle.reads = 0 /\ ~Idle.matching /\ Idle.report = "none"
      /\ Idle.out = "none"
  BY DEF Idle
<1>3. "none" \notin Bad
  BY DEF Bad
<1> QED
  BY <1>1, <1>2, <1>3, IdleTyped, IdleSettles DEF Crash

LEMMA Jumped ==
    ASSUME NEW l \in LocalType, NEW a \in Points
    PROVE  /\ [l EXCEPT !.pc = a] \in LocalType
           /\ [l EXCEPT !.pc = a].pc = a /\ [l EXCEPT !.pc = a].stack = l.stack
           /\ SameData([l EXCEPT !.pc = a], l)
BY DEF LocalType, SameData

LEMMA PlainInPoints == PlainPoints \subseteq Points
BY DEF PlainPoints, Points, Locking, Writing, Publishing, Diagnosing

LEMMA JumpedTo ==
    ASSUME TypeInv, NEW p \in Procs, NEW a \in PlainPoints, Go(p, [local[p] EXCEPT !.pc = a])
    PROVE  /\ local'[p].pc = a /\ local'[p].stack = local[p].stack
           /\ SameData(local'[p], local[p])
<1> DEFINE m == [local[p] EXCEPT !.pc = a]
<1>1. m \in LocalType /\ m.pc = a /\ m.stack = local[p].stack /\ SameData(m, local[p])
  BY PlainInPoints, Jumped DEF TypeInv
<1> HIDE DEF m
<1>2. local'[p] = m
  BY <1>1, GoTo DEF m
<1> QED
  BY <1>1, <1>2

(* From one control point of an operation that is no diagnosis to another. *)
LEMMA JumpSettles ==
    ASSUME LInv, NEW p \in Procs, local[p].pc \in BasePoints \ {"idle"},
           NEW a \in PlainPoints \ Diagnosing,
           Go(p, [local[p] EXCEPT !.pc = a]), UNCHANGED <<disk, holder>>, mishaps' \in 0..MaxMishaps,
           local[p].pc \in Locking <=> a \in Locking,
           SectionInv(p)'
    PROVE  Settles(p)
<1> DEFINE l == local[p]
           m == [l EXCEPT !.pc = a]
<1>1. TypeInv /\ ProcessInv(p) /\ l \in LocalType
  BY DEF LInv, TypeInv
<1>2. m \in LocalType /\ m.pc = a /\ m.stack = l.stack /\ SameData(m, l)
  BY <1>1, PlainInPoints, Jumped
<1> HIDE DEF m
<1>3. local'[p] = m
  BY <1>1, <1>2, GoTo DEF m
<1>4. l.stack = <<>> /\ l.reads = 0 /\ ~l.matching /\ (holder = p <=> l.pc \in Locking)
  BY <1>1, AtBase
<1>5. marker' = marker /\ staging' = staging /\ Healthy' = Healthy
  BY Unmoved
<1>6. DiagnosisInv(p)'
  BY <1>2, <1>3, <1>4 DEF DiagnosisInv, Base, Diagnosing
<1>7. ReportInv(p)'
  BY <1>1, <1>2, <1>3 DEF ProcessInv, ReportInv, SameData
<1>8. Healthy' => local'[p].out \notin Bad
  BY <1>1, <1>2, <1>3, <1>5 DEF ProcessInv, ReaderInv, SameData, Bad
<1>9. ProcessInv(p)'
  BY <1>2, <1>3, <1>4, <1>6, <1>7, <1>8, PlainInv DEF SameData
<1> QED
  BY <1>2, <1>9, OuterStep DEF m

LEMMA BaseCalled ==
    ASSUME NEW p \in Procs, NEW r \in Labels, local'[p].stack = Push(r, <<>>)
    PROVE  Base(p)' = r
<1>1. Push(r, <<>>) # <<>> /\ Bottom(Push(r, <<>>)) = r
  BY PushOne
<1> QED
  BY <1>1 DEF Base

LEMMA CallSettles ==
    ASSUME LInv, NEW p \in Procs, local[p].pc \in BasePoints \ {"idle"}, NEW r,
           NEW m \in LocalType, Go(p, m),
           \/ m.pc = "stat" /\ r \in PlainReturns
           \/ m.pc = "resolve" /\ r \in ResolveReturns
           \/ m.pc = "recover" /\ r \in RecoverReturns,
           m.stack = Push(r, <<>>), m.reads = 0, ~m.matching, m.out = local[p].out, m.report = "none",
           UNCHANGED disk, holder' \in {holder, p}, holder' # holder => holder = NoProc,
           holder' = p <=> r \in Locking, mishaps' \in 0..MaxMishaps,
           SectionInv(p)', DiagnosisInv(p)'
    PROVE  Settles(p)
<1>1. TypeInv /\ ProcessInv(p)
  BY DEF LInv
<1>2. local'[p] = m
  BY <1>1, GoTo
<1>3. Healthy' = Healthy
  BY Unmoved
<1>4. Healthy' => local'[p].out \notin Bad
  BY <1>1, <1>2, <1>3 DEF ProcessInv, ReaderInv, Bad
<1>5. ReportInv(p)'
  BY <1>2 DEF ReportInv
<1>6. ProcessInv(p)'
  BY <1>2, <1>4, <1>5, CalledInv
<1> QED
  BY <1>6, OuterStep

LEMMA PreliminarySettles ==
    ASSUME LInv, NEW p \in Procs, Preliminary(p)
    PROVE  Settles(p)
<1> DEFINE l == local[p]
           layout == RequireWritable(l.out)
<1>1. /\ TypeInv /\ ProcessInv(p) /\ l \in LocalType /\ l.pc = "preliminary"
      /\ mishaps' \in 0..MaxMishaps
  BY DEF LInv, TypeInv, Preliminary, At
<1>2. /\ l.out \in {"visible", "dotted"} \cup Errors /\ (l.out = "visible" => ".spaces" \notin entries)
      /\ Healthy => l.out \notin Bad
  BY <1>1 DEF ProcessInv, OutInv, ReaderInv, ResolveReturns, Bad
<1>3. CASE l.op = "inspect"
  <2>1. Finish(p, l.out) /\ l.out \in Results
    BY <1>2, <1>3 DEF Preliminary, Results
  <2> QED
    BY <1>1, <1>2, <2>1, FinishSettles
<1>4. CASE l.op # "inspect" /\ layout \in Errors
  <2>1. Finish(p, layout) /\ layout \in Results
    BY <1>4 DEF Preliminary, Results
  <2>2. Healthy => layout \notin Bad
    BY <1>2 DEF RequireWritable, Bad
  <2> QED
    BY <1>1, <2>1, <2>2, FinishSettles
<1>5. CASE l.op # "inspect" /\ layout \notin Errors
  <2>1. Go(p, [l EXCEPT !.pc = "lock"]) /\ UNCHANGED <<disk, holder>>
    BY <1>5 DEF Preliminary
  <2>2. ".spaces" \notin entries
    BY <1>2, <1>5 DEF RequireWritable, Errors
  <2>3. local'[p].pc = "lock" /\ local'[p].stack = <<>>
    <3>1. l.stack = <<>>
      BY <1>1, AtBase DEF BasePoints, ResolveReturns
    <3>2. "lock" \in PlainPoints
      BY DEF PlainPoints
    <3> QED
      BY <1>1, <2>1, <3>1, <3>2, JumpedTo
  <2>4. SectionInv(p)'
    BY <2>1, <2>2, <2>3
       DEF SectionInv, Base, AfterUnlink, BeforeUnlink, Locking, Writing, Publishing, RecoverReturns, Reading, Listing
  <2>5. "lock" \in PlainPoints \ Diagnosing /\ "lock" \notin Locking
    BY DEF PlainPoints, Diagnosing, Locking, Writing, Publishing
  <2>6. l.pc \in BasePoints \ {"idle"} /\ l.pc \notin Locking
    BY <1>1 DEF BasePoints, ResolveReturns, Locking, Writing, Publishing
  <2> QED
    BY <1>1, <2>1, <2>4, <2>5, <2>6, JumpSettles
<1> QED
  BY <1>3, <1>4, <1>5

LEMMA LockSettles ==
    ASSUME LInv, NEW p \in Procs, Lock(p)
    PROVE  Settles(p)
<1> DEFINE l == local[p]
           m == Call(l, "recover", "locked")
<1>1. /\ TypeInv /\ ProcessInv(p) /\ l \in LocalType /\ l.pc = "lock" /\ l.pc \in BasePoints \ {"idle"}
      /\ mishaps' \in 0..MaxMishaps /\ UNCHANGED disk /\ Go(p, m)
      /\ holder = NoProc /\ holder' = p /\ "root" \in entries
  BY DEF LInv, TypeInv, Lock, At, BasePoints, PlainPoints
<1>2. l.stack = <<>> /\ Base(p) = "lock" /\ l.reads = 0 /\ ~l.matching
  BY <1>1, AtBase
<1>3. "recover" \in Points /\ "locked" \in Labels /\ "locked" \in RecoverReturns /\ "locked" \in Locking
  BY DEF Points, Recovering, Labels, RecoverReturns, Locking
<1>4. m \in LocalType /\ m.pc = "recover" /\ m.stack = Push("locked", <<>>) /\ SameData(m, l)
  BY <1>1, <1>2, <1>3, Called
<1> HIDE DEF m
<1>5. local'[p] = m
  BY <1>1, <1>4, GoTo
<1>6. Base(p)' = "locked"
  BY <1>3, <1>4, <1>5, BaseCalled
<1>7. entries' = entries /\ ".spaces" \notin entries
  BY <1>1, <1>2 DEF ProcessInv, SectionInv
<1>8. SectionInv(p)'
  BY <1>1, <1>4, <1>5, <1>6, <1>7
     DEF SectionInv, AfterUnlink, BeforeUnlink, Locking, Writing, Publishing, RecoverReturns, Reading, Listing
<1>9. DiagnosisInv(p)'
  BY <1>6 DEF DiagnosisInv, Diagnosing
<1>10. m.report = "none" /\ m.out = l.out /\ m.reads = 0 /\ ~m.matching
  BY <1>1, <1>2, <1>4 DEF ProcessInv, ReportInv, SameData
<1> QED
  BY <1>1, <1>3, <1>4, <1>8, <1>9, <1>10, CallSettles DEF m

LEMMA LockFailsSettles ==
    ASSUME LInv, NEW p \in Procs, LockFails(p)
    PROVE  Settles(p)
<1>1. mishaps' \in 0..MaxMishaps
  BY DEF LInv, TypeInv, LockFails, Mishap
<1>2. {"io", "busy"} \subseteq Results /\ {"io", "busy"} \cap Bad = {}
  BY DEF Results, Errors, Bad
<1>3. Finish(p, "io") \/ Finish(p, "busy")
  BY DEF LockFails
<1> QED
  BY <1>1, <1>2, <1>3, FinishSettles

LEMMA LockedSettles ==
    ASSUME LInv, NEW p \in Procs, Locked(p)
    PROVE  Settles(p)
<1> DEFINE l == local[p]
           m == Call(l, "resolve", "layout")
<1>1. /\ TypeInv /\ ProcessInv(p) /\ l \in LocalType /\ l.pc = "locked" /\ l.pc \in BasePoints \ {"idle"}
      /\ mishaps' \in 0..MaxMishaps
  BY DEF LInv, TypeInv, Locked, At, BasePoints, RecoverReturns
<1>2. l.stack = <<>> /\ Base(p) = "locked" /\ l.reads = 0 /\ ~l.matching /\ holder = p
  BY <1>1, AtBase DEF Locking
<1>3. CASE l.out # "ok"
  <2>1. Finish(p, l.out) /\ l.out \in Results
    BY <1>1, <1>3 DEF Locked, LocalType
  <2>2. Healthy => l.out \notin Bad
    BY <1>1 DEF ProcessInv, ReaderInv, Bad
  <2> QED
    BY <1>1, <2>1, <2>2, FinishSettles
<1>4. CASE l.out = "ok"
  <2>1. Go(p, m) /\ UNCHANGED <<disk, holder>>
    BY <1>4 DEF Locked
  <2>2. "resolve" \in Points /\ "layout" \in Labels /\ "layout" \in ResolveReturns /\ "layout" \in Locking
    BY DEF Points, Resolving, Labels, ResolveReturns, Locking
  <2>3. m \in LocalType /\ m.pc = "resolve" /\ m.stack = Push("layout", <<>>) /\ SameData(m, l)
    BY <1>1, <1>2, <2>2, Called
  <2> HIDE DEF m
  <2>4. local'[p] = m
    BY <1>1, <2>1, <2>3, GoTo
  <2>5. Base(p)' = "layout"
    BY <2>2, <2>3, <2>4, BaseCalled
  <2>6. /\ entries' = entries /\ marker' = marker /\ staging' = staging
        /\ ".spaces" \notin entries /\ "root" \in entries /\ marker \notin staging
    BY <1>1, <1>2, <1>4, <2>1 DEF ProcessInv, SectionInv, Locking, RecoverReturns
  <2>7. SectionInv(p)'
    BY <2>3, <2>4, <2>5, <2>6
       DEF SectionInv, AfterUnlink, BeforeUnlink, Locking, Writing, Publishing, RecoverReturns, Reading, Listing
  <2>8. DiagnosisInv(p)'
    BY <2>5 DEF DiagnosisInv, Diagnosing
  <2>9. m.report = "none" /\ m.out = l.out /\ m.reads = 0 /\ ~m.matching
    BY <1>1, <1>2, <2>3 DEF ProcessInv, ReportInv, SameData
  <2> QED
    BY <1>1, <1>2, <2>1, <2>2, <2>3, <2>7, <2>8, <2>9, CallSettles DEF m
<1> QED
  BY <1>3, <1>4

LEMMA VisibleIsHealthy ==
    ASSUME TypeInv, DiskInv, ReadValue \in {"none", "visible"}, ".spaces" \notin entries
    PROVE  Healthy
<1>1. CASE marker = NoIno
  <2>1. outside = {}
    BY <1>1 DEF DiskInv
  <2> QED
    BY <1>1, <2>1 DEF Healthy
<1>2. CASE marker # NoIno
  <2>1. outside = {} /\ content[marker] = "visible"
    <3>1. CASE outside # {}
      BY <1>2, <3>1 DEF ReadValue
    <3>2. CASE outside = {}
      <4>1. ReadValue \in {"corrupt", content[marker]}
        BY <1>2, <3>2 DEF ReadValue
      <4>2. content[marker] # "none"
        BY <1>2 DEF TypeInv, Formats
      <4> QED
        BY <3>2, <4>1, <4>2
    <3> QED
      BY <3>1, <3>2
  <2> QED
    BY <2>1 DEF Healthy
<1> QED
  BY <1>1, <1>2

LEMMA LayoutKnownSettles ==
    ASSUME LInv, NEW p \in Procs, LayoutKnown(p)
    PROVE  Settles(p)
<1> DEFINE l == local[p]
           layout == RequireWritable(l.out)
           next == IF l.op = "mutate" THEN "mutating" ELSE "spaces"
<1>1. /\ TypeInv /\ DiskInv /\ ProcessInv(p) /\ l \in LocalType /\ l.pc = "layout" /\ l.pc \in BasePoints \ {"idle"}
      /\ mishaps' \in 0..MaxMishaps
  BY DEF LInv, TypeInv, LayoutKnown, At, BasePoints, ResolveReturns
<1>2. /\ l.out \in {"visible", "dotted"} \cup Errors
      /\ Healthy => l.out \notin Bad
  BY <1>1 DEF ProcessInv, OutInv, ReaderInv, ResolveReturns, Bad
<1>3. l.stack = <<>> /\ Base(p) = "layout" /\ holder = p
  BY <1>1, AtBase DEF Locking
<1>4. CASE layout \in Errors
  <2>1. Finish(p, layout) /\ layout \in Results
    BY <1>4 DEF LayoutKnown, Results
  <2>2. Healthy => layout \notin Bad
    BY <1>2 DEF RequireWritable, Bad
  <2> QED
    BY <1>1, <2>1, <2>2, FinishSettles
<1>5. CASE layout \notin Errors /\ next = "mutating" /\ "spaces" \notin entries
  <2>1. Finish(p, "io") /\ "io" \in Results /\ "io" \notin Bad
    BY <1>5 DEF LayoutKnown, Results, Errors, Bad
  <2> QED
    BY <1>1, <2>1, FinishSettles
<1>6. CASE layout \notin Errors /\ ~(next = "mutating" /\ "spaces" \notin entries)
  <2>1. Go(p, [l EXCEPT !.pc = next]) /\ UNCHANGED <<disk, holder>>
    BY <1>6 DEF LayoutKnown
  <2>2. l.out = "visible" /\ ".spaces" \notin entries /\ "root" \in entries /\ marker \notin staging
    BY <1>1, <1>2, <1>3, <1>6 DEF RequireWritable, Errors, ProcessInv, SectionInv, Locking
  <2>3. Healthy
    <3>1. l.out = Layout(ReadValue, entries)
      BY <1>1, <1>3 DEF ProcessInv, AloneInv, Undisturbed, Locking
    <3>2. ReadValue \in {"none", "corrupt", "visible", "dotted", "newer", "empty"}
      BY <1>1 DEF TypeInv, ReadValue, Formats
    <3>3. ReadValue # "empty"
      BY <1>1 DEF ReadValue, DiskInv, MarkerComplete
    <3>4. ReadValue \in {"none", "visible"}
      BY <2>2, <3>1, <3>2, <3>3 DEF Layout, Errors
    <3> QED
      BY <1>1, <2>2, <3>4, VisibleIsHealthy
  <2>4. next \in PlainPoints \ Diagnosing /\ next \in Locking /\ l.pc \in Locking /\ next \in {"mutating", "spaces"}
    BY <1>1 DEF PlainPoints, Diagnosing, Locking, Writing
  <2>5. local'[p].pc = next /\ local'[p].stack = <<>>
    <3> HIDE DEF next
    <3> QED
      BY <1>1, <1>3, <2>1, <2>4, JumpedTo
  <2>6. Healthy' = Healthy /\ entries' = entries /\ marker' = marker /\ staging' = staging
    BY <2>1, Unmoved
  <2>7. SectionInv(p)'
    BY <1>6, <2>2, <2>3, <2>4, <2>5, <2>6
       DEF SectionInv, Base, AfterUnlink, BeforeUnlink, Locking, Writing, Publishing, RecoverReturns, Reading, Listing
  <2> QED
    BY <1>1, <2>1, <2>4, <2>7, JumpSettles
<1> QED
  BY <1>4, <1>5, <1>6

LEMMA EndSettles ==
    ASSUME LInv, NEW p \in Procs, EndMutation(p) \/ Ensured(p)
    PROVE  Settles(p)
<1>1. mishaps' \in 0..MaxMishaps /\ Finish(p, "ok") /\ "ok" \in Results /\ "ok" \notin Bad
  BY DEF LInv, TypeInv, EndMutation, Ensured, Results, Bad
<1> QED
  BY <1>1, FinishSettles

-----------------------------------------------------------------------------
(* attempt_visible_marker: steps that do not change the disk               *)
LEMMA InPublication ==
    ASSUME LInv, NEW p \in Procs, local[p].pc \in Locking, local[p].pc \in BasePoints
    PROVE  /\ TypeInv /\ DiskInv /\ ProcessInv(p) /\ local[p] \in LocalType
           /\ local[p].stack = <<>> /\ Base(p) = local[p].pc /\ local[p].reads = 0 /\ ~local[p].matching
           /\ holder = p /\ local[p].report = "none" /\ local[p].out \in Results
           /\ Healthy => local[p].out \notin Bad
<1>1. TypeInv /\ DiskInv /\ ProcessInv(p) /\ local[p] \in LocalType
  BY DEF LInv, TypeInv
<1>2. local[p].pc # "idle"
  BY DEF Locking, Writing, Publishing
<1> QED
  BY <1>1, <1>2, AtBase DEF ProcessInv, ReportInv, ReaderInv, LocalType, Bad

LEMMA ReclaimSettles ==
    ASSUME LInv, NEW p \in Procs, Reclaim(p)
    PROVE  Settles(p)
<1> DEFINE l == local[p]
           m == [l EXCEPT !.pc = "reclaiming", !.todo = staging]
<1>1. l.pc = "reclaim" /\ l.pc \in Locking /\ l.pc \in BasePoints /\ mishaps' \in 0..MaxMishaps
  BY DEF LInv, TypeInv, Reclaim, At, Locking, Writing, Publishing, BasePoints, RecoverReturns
<1>2. /\ TypeInv /\ DiskInv /\ ProcessInv(p) /\ l \in LocalType
      /\ l.stack = <<>> /\ Base(p) = "reclaim" /\ l.reads = 0 /\ ~l.matching
      /\ holder = p /\ l.report = "none" /\ l.out \in Results
      /\ Healthy => l.out \notin Bad
  BY <1>1, InPublication
<1>3. CASE l.out # "ok"
  <2>1. Finish(p, l.out)
    BY <1>3 DEF Reclaim
  <2> QED
    BY <1>1, <1>2, <2>1, FinishSettles
<1>4. CASE l.out = "ok"
  <2>1. Go(p, m) /\ UNCHANGED <<disk, holder>>
    BY <1>4 DEF Reclaim
  <2>2. m \in LocalType
    <3>1. "reclaiming" \in Points /\ staging \in SUBSET Inodes
      BY <1>2 DEF Points, Locking, Writing, Publishing, TypeInv
    <3> QED
      BY <1>2, <3>1 DEF LocalType
  <2>3. local'[p] = m
    BY <1>2, <2>1, <2>2, GoTo
  <2>4. m.pc = "reclaiming" /\ m.stack = <<>> /\ m.todo = staging /\ m.reads = 0 /\ ~m.matching /\ m.out = l.out
        /\ m.report = "none"
    BY <1>2 DEF LocalType
  <2> HIDE DEF m
  <2>5. Base(p)' = "reclaiming"
    BY <2>3, <2>4 DEF Base
  <2>6. /\ Healthy' = Healthy /\ entries' = entries /\ marker' = marker /\ staging' = staging
    BY <2>1, Unmoved
  <2>7. /\ Healthy /\ marker \notin staging /\ ".spaces" \notin entries
        /\ {"root", "spaces", "trash"} \subseteq entries
    BY <1>1, <1>2, <1>4 DEF ProcessInv, SectionInv, Locking, Writing, Publishing, RecoverReturns
  <2>8. SectionInv(p)'
    BY <2>3, <2>4, <2>5, <2>6, <2>7
       DEF SectionInv, AfterUnlink, BeforeUnlink, Locking, Writing, Publishing, RecoverReturns, Reading, Listing
  <2>9. DiagnosisInv(p)' /\ ReportInv(p)'
    BY <2>3, <2>4, <2>5 DEF DiagnosisInv, Diagnosing, ReportInv
  <2>10. ProcessInv(p)'
    BY <1>2, <2>1, <2>3, <2>4, <2>6, <2>8, <2>9, PlainInv DEF PlainPoints, Locking, Writing, Publishing
  <2> QED
    BY <1>1, <2>1, <2>2, <2>10, OuterStep DEF m
<1> QED
  BY <1>3, <1>4

LEMMA CheckSettles ==
    ASSUME LInv, NEW p \in Procs, Check(p)
    PROVE  Settles(p)
<1> DEFINE l == local[p]
           next == IF l.out = "none" THEN "create" ELSE "ensured"
<1>1. l.pc = "check" /\ l.pc \in Locking /\ l.pc \in BasePoints \ {"idle"} /\ mishaps' \in 0..MaxMishaps
  BY DEF LInv, TypeInv, Check, At, Locking, Writing, Publishing, BasePoints, PlainReturns
<1>2. /\ TypeInv /\ DiskInv /\ ProcessInv(p) /\ l \in LocalType
      /\ l.stack = <<>> /\ Base(p) = "check" /\ holder = p /\ l.out \in Results
      /\ Healthy => l.out \notin Bad
  BY <1>1, InPublication
<1>3. CASE l.out \in Errors
  <2>1. Finish(p, l.out)
    BY <1>3 DEF Check
  <2> QED
    BY <1>1, <1>2, <2>1, FinishSettles
<1>4. CASE l.out \notin Errors
  <2>1. Go(p, [l EXCEPT !.pc = next]) /\ UNCHANGED <<disk, holder>>
    BY <1>4 DEF Check
  <2>2. next \in PlainPoints \ Diagnosing /\ next \in Locking /\ next \in {"create", "ensured"}
    BY DEF PlainPoints, Diagnosing, Locking, Writing, Publishing
  <2>3. local'[p].pc = next /\ local'[p].stack = <<>> /\ local'[p].made = l.made
    <3> HIDE DEF next
    <3> QED
      BY <1>2, <2>1, <2>2, JumpedTo DEF SameData
  <2>4. /\ Healthy' = Healthy /\ entries' = entries /\ marker' = marker /\ staging' = staging
    BY <2>1, Unmoved
  <2>5. /\ Healthy /\ staging = {} /\ ".spaces" \notin entries
        /\ {"root", "spaces", "trash"} \subseteq entries
    BY <1>2 DEF ProcessInv, SectionInv, Locking, Writing, Publishing
  <2>6. l.out = "none" <=> marker = NoIno
    <3>1. l.out = ReadValue
      BY <1>1, <1>2 DEF ProcessInv, AloneInv, Undisturbed, ReadReturns, PlainReturns
    <3>2. marker # NoIno => content[marker] = "visible" /\ outside = {}
      BY <2>5 DEF Healthy
    <3> QED
      BY <3>1, <3>2 DEF ReadValue
  <2>7. SectionInv(p)'
    BY <2>2, <2>3, <2>4, <2>5, <2>6
       DEF SectionInv, Base, AfterUnlink, BeforeUnlink, Locking, Writing, Publishing, RecoverReturns, Reading, Listing
  <2> QED
    BY <1>1, <2>1, <2>2, <2>7, JumpSettles
<1> QED
  BY <1>3, <1>4

(* The failed attempts.                                                    *)
LEMMA FailedSettles ==
    ASSUME LInv, NEW p \in Procs,
           \/ local[p].pc \in {"link", "unlink", "sync", "verify"} /\ Go(p, [local[p] EXCEPT !.pc = "failed"])
           \/ local[p].pc = "write" /\ Go(p, [local[p] EXCEPT !.pc = "discard"])
           \/ local[p].pc = "failed" /\ marker = NoIno /\ Go(p, [local[p] EXCEPT !.pc = "discard"])
           \/ local[p].pc = "verify" /\ Go(p, [local[p] EXCEPT !.pc = "ensured"]),
           UNCHANGED <<disk, holder>>, mishaps' \in 0..MaxMishaps
    PROVE  Settles(p)
<1> DEFINE l == local[p]
<1>1. /\ l.pc \in {"write", "link", "unlink", "sync", "verify", "failed"}
      /\ l.pc \in Locking /\ l.pc \in BasePoints \ {"idle"}
  BY DEF Locking, Writing, Publishing, BasePoints, PlainReturns, PlainPoints
<1>2. /\ TypeInv /\ DiskInv /\ ProcessInv(p) /\ l \in LocalType
      /\ l.stack = <<>> /\ Base(p) = l.pc /\ holder = p
  BY <1>1, InPublication
<1>3. PICK a \in {"failed", "discard", "ensured"} :
          /\ Go(p, [l EXCEPT !.pc = a])
          /\ a = "failed" => l.pc \in {"link", "unlink", "sync", "verify"}
          /\ a = "discard" => l.pc = "write" \/ (l.pc = "failed" /\ marker = NoIno)
          /\ a = "ensured" => l.pc = "verify"
  OBVIOUS
<1>4. a \in PlainPoints \ Diagnosing /\ a \in Locking
  BY <1>3 DEF PlainPoints, Diagnosing, Locking, Writing, Publishing
<1>5. local'[p].pc = a /\ local'[p].stack = <<>> /\ local'[p].made = l.made
  BY <1>2, <1>3, <1>4, JumpedTo DEF SameData
<1>6. /\ Healthy' = Healthy /\ entries' = entries /\ marker' = marker /\ staging' = staging
  BY Unmoved
<1>7. /\ Healthy /\ ".spaces" \notin entries /\ {"root", "spaces", "trash"} \subseteq entries
  BY <1>1, <1>2 DEF ProcessInv, SectionInv, Locking, Writing, Publishing
<1>8. /\ l.made \in Inodes
      /\ l.pc \in {"write", "link", "unlink"} => staging = {l.made}
      /\ l.pc \in {"write", "link"} => marker = NoIno
      /\ l.pc \in {"unlink", "sync", "verify"} => marker = l.made
      /\ l.pc \in {"sync", "verify"} => staging = {}
      /\ l.pc = "failed" => marker = l.made \/ (marker = NoIno /\ staging = {l.made})
  BY <1>1, <1>2 DEF ProcessInv, SectionInv
<1>9. SectionInv(p)'
  BY <1>3, <1>5, <1>6, <1>7, <1>8
     DEF SectionInv, Base, AfterUnlink, BeforeUnlink, Locking, Writing, Publishing, RecoverReturns, Reading, Listing
<1> QED
  BY <1>1, <1>3, <1>4, <1>9, JumpSettles

LEMMA PublishVerifySettles ==
    ASSUME LInv, NEW p \in Procs, PublishVerify(p)
    PROVE  Settles(p)
<1>1. /\ local[p].pc = "verify" /\ UNCHANGED <<disk, holder>> /\ mishaps' \in 0..MaxMishaps
      /\ Go(p, [local[p] EXCEPT !.pc = "ensured"]) \/ Go(p, [local[p] EXCEPT !.pc = "failed"])
  BY DEF LInv, TypeInv, PublishVerify, At, Unread
<1> QED
  BY <1>1, FailedSettles

LEMMA PublicationFailedSettles ==
    ASSUME LInv, NEW p \in Procs, PublicationFailed(p)
    PROVE  Settles(p)
<1>1. local[p].pc = "failed" /\ mishaps' \in 0..MaxMishaps
  BY DEF LInv, TypeInv, PublicationFailed, At
<1>2. CASE marker = NoIno
  BY <1>1, <1>2, FailedSettles DEF PublicationFailed
<1>3. CASE marker # NoIno
  <2>1. Finish(p, "io") /\ "io" \in Results /\ "io" \notin Bad
    BY <1>3 DEF PublicationFailed, Results, Errors, Bad
  <2> QED
    BY <1>1, <2>1, FinishSettles
<1> QED
  BY <1>2, <1>3

(* A verification of the marker, before and after the publication.         *)
LEMMA LookSettles ==
    ASSUME LInv, NEW p \in Procs, NEW r,
           \/ local[p].pc = "sync" /\ r = "verify"
           \/ local[p].pc = "reclaiming" /\ local[p].todo = {} /\ r = "check",
           Go(p, Call(local[p], "stat", r)), UNCHANGED <<disk, holder>>, mishaps' \in 0..MaxMishaps
    PROVE  Settles(p)
<1> DEFINE l == local[p]
           m == Call(l, "stat", r)
<1>1. /\ l.pc \in {"sync", "reclaiming"} /\ l.pc \in Locking /\ l.pc \in BasePoints \ {"idle"}
      /\ "stat" \in Points /\ r \in Labels /\ r \in PlainReturns /\ r \in Locking /\ r \in {"verify", "check"}
  BY DEF Locking, Writing, Publishing, BasePoints, PlainPoints, Points, Reading, Labels, ReadReturns, PlainReturns
<1>2. /\ TypeInv /\ DiskInv /\ ProcessInv(p) /\ l \in LocalType
      /\ l.stack = <<>> /\ Base(p) = l.pc /\ holder = p /\ l.reads = 0 /\ ~l.matching /\ l.report = "none"
  BY <1>1, InPublication
<1>3. m \in LocalType /\ m.pc = "stat" /\ m.stack = Push(r, <<>>) /\ SameData(m, l)
  BY <1>1, <1>2, Called
<1> HIDE DEF m
<1>4. local'[p] = m
  BY <1>2, <1>3, GoTo DEF m
<1>5. Base(p)' = r
  BY <1>1, <1>3, <1>4, BaseCalled
<1>6. /\ Healthy' = Healthy /\ entries' = entries /\ marker' = marker /\ staging' = staging
  BY Unmoved
<1>7. /\ Healthy /\ ".spaces" \notin entries /\ {"root", "spaces", "trash"} \subseteq entries
      /\ staging = {}
      /\ r = "verify" => marker = l.made /\ l.made \in Inodes
  BY <1>1, <1>2 DEF ProcessInv, SectionInv, Locking, Writing, Publishing
<1>8. m.made = l.made /\ m.reads = 0 /\ ~m.matching /\ m.out = l.out /\ m.report = "none"
  BY <1>2, <1>3 DEF SameData
<1>9. SectionInv(p)'
  BY <1>1, <1>3, <1>4, <1>5, <1>6, <1>7, <1>8
     DEF SectionInv, AfterUnlink, BeforeUnlink, Locking, Writing, Publishing, RecoverReturns, Reading, Listing
<1>10. DiagnosisInv(p)'
  BY <1>1, <1>5 DEF DiagnosisInv, Diagnosing
<1> QED
  BY <1>1, <1>2, <1>3, <1>8, <1>9, <1>10, CallSettles DEF m

LEMMA PublishSyncSettles ==
    ASSUME LInv, NEW p \in Procs, PublishSync(p)
    PROVE  Settles(p)
<1>1. /\ local[p].pc = "sync" /\ UNCHANGED <<disk, holder>> /\ mishaps' \in 0..MaxMishaps
      /\ Go(p, Call(local[p], "stat", "verify")) \/ Go(p, [local[p] EXCEPT !.pc = "failed"])
  BY DEF LInv, TypeInv, PublishSync, At, Mishap
<1> QED
  BY <1>1, FailedSettles, LookSettles

-----------------------------------------------------------------------------
(* Steps that change the disk                                              *)
DiskTyped ==
    /\ entries \in SUBSET Entries
    /\ marker \in Inodes \cup {NoIno}
    /\ staging \in SUBSET Inodes
    /\ content \in [Inodes -> Formats \cup {"empty"}]

LEMMA ChangeStep ==
    ASSUME LInv, NEW p \in Procs, NEW m \in LocalType, Change(p, m), Progress, DiskTyped', DiskInv',
           \A q \in Procs \ {p} : holder # q /\ holder' # q,
           holder' \in Procs \cup {NoProc}, mishaps' \in 0..MaxMishaps, ProcessInv(p)'
    PROVE  Settles(p)
<1>1. TypeInv
  BY DEF LInv
<1>2. Changing(p)
  BY <1>1, ChangeTo DEF Changing
<1>3. TypeInv'
  BY <1>1, ChangeTo DEF TypeInv, DiskTyped
<1> QED
  BY <1>2, <1>3 DEF Settles

LEMMA HolderChange ==
    ASSUME LInv, NEW p \in Procs, local[p].pc \in Locking, local[p].pc \in BasePoints,
           NEW m \in LocalType, Change(p, m), m.pc \in PlainPoints, m.pc \in Locking, m.stack = <<>>,
           m.reads = 0, ~m.matching, m.out = local[p].out, m.report = "none",
           UNCHANGED holder, mishaps' \in 0..MaxMishaps, Progress, DiskTyped', DiskInv', SectionInv(p)'
    PROVE  Settles(p)
<1>1. TypeInv /\ ProcessInv(p) /\ holder = p /\ (Healthy => local[p].out \notin Bad)
  BY InPublication
<1>2. local'[p] = m
  BY <1>1, ChangeTo
<1>3. Base(p)' = m.pc
  BY <1>2 DEF Base
<1>4. DiagnosisInv(p)' /\ ReportInv(p)'
  <2>1. m.pc \notin Diagnosing
    BY DEF Locking, Writing, Publishing, Diagnosing
  <2> QED
    BY <1>2, <1>3, <2>1 DEF DiagnosisInv, ReportInv, Diagnosing
<1>5. ProcessInv(p)'
  BY <1>1, <1>2, <1>4, PlainInv DEF Progress
<1> QED
  BY <1>1, <1>5, ChangeStep

LEMMA CreateCategorySettles ==
    ASSUME LInv, NEW p \in Procs, CreateCategory(p)
    PROVE  Settles(p)
<1> DEFINE l == local[p]
<1>1. /\ l.pc \in {"spaces", "trash"} /\ l.pc \in Locking /\ l.pc \in BasePoints /\ mishaps' \in 0..MaxMishaps
      /\ UNCHANGED <<marker, staging, content, outside, holder>>
  BY DEF LInv, TypeInv, CreateCategory, At, Locking, Writing, BasePoints, PlainPoints
<1>2. /\ TypeInv /\ DiskInv /\ ProcessInv(p) /\ l \in LocalType
      /\ l.stack = <<>> /\ Base(p) = l.pc /\ l.reads = 0 /\ ~l.matching
      /\ holder = p /\ l.report = "none" /\ (Healthy => l.out \notin Bad)
  BY <1>1, InPublication
<1>3. Healthy /\ "root" \in entries /\ ".spaces" \notin entries /\ (l.pc = "trash" => "spaces" \in entries)
  BY <1>1, <1>2 DEF ProcessInv, SectionInv, Locking, Writing
<1>4. PICK c \in {"spaces", "trash"} : c = l.pc /\ entries' = entries \cup {c}
  BY <1>1 DEF CreateCategory, At
<1>5. Progress /\ DiskTyped' /\ DiskInv' /\ "root" \in entries' /\ ".spaces" \notin entries'
  BY <1>1, <1>2, <1>3, <1>4 DEF Progress, Healthy, DiskTyped, TypeInv, DiskInv, MarkerComplete, Entries
<1>6. Healthy' /\ Healthy
  BY <1>5 DEF Progress
<1>7. CASE l.pc = "spaces"
  <2> DEFINE m == [l EXCEPT !.pc = "trash"]
  <2>1. Change(p, m) /\ "trash" \in Points /\ "trash" \in PlainPoints /\ "trash" \in Locking
    BY <1>7 DEF CreateCategory, At, Points, PlainPoints, Locking, Writing
  <2>2. m \in LocalType /\ m.pc = "trash" /\ m.stack = l.stack /\ SameData(m, l)
    BY <1>2, <2>1, Jumped
  <2> HIDE DEF m
  <2>3. local'[p] = m
    BY <1>2, <2>1, <2>2, ChangeTo
  <2>4. Base(p)' = "trash"
    BY <1>2, <2>2, <2>3 DEF Base
  <2>5. SectionInv(p)'
    BY <1>4, <1>5, <1>6, <1>7, <2>2, <2>3, <2>4
       DEF SectionInv, AfterUnlink, BeforeUnlink, Locking, Writing, Publishing, RecoverReturns, Reading, Listing
  <2> QED
    BY <1>1, <1>2, <1>5, <2>1, <2>2, <2>5, HolderChange DEF SameData
<1>8. CASE l.pc = "trash"
  <2> DEFINE m == Call(l, "recover", "reclaim")
  <2>1. /\ Change(p, m) /\ "recover" \in Points /\ "reclaim" \in Labels /\ "reclaim" \in RecoverReturns
        /\ "reclaim" \in Locking
    BY <1>8 DEF CreateCategory, At, Points, Recovering, Labels, RecoverReturns, Locking, Writing, Publishing
  <2>2. m \in LocalType /\ m.pc = "recover" /\ m.stack = Push("reclaim", <<>>) /\ SameData(m, l)
    BY <1>2, <2>1, Called
  <2> HIDE DEF m
  <2>3. local'[p] = m
    BY <1>2, <2>1, <2>2, ChangeTo
  <2>4. Base(p)' = "reclaim"
    BY <2>1, <2>2, <2>3, BaseCalled
  <2>5. SectionInv(p)'
    BY <1>3, <1>4, <1>5, <1>6, <1>8, <2>2, <2>3, <2>4
       DEF SectionInv, AfterUnlink, BeforeUnlink, Locking, Writing, Publishing, RecoverReturns, Reading, Listing
  <2>6. DiagnosisInv(p)' /\ ReportInv(p)'
    BY <1>2, <2>2, <2>3, <2>4 DEF DiagnosisInv, Diagnosing, ReportInv, SameData
  <2>7. /\ local'[p].pc = "recover" /\ local'[p].stack = Push("reclaim", <<>>) /\ local'[p].reads = 0
        /\ ~local'[p].matching /\ local'[p].out \notin Bad
    BY <1>2, <1>6, <2>2, <2>3 DEF SameData
  <2>8. ProcessInv(p)'
    BY <1>1, <1>2, <2>1, <2>5, <2>6, <2>7, CalledInv
  <2> QED
    BY <1>1, <1>2, <1>5, <2>1, <2>2, <2>8, ChangeStep
<1> QED
  BY <1>1, <1>7, <1>8

(* The lock's holder meets no staging name with a second link.             *)
LEMMA StagingLinks ==
    ASSUME DiskInv, marker \notin staging, NEW i \in staging
    PROVE  Links(i) = 1
<1>1. i \notin outside /\ marker # i
  BY DEF DiskInv
<1> QED
  BY <1>1, LinksOf

LEMMA ReclaimStagingSettles ==
    ASSUME LInv, NEW p \in Procs, ReclaimStaging(p)
    PROVE  Settles(p)
<1> DEFINE l == local[p]
<1>1. /\ l.pc = "reclaiming" /\ l.pc \in Locking /\ l.pc \in BasePoints /\ l.pc \in PlainPoints
  BY DEF ReclaimStaging, At, Locking, Writing, Publishing, BasePoints, PlainPoints
<1>2. /\ TypeInv /\ DiskInv /\ ProcessInv(p) /\ l \in LocalType
      /\ l.stack = <<>> /\ Base(p) = "reclaiming" /\ l.reads = 0 /\ ~l.matching
      /\ holder = p /\ l.report = "none" /\ (Healthy => l.out \notin Bad)
  BY <1>1, InPublication
<1>3. /\ Healthy /\ {"root", "spaces", "trash"} \subseteq entries /\ ".spaces" \notin entries
      /\ l.todo = staging /\ marker \notin staging
  BY <1>1, <1>2 DEF ProcessInv, SectionInv, Locking, Writing, Publishing
<1>4. CASE l.todo = {} /\ Go(p, Call(l, "stat", "check")) /\ UNCHANGED <<disk, holder, mishaps>>
  BY <1>1, <1>2, <1>4, LookSettles DEF TypeInv
<1>5. ASSUME NEW i \in l.todo, Links(i) # 1 PROVE FALSE
  BY <1>2, <1>3, <1>5, StagingLinks
<1>6. CASE Mishap /\ Finish(p, "io")
  <2>1. mishaps' \in 0..MaxMishaps /\ "io" \in Results /\ "io" \notin Bad
    BY <1>2, <1>6 DEF TypeInv, Mishap, Results, Errors, Bad
  <2> QED
    BY <1>6, <2>1, FinishSettles
<1>7. ASSUME NEW i \in l.todo, staging' = staging \ {i}, Change(p, [l EXCEPT !.todo = @ \ {i}]),
             UNCHANGED <<entries, marker, content, outside, holder, mishaps>>
      PROVE  Settles(p)
  <2> DEFINE m == [l EXCEPT !.todo = @ \ {i}]
  <2>1. m \in LocalType
    BY <1>2 DEF LocalType
  <2>2. Change(p, m)
    BY <1>7
  <2>3. /\ m.pc = "reclaiming" /\ m.stack = <<>> /\ m.reads = 0 /\ ~m.matching /\ m.out = l.out
        /\ m.report = "none" /\ m.todo = staging'
    BY <1>1, <1>2, <1>3, <1>7 DEF LocalType
  <2> HIDE DEF m
  <2>4. local'[p] = m
    BY <1>2, <2>1, <2>2, ChangeTo
  <2>5. Base(p)' = "reclaiming"
    BY <2>3, <2>4 DEF Base
  <2>6. Progress /\ DiskTyped' /\ DiskInv' /\ marker' \notin staging'
    BY <1>2, <1>3, <1>7 DEF Progress, Healthy, DiskTyped, TypeInv, DiskInv, MarkerComplete
  <2>7. SectionInv(p)'
    BY <1>3, <1>7, <2>3, <2>5, <2>6, <2>4
       DEF SectionInv, Progress, AfterUnlink, BeforeUnlink, Locking, Writing, Publishing, RecoverReturns, Reading, Listing
  <2> QED
    BY <1>1, <1>2, <1>7, <2>1, <2>2, <2>3, <2>6, <2>7, HolderChange DEF TypeInv
<1> QED
  BY <1>4, <1>5, <1>6, <1>7 DEF ReclaimStaging

LEMMA CreateStagingSettles ==
    ASSUME LInv, NEW p \in Procs, CreateStaging(p)
    PROVE  Settles(p)
<1> DEFINE l == local[p]
<1>1. /\ l.pc = "create" /\ l.pc \in Locking /\ l.pc \in BasePoints
  BY DEF CreateStaging, At, Locking, Writing, Publishing, BasePoints, PlainPoints
<1>2. /\ TypeInv /\ DiskInv /\ ProcessInv(p) /\ l \in LocalType
      /\ l.stack = <<>> /\ Base(p) = "create" /\ l.reads = 0 /\ ~l.matching
      /\ holder = p /\ l.report = "none" /\ (Healthy => l.out \notin Bad)
  BY <1>1, InPublication
<1>3. /\ Healthy /\ {"root", "spaces", "trash"} \subseteq entries /\ ".spaces" \notin entries
      /\ staging = {} /\ marker = NoIno
  BY <1>1, <1>2 DEF ProcessInv, SectionInv, Locking, Writing, Publishing
<1>4. CASE Mishap /\ Finish(p, "io")
  <2>1. mishaps' \in 0..MaxMishaps /\ "io" \in Results /\ "io" \notin Bad
    BY <1>2, <1>4 DEF TypeInv, Mishap, Results, Errors, Bad
  <2> QED
    BY <1>4, <2>1, FinishSettles
<1>5. ASSUME NEW i \in Inodes, staging' = staging \cup {i}, content' = [content EXCEPT ![i] = "empty"],
             Change(p, [l EXCEPT !.pc = "write", !.made = i]),
             UNCHANGED <<entries, marker, outside, holder, mishaps>>
      PROVE  Settles(p)
  <2> DEFINE m == [l EXCEPT !.pc = "write", !.made = i]
  <2>1. "write" \in Points /\ "write" \in PlainPoints /\ "write" \in Locking
    BY DEF Points, PlainPoints, Locking, Writing, Publishing
  <2>2. m \in LocalType /\ Change(p, m)
    BY <1>2, <1>5, <2>1 DEF LocalType
  <2>3. /\ m.pc = "write" /\ m.stack = <<>> /\ m.reads = 0 /\ ~m.matching /\ m.out = l.out
        /\ m.report = "none" /\ m.made = i
    BY <1>1, <1>2 DEF LocalType
  <2> HIDE DEF m
  <2>4. local'[p] = m
    BY <1>2, <2>2, ChangeTo
  <2>5. Base(p)' = "write"
    BY <2>3, <2>4 DEF Base
  <2>6. Progress /\ DiskTyped' /\ DiskInv'
    <3>1. content' \in [Inodes -> Formats \cup {"empty"}]
      BY <1>2, <1>5 DEF TypeInv
    <3> QED
      BY <1>2, <1>3, <1>5, <3>1 DEF Progress, Healthy, DiskTyped, TypeInv, DiskInv, MarkerComplete
  <2>7. SectionInv(p)'
    BY <1>3, <1>5, <2>3, <2>4, <2>5, <2>6
       DEF SectionInv, Progress, AfterUnlink, BeforeUnlink, Locking, Writing, Publishing, RecoverReturns, Reading, Listing
  <2> QED
    BY <1>1, <1>2, <1>5, <2>1, <2>2, <2>3, <2>6, <2>7, HolderChange DEF TypeInv
<1> QED
  BY <1>4, <1>5 DEF CreateStaging

(* The steps of a publication that change the disk and go on.              *)
LEMMA PublicationChange ==
    ASSUME LInv, NEW p \in Procs, NEW a \in {"link", "unlink", "sync"},
           Change(p, [local[p] EXCEPT !.pc = a]), UNCHANGED <<entries, outside, holder, mishaps>>,
           \/ /\ a = "link" /\ local[p].pc = "write"
              /\ content' = [content EXCEPT ![local[p].made] = "visible"] /\ UNCHANGED <<marker, staging>>
           \/ /\ a = "unlink" /\ local[p].pc = "link"
              /\ marker' = local[p].made /\ UNCHANGED <<staging, content>>
           \/ /\ a = "sync" /\ local[p].pc = "unlink"
              /\ staging' = staging \ {local[p].made} /\ UNCHANGED <<marker, content>>
    PROVE  Settles(p)
<1> DEFINE l == local[p]
           m == [l EXCEPT !.pc = a]
<1>1. /\ l.pc \in {"write", "link", "unlink"} /\ l.pc \in Locking /\ l.pc \in BasePoints
      /\ a \in Points /\ a \in PlainPoints /\ a \in Locking
  BY DEF Locking, Writing, Publishing, BasePoints, PlainPoints, Points
<1>2. /\ TypeInv /\ DiskInv /\ ProcessInv(p) /\ l \in LocalType
      /\ l.stack = <<>> /\ Base(p) = l.pc /\ l.reads = 0 /\ ~l.matching
      /\ holder = p /\ l.report = "none" /\ (Healthy => l.out \notin Bad)
  BY <1>1, InPublication
<1>3. m \in LocalType /\ m.pc = a /\ m.stack = l.stack /\ SameData(m, l)
  BY <1>1, <1>2, Jumped
<1>4. Change(p, m)
  OBVIOUS
<1> HIDE DEF m
<1>5. local'[p] = m
  BY <1>2, <1>3, <1>4, ChangeTo
<1>6. Base(p)' = a /\ m.made = l.made
  BY <1>2, <1>3, <1>5 DEF Base, SameData
<1>7. /\ Healthy /\ {"root", "spaces", "trash"} \subseteq entries /\ ".spaces" \notin entries
      /\ staging = {l.made} /\ l.made \in Inodes
      /\ l.pc \in {"write", "link"} => marker = NoIno
      /\ l.pc = "link" => content[l.made] = "visible"
      /\ l.pc = "unlink" => marker = l.made
  BY <1>1, <1>2 DEF ProcessInv, SectionInv, Locking, Writing, Publishing
<1>8. content' \in [Inodes -> Formats \cup {"empty"}]
  BY <1>2 DEF TypeInv, Formats
<1>9. NoIno \notin Inodes /\ l.made # NoIno
  BY <1>7
<1>10. outside = {} /\ (marker # NoIno => content[marker] = "visible")
  BY <1>7 DEF Healthy
<1>11. CASE a = "link"
  <2>1. /\ l.pc = "write" /\ content' = [content EXCEPT ![l.made] = "visible"] /\ UNCHANGED <<marker, staging>>
    BY <1>11
  <2>2. content'[l.made] = "visible"
    BY <1>2, <1>7, <2>1 DEF TypeInv
  <2>3. Progress /\ DiskTyped' /\ DiskInv'
    BY <1>2, <1>7, <1>8, <1>10, <2>1 DEF Progress, Healthy, DiskTyped, TypeInv, DiskInv, MarkerComplete
  <2>4. SectionInv(p)'
    BY <1>3, <1>5, <1>6, <1>7, <1>11, <2>1, <2>2, <2>3
       DEF SectionInv, Progress, AfterUnlink, BeforeUnlink, Locking, Writing, Publishing, RecoverReturns, Reading, Listing
  <2> QED
    BY <1>1, <1>2, <1>3, <1>4, <2>3, <2>4, HolderChange DEF SameData, TypeInv
<1>12. CASE a = "unlink"
  <2>1. /\ l.pc = "link" /\ marker' = l.made /\ UNCHANGED <<staging, content>>
    BY <1>12
  <2>2. Progress /\ DiskTyped' /\ DiskInv'
    BY <1>2, <1>7, <1>8, <1>9, <1>10, <2>1 DEF Progress, Healthy, DiskTyped, TypeInv, DiskInv, MarkerComplete
  <2>3. SectionInv(p)'
    BY <1>3, <1>5, <1>6, <1>7, <1>12, <2>1, <2>2
       DEF SectionInv, Progress, AfterUnlink, BeforeUnlink, Locking, Writing, Publishing, RecoverReturns, Reading, Listing
  <2> QED
    BY <1>1, <1>2, <1>3, <1>4, <2>2, <2>3, HolderChange DEF SameData, TypeInv
<1>13. CASE a = "sync"
  <2>1. /\ l.pc = "unlink" /\ staging' = staging \ {l.made} /\ UNCHANGED <<marker, content>>
    BY <1>13
  <2>2. staging' = {}
    BY <1>7, <2>1
  <2>3. Progress /\ DiskTyped' /\ DiskInv'
    BY <1>2, <1>7, <1>8, <1>9, <1>10, <2>1, <2>2
       DEF Progress, Healthy, DiskTyped, TypeInv, DiskInv, MarkerComplete
  <2>4. SectionInv(p)'
    BY <1>3, <1>5, <1>6, <1>7, <1>13, <2>1, <2>2, <2>3
       DEF SectionInv, Progress, AfterUnlink, BeforeUnlink, Locking, Writing, Publishing, RecoverReturns, Reading, Listing
  <2> QED
    BY <1>1, <1>2, <1>3, <1>4, <2>3, <2>4, HolderChange DEF SameData, TypeInv
<1> QED
  BY <1>11, <1>12, <1>13

LEMMA WriteStagingSettles ==
    ASSUME LInv, NEW p \in Procs, WriteStaging(p)
    PROVE  Settles(p)
<1>1. local[p].pc = "write" /\ UNCHANGED <<entries, marker, staging, outside, holder>>
  BY DEF WriteStaging, At
<1>2. CASE /\ content' = [content EXCEPT ![local[p].made] = "visible"]
           /\ Change(p, [local[p] EXCEPT !.pc = "link"]) /\ UNCHANGED mishaps
  BY <1>1, <1>2, PublicationChange
<1>3. CASE Mishap /\ Go(p, [local[p] EXCEPT !.pc = "discard"]) /\ UNCHANGED content
  <2>1. mishaps' \in 0..MaxMishaps /\ UNCHANGED <<disk, holder>>
    BY <1>1, <1>3 DEF LInv, TypeInv, Mishap
  <2> QED
    BY <1>1, <1>3, <2>1, FailedSettles
<1> QED
  BY <1>2, <1>3 DEF WriteStaging

LEMMA PublishSettles ==
    ASSUME LInv, NEW p \in Procs, Publish(p)
    PROVE  Settles(p)
<1>1. local[p].pc = "link" /\ UNCHANGED <<entries, staging, content, outside, holder>>
  BY DEF Publish, At
<1>2. CASE marker' = local[p].made /\ Change(p, [local[p] EXCEPT !.pc = "unlink"]) /\ UNCHANGED mishaps
  BY <1>1, <1>2, PublicationChange
<1>3. CASE Mishap /\ Go(p, [local[p] EXCEPT !.pc = "failed"]) /\ UNCHANGED marker
  <2>1. mishaps' \in 0..MaxMishaps /\ UNCHANGED <<disk, holder>>
    BY <1>1, <1>3 DEF LInv, TypeInv, Mishap
  <2> QED
    BY <1>1, <1>3, <2>1, FailedSettles
<1> QED
  BY <1>2, <1>3 DEF Publish

LEMMA PublishUnlinkSettles ==
    ASSUME LInv, NEW p \in Procs, PublishUnlink(p)
    PROVE  Settles(p)
<1>1. local[p].pc = "unlink" /\ UNCHANGED <<entries, marker, content, outside, holder>>
  BY DEF PublishUnlink, At
<1>2. CASE staging' = staging \ {local[p].made} /\ Change(p, [local[p] EXCEPT !.pc = "sync"]) /\ UNCHANGED mishaps
  BY <1>1, <1>2, PublicationChange
<1>3. CASE Mishap /\ Go(p, [local[p] EXCEPT !.pc = "failed"]) /\ UNCHANGED staging
  <2>1. mishaps' \in 0..MaxMishaps /\ UNCHANGED <<disk, holder>>
    BY <1>1, <1>3 DEF LInv, TypeInv, Mishap
  <2> QED
    BY <1>1, <1>3, <2>1, FailedSettles
<1> QED
  BY <1>2, <1>3 DEF PublishUnlink

LEMMA DiscardStagingSettles ==
    ASSUME LInv, NEW p \in Procs, DiscardStaging(p)
    PROVE  Settles(p)
<1> DEFINE l == local[p]
           m == Ended(p, "io")
<1>1. /\ l.pc = "discard" /\ l.pc \in Locking /\ l.pc \in BasePoints
      /\ "io" \in Results /\ "io" \notin Bad
  BY DEF DiscardStaging, At, Locking, Writing, Publishing, BasePoints, PlainPoints, Results, Errors, Bad
<1>2. /\ TypeInv /\ DiskInv /\ ProcessInv(p) /\ Base(p) = "discard" /\ holder = p
  BY <1>1, InPublication
<1>3. CASE Mishap /\ Finish(p, "io")
  <2>1. mishaps' \in 0..MaxMishaps
    BY <1>2, <1>3 DEF TypeInv, Mishap
  <2> QED
    BY <1>1, <1>3, <2>1, FinishSettles
<1>4. CASE /\ staging' = staging \ {l.made} /\ Change(p, m) /\ Release(p)
           /\ UNCHANGED <<entries, marker, content, outside, mishaps>>
  <2>1. /\ Healthy /\ "root" \in entries /\ ".spaces" \notin entries /\ marker = NoIno
    BY <1>1, <1>2 DEF ProcessInv, SectionInv, Locking, Writing, Publishing
  <2>2. /\ m \in LocalType /\ m.pc = "idle" /\ m.stack = <<>> /\ m.reads = 0 /\ ~m.matching
        /\ m.out = "io" /\ m.report = "none"
    BY <1>1, <1>2, EndedTyped
  <2>3. Change(p, m)
    BY <1>4
  <2> HIDE DEF m
  <2>4. local'[p] = m
    BY <1>2, <2>2, <2>3, ChangeTo
  <2>5. Base(p)' = "idle" /\ holder' = NoProc
    BY <1>2, <1>4, <2>2, <2>4 DEF Base, Release
  <2>6. Progress /\ DiskTyped' /\ DiskInv'
    BY <1>2, <1>4, <2>1 DEF Progress, Healthy, DiskTyped, TypeInv, DiskInv, MarkerComplete
  <2>7. SectionInv(p)' /\ DiagnosisInv(p)'
    BY <2>2, <2>4, <2>5
       DEF SectionInv, DiagnosisInv, AfterUnlink, BeforeUnlink, Locking, Writing, Publishing, Diagnosing,
           RecoverReturns, Reading, Listing
  <2>8. ReportInv(p)'
    BY <2>2, <2>4 DEF ReportInv
  <2>9. "idle" \in PlainPoints /\ "idle" \notin Locking
    BY DEF PlainPoints, Locking, Writing, Publishing
  <2>10. ProcessInv(p)'
    BY <1>1, <2>2, <2>4, <2>5, <2>7, <2>8, <2>9, PlainInv
  <2>11. mishaps' \in 0..MaxMishaps
    BY <1>2, <1>4 DEF TypeInv
  <2> QED
    BY <1>2, <2>2, <2>3, <2>5, <2>6, <2>10, <2>11, ChangeStep
<1> QED
  BY <1>3, <1>4 DEF DiscardStaging

LEMMA RecoverUnlinkSettles ==
    ASSUME LInv, NEW p \in Procs, RecoverUnlink(p)
    PROVE  Settles(p)
<1> DEFINE l == local[p]
           m == [l EXCEPT !.pc = "recsync"]
<1>1. /\ TypeInv /\ DiskInv /\ ProcessInv(p) /\ l \in LocalType /\ l.pc = "explained" /\ l.pc \in Recovering
      /\ UNCHANGED <<entries, marker, content, outside, holder>>
  BY DEF LInv, TypeInv, RecoverUnlink, At, Recovering
<1>2. /\ l.stack \in RecoverFrames /\ l.stack # <<>> /\ Head(l.stack) \in RecoverReturns
      /\ Base(p) = Head(l.stack) /\ Base(p) = Bottom(l.stack) /\ Base(p) \in Locking /\ holder = p
      /\ Undisturbed(p) /\ ".spaces" \notin entries /\ "root" \in entries
  BY <1>1, InRecovery
<1>3. /\ l.ino = marker /\ marker # NoIno /\ l.reads = 0 /\ Links(marker) = 2 /\ l.out = "ok"
      /\ l.matching <=> marker \in staging
  BY <1>1, <1>2 DEF ProcessInv, AloneInv, Listing
<1>4. content[marker] = "visible"
  BY <1>1 DEF ProcessInv, SectionInv, BeforeUnlink
<1>5. marker \in staging <=> outside = {}
  BY <1>1, <1>3, MarkerLinks
<1>6. CASE ~l.matching
  <2>1. Go(p, Return(l, "corrupt")) /\ UNCHANGED <<disk, holder>> /\ mishaps' = mishaps
    BY <1>1, <1>3, <1>6 DEF RecoverUnlink
  <2>2. ~Healthy /\ "corrupt" \in {"ok"} \cup Errors /\ mishaps' \in 0..MaxMishaps
    BY <1>1, <1>3, <1>5, <1>6, <2>1 DEF Healthy, Errors, TypeInv
  <2> QED
    BY <1>1, <2>1, <2>2, RecoverReturned
<1>7. CASE l.matching /\ Mishap /\ Go(p, Return(l, "io")) /\ UNCHANGED staging
  <2>1. UNCHANGED <<disk, holder>> /\ mishaps' \in 0..MaxMishaps /\ "io" \in {"ok"} \cup Errors
    BY <1>1, <1>7 DEF TypeInv, Mishap, Errors
  <2> QED
    BY <1>1, <1>7, <2>1, RecoverReturned
<1>8. CASE l.matching /\ staging' = staging \ {l.ino} /\ Change(p, m) /\ UNCHANGED mishaps
  <2>1. "recsync" \in Points /\ "recsync" \notin Reading \cup Listing \cup {"explained"}
    BY DEF Points, Recovering, Reading, Listing
  <2>2. m \in LocalType /\ m.pc = "recsync" /\ m.stack = l.stack /\ SameData(m, l) /\ Change(p, m)
    BY <1>1, <1>8, <2>1, Jumped
  <2> HIDE DEF m
  <2>3. local'[p] = m
    BY <1>1, <2>2, ChangeTo
  <2>4. Base(p)' = Base(p) /\ FramesInv(p)'
    BY <1>2, <2>2, <2>3 DEF Base, FramesInv, Resolving, Recovering, Reading, Listing
  <2>5. Healthy /\ marker' \notin staging' /\ marker' # NoIno
    BY <1>1, <1>2, <1>3, <1>4, <1>5, <1>8 DEF Healthy
  <2>6. Progress /\ DiskTyped' /\ DiskInv'
    BY <1>1, <1>2, <1>8, <2>5 DEF Progress, Healthy, DiskTyped, TypeInv, DiskInv, MarkerComplete
  <2>7. HolderInv(p)'
    BY <1>1, <1>2, <2>4 DEF HolderInv
  <2>8. OutInv(p)'
    BY <1>3, <2>2, <2>3, <2>1
       DEF OutInv, InResolve, SameData, ReadReturns, PlainReturns, ResolveReturns, Reading, Listing
  <2>9. ReaderInv(p)'
    BY <1>3, <2>2, <2>3 DEF ReaderInv, SameData, Listing
  <2>10. AloneInv(p)'
    BY <2>2, <2>3 DEF AloneInv, InResolve, ReadReturns, PlainReturns, Reading, Listing
  <2>11. SectionInv(p)'
    <3>1. Base(p) \in {"locked", "reclaim"}
      BY <1>2 DEF RecoverReturns
    <3>2. Base(p) = "reclaim" => "spaces" \in entries /\ "trash" \in entries
      BY <1>1 DEF ProcessInv, SectionInv, Publishing
    <3> QED
      BY <1>1, <1>2, <2>2, <2>3, <2>4, <2>5, <2>6, <3>1, <3>2
         DEF SectionInv, Progress, BeforeUnlink, Locking, Writing, Publishing, RecoverReturns, Listing
  <2>12. DiagnosisInv(p)' /\ ReportInv(p)'
    <3>1. Base(p) \notin Diagnosing
      BY <1>2 DEF RecoverReturns, Diagnosing
    <3>2. m.report = "none"
      BY <1>1, <2>2 DEF ProcessInv, ReportInv, SameData
    <3> QED
      BY <2>3, <2>4, <3>1, <3>2 DEF DiagnosisInv, ReportInv, Diagnosing
  <2>13. ProcessInv(p)'
    BY <2>4, <2>7, <2>8, <2>9, <2>10, <2>11, <2>12 DEF ProcessInv
  <2>14. mishaps' \in 0..MaxMishaps
    BY <1>1, <1>8 DEF TypeInv
  <2> QED
    BY <1>1, <1>2, <2>2, <2>6, <2>13, <2>14, ChangeStep
<1> QED
  BY <1>3, <1>6, <1>7, <1>8 DEF RecoverUnlink

-----------------------------------------------------------------------------
(* Operations begin                                                        *)
LEMMA StartedTyped ==
    ASSUME NEW op \in Operations
    PROVE  LET m == [Idle EXCEPT !.op = op]
           IN  /\ m \in LocalType /\ m.pc = "idle" /\ m.stack = <<>> /\ m.reads = 0 /\ ~m.matching
               /\ m.out = "none" /\ m.report = "none" /\ ~m.interrupted
<1> DEFINE m == [Idle EXCEPT !.op = op]
<1>1. m \in LocalType
  BY IdleTyped DEF LocalType
<1>2. /\ m.pc = Idle.pc /\ m.stack = Idle.stack /\ m.reads = Idle.reads /\ m.matching = Idle.matching
      /\ m.out = Idle.out /\ m.report = Idle.report /\ m.interrupted = Idle.interrupted
  BY IdleTyped DEF LocalType
<1>3. /\ Idle.pc = "idle" /\ Idle.stack = <<>> /\ Idle.reads = 0 /\ Idle.matching = FALSE /\ Idle.report = "none"
      /\ Idle.interrupted = FALSE /\ Idle.out = "none"
  BY DEF Idle
<1> QED
  BY <1>1, <1>2, <1>3

LEMMA BeginSettles ==
    ASSUME LInv, NEW p \in Procs, NEW op \in Operations, Begin(p, op)
    PROVE  Settles(p)
<1> DEFINE l == local[p]
           started == [Idle EXCEPT !.op = op]
           k == Call(started, "resolve", "preliminary")
           d == [started EXCEPT !.pc = "diagnose"]
<1>1. /\ TypeInv /\ DiskInv /\ ProcessInv(p) /\ l.pc = "idle" /\ mishaps' \in 0..MaxMishaps
      /\ UNCHANGED <<marker, staging, content, outside, holder>>
  BY DEF LInv, TypeInv, Begin, At
<1>2. holder # p
  BY <1>1, AtBase DEF BasePoints, PlainPoints, Locking, Writing, Publishing
<1>3. /\ started \in LocalType /\ started.pc = "idle" /\ started.stack = <<>> /\ started.reads = 0
      /\ ~started.matching /\ started.out = "none" /\ started.report = "none" /\ ~started.interrupted
  BY StartedTyped
<1>4. /\ \/ /\ "root" \notin entries /\ entries' = {"root"} /\ Change(p, k)
         \/ Go(p, k) /\ UNCHANGED entries
         \/ Go(p, d) /\ UNCHANGED entries
  BY DEF Begin
<1> HIDE DEF started
<1>5. /\ "resolve" \in Points /\ "preliminary" \in Labels /\ "preliminary" \in ResolveReturns
      /\ "preliminary" \notin Locking /\ "diagnose" \in Points /\ "diagnose" \in PlainPoints
      /\ "diagnose" \notin Locking /\ "none" \notin Bad
  BY DEF Points, Resolving, Labels, ResolveReturns, Locking, Writing, Publishing, Diagnosing, PlainPoints, Bad
<1>6. k \in LocalType /\ k.pc = "resolve" /\ k.stack = Push("preliminary", <<>>) /\ SameData(k, started)
  BY <1>3, <1>5, Called
<1>7. d \in LocalType /\ d.pc = "diagnose" /\ d.stack = <<>> /\ SameData(d, started)
  BY <1>3, <1>5, Jumped
<1> HIDE DEF k, d
<1>8. ASSUME local'[p] = k PROVE ProcessInv(p)'
  <2>1. Base(p)' = "preliminary"
    BY <1>5, <1>6, <1>8, BaseCalled
  <2>2. SectionInv(p)' /\ DiagnosisInv(p)'
    BY <1>6, <1>8, <2>1
       DEF SectionInv, DiagnosisInv, AfterUnlink, BeforeUnlink, Locking, Writing, Publishing, Diagnosing,
           RecoverReturns, Reading, Listing
  <2>3. ReportInv(p)'
    BY <1>3, <1>6, <1>8 DEF ReportInv, SameData
  <2>4. /\ local'[p].pc = "resolve" /\ local'[p].stack = Push("preliminary", <<>>) /\ local'[p].reads = 0
        /\ ~local'[p].matching /\ local'[p].out = "none"
    BY <1>3, <1>6, <1>8 DEF SameData
  <2> QED
    BY <1>1, <1>2, <1>5, <2>2, <2>3, <2>4, CalledInv
<1>9. CASE "root" \notin entries /\ entries' = {"root"} /\ Change(p, k)
  <2>1. entries = {} /\ marker = NoIno /\ staging = {} /\ outside = {}
    BY <1>1, <1>9 DEF DiskInv
  <2>2. \A q \in Procs : holder # q
    BY <1>9 DEF LInv, ProcessInv, HolderInv, SectionInv
  <2>3. Progress /\ DiskTyped' /\ DiskInv'
    BY <1>1, <1>9, <2>1 DEF Progress, Healthy, DiskTyped, TypeInv, DiskInv, MarkerComplete, Entries
  <2>4. ProcessInv(p)'
    BY <1>1, <1>6, <1>8, <1>9, ChangeTo
  <2>5. holder' \in Procs \cup {NoProc}
    BY <1>1 DEF TypeInv
  <2> QED
    BY <1>1, <1>6, <1>9, <2>2, <2>3, <2>4, <2>5, ChangeStep
<1>10. CASE Go(p, k) /\ UNCHANGED entries
  <2>1. ProcessInv(p)'
    BY <1>1, <1>6, <1>8, <1>10, GoTo
  <2> QED
    BY <1>1, <1>6, <1>10, <2>1, OuterStep
<1>11. CASE Go(p, d) /\ UNCHANGED entries
  <2>1. local'[p] = d
    BY <1>1, <1>7, <1>11, GoTo
  <2>2. Base(p)' = "diagnose"
    BY <1>7, <2>1 DEF Base
  <2>3. SectionInv(p)' /\ DiagnosisInv(p)'
    BY <1>3, <1>7, <2>1, <2>2
       DEF SectionInv, DiagnosisInv, AfterUnlink, BeforeUnlink, Locking, Writing, Publishing, Diagnosing,
           RecoverReturns, Reading, Listing, SameData
  <2>4. ReportInv(p)'
    BY <1>3, <1>7, <2>1 DEF ReportInv, SameData
  <2>5. /\ local'[p].pc = "diagnose" /\ local'[p].stack = <<>> /\ local'[p].reads = 0
        /\ ~local'[p].matching /\ local'[p].out = "none"
    BY <1>3, <1>7, <2>1 DEF SameData
  <2>6. ProcessInv(p)'
    BY <1>1, <1>2, <1>5, <2>3, <2>4, <2>5, PlainInv
  <2> QED
    BY <1>1, <1>7, <1>11, <2>6, OuterStep
<1> QED
  BY <1>4, <1>9, <1>10, <1>11

-----------------------------------------------------------------------------
(* diagnose                                                                *)
Diagnosed(m, base) ==
    /\ m.quiet /\ base # "diagnose" => m.raw = entries /\ "root" \in entries
    /\ m.quiet /\ base \in {"staging", "paired", "interrupted", "reread", "report"} => m.found = ReadValue
    /\ m.quiet /\ base # "report" => ~m.interrupted
    /\ m.quiet /\ base = "reread" => marker # NoIno /\ Links(marker) = 2
    /\ m.quiet /\ base = "report" => (m.interrupted <=> Interrupted)

LEMMA InDiagnosis ==
    ASSUME LInv, NEW p \in Procs, local[p].pc \in Diagnosing
    PROVE  /\ TypeInv /\ DiskInv /\ ProcessInv(p) /\ local[p] \in LocalType /\ local[p].pc \in BasePoints \ {"idle"}
           /\ local[p].stack = <<>> /\ Base(p) = local[p].pc /\ local[p].reads = 0 /\ ~local[p].matching
           /\ holder # p /\ local[p].report = "none" /\ (Healthy => local[p].out \notin Bad)
           /\ Diagnosed(local[p], local[p].pc)
           /\ local[p].quiet /\ local[p].pc \in {"diagnosed", "paired", "reread"} => local[p].out = ReadValue
           /\ local[p].quiet /\ local[p].pc = "report" => local[p].out = Layout(ReadValue, entries)
<1>1. /\ TypeInv /\ DiskInv /\ ProcessInv(p) /\ local[p] \in LocalType /\ local[p].pc \in BasePoints \ {"idle"}
      /\ local[p].pc \notin Locking /\ local[p].pc # "idle"
  BY DEF LInv, TypeInv, Diagnosing, BasePoints, PlainPoints, ResolveReturns, PlainReturns, Locking, Writing, Publishing
<1>2. /\ local[p].stack = <<>> /\ Base(p) = local[p].pc /\ local[p].reads = 0 /\ ~local[p].matching
      /\ holder # p
  BY <1>1, AtBase
<1>3. Diagnosed(local[p], local[p].pc)
  BY <1>1, <1>2 DEF ProcessInv, DiagnosisInv, Diagnosed, Diagnosing
<1>4. /\ local[p].quiet /\ local[p].pc \in {"diagnosed", "paired", "reread"} => local[p].out = ReadValue
      /\ local[p].quiet /\ local[p].pc = "report" => local[p].out = Layout(ReadValue, entries)
  BY <1>1, <1>2 DEF ProcessInv, AloneInv, Undisturbed, ReadReturns, PlainReturns
<1> QED
  BY <1>1, <1>2, <1>3, <1>4 DEF ProcessInv, ReportInv, ReaderInv, Bad

LEMMA DiagnosisSettles ==
    ASSUME LInv, NEW p \in Procs, local[p].pc \in Diagnosing, NEW base \in Diagnosing,
           NEW m \in LocalType, Go(p, m), Unread,
           \/ m.pc \in PlainPoints /\ m.pc = base /\ m.stack = <<>>
           \/ m.pc = "stat" /\ base \in PlainReturns /\ m.stack = Push(base, <<>>)
           \/ m.pc = "resolve" /\ base \in ResolveReturns /\ m.stack = Push(base, <<>>),
           m.reads = 0, ~m.matching, m.out = local[p].out, m.report = "none", Diagnosed(m, base)
    PROVE  Settles(p)
<1>1. /\ TypeInv /\ local[p].pc \in BasePoints \ {"idle"} /\ holder # p /\ (Healthy => local[p].out \notin Bad)
  BY InDiagnosis
<1>2. UNCHANGED <<disk, holder>> /\ mishaps' \in 0..MaxMishaps
  BY <1>1 DEF Unread, TypeInv
<1>3. local'[p] = m
  BY <1>1, GoTo
<1>4. Base(p)' = base
  <2>1. CASE m.stack = <<>> /\ m.pc = base
    BY <1>3, <2>1 DEF Base
  <2>2. CASE base \in PlainReturns \cup ResolveReturns /\ m.stack = Push(base, <<>>)
    <3>1. base \in Labels
      BY <2>2 DEF Labels, ReadReturns
    <3> QED
      BY <1>3, <2>2, <3>1, BaseCalled
  <2> QED
    BY <2>1, <2>2
<1>5. /\ entries' = entries /\ marker' = marker /\ Healthy' = Healthy /\ ReadValue' = ReadValue
      /\ Links(marker)' = Links(marker) /\ Interrupted' = Interrupted
  BY <1>2, Unmoved
<1>6. DiagnosisInv(p)'
  BY <1>3, <1>4, <1>5 DEF Diagnosed, DiagnosisInv, Diagnosing
<1>7. SectionInv(p)'
  BY <1>3, <1>4
     DEF SectionInv, AfterUnlink, BeforeUnlink, Locking, Writing, Publishing, Diagnosing, PlainPoints, RecoverReturns,
         Reading, Listing
<1>8. ReportInv(p)'
  BY <1>3 DEF ReportInv
<1>9. base \notin Locking
  BY DEF Diagnosing, Locking, Writing, Publishing
<1>10. CASE m.pc \in PlainPoints /\ m.pc = base /\ m.stack = <<>>
  <2>1. ProcessInv(p)'
    BY <1>1, <1>2, <1>3, <1>5, <1>6, <1>7, <1>8, <1>9, <1>10, PlainInv
  <2> QED
    BY <1>2, <2>1, OuterStep
<1>11. CASE \/ m.pc = "stat" /\ base \in PlainReturns /\ m.stack = Push(base, <<>>)
            \/ m.pc = "resolve" /\ base \in ResolveReturns /\ m.stack = Push(base, <<>>)
  BY <1>1, <1>2, <1>6, <1>7, <1>9, <1>11, CallSettles
<1> QED
  BY <1>10, <1>11

LEMMA ReportTyped ==
    ASSUME TypeInv, NEW p \in Procs, NEW text \in Reports
    PROVE  LET m == Report(p, text)
           IN  /\ m \in LocalType /\ m.pc = "idle" /\ m.stack = <<>> /\ m.reads = 0 /\ ~m.matching
               /\ m.out = "ok" /\ m.quiet = local[p].quiet /\ m.report = text
<1> DEFINE k == Ended(p, "ok")
           m == [k EXCEPT !.report = text]
<1>1. "ok" \in Results
  BY DEF Results
<1>2. /\ k \in LocalType /\ k.pc = "idle" /\ k.stack = <<>> /\ k.reads = 0 /\ ~k.matching
      /\ k.out = "ok" /\ k.quiet = local[p].quiet
  BY <1>1, EndedTyped
<1> HIDE DEF k
<1>3. m \in LocalType
  BY <1>2 DEF LocalType
<1>4. /\ m.pc = k.pc /\ m.stack = k.stack /\ m.reads = k.reads /\ m.matching = k.matching /\ m.out = k.out
      /\ m.quiet = k.quiet /\ m.report = text
  BY <1>2 DEF LocalType
<1>5. Report(p, text) = m
  BY DEF Report, k
<1> HIDE DEF m
<1> QED
  BY <1>2, <1>3, <1>4, <1>5

LEMMA ReportSettles ==
    ASSUME LInv, NEW p \in Procs, local[p].pc \in Diagnosing, NEW text \in Reports,
           Go(p, Report(p, text)), Unread,
           local[p].quiet =>
               /\ text = "interrupted-publication" <=> Healthy /\ marker \in staging
               /\ text \in {"absent", "interrupted-publication", "unmarked-visible", "marked-visible"} <=> Healthy
    PROVE  Settles(p)
<1> DEFINE m == Report(p, text)
<1>1. TypeInv /\ holder # p
  BY InDiagnosis
<1>2. Release(p) /\ UNCHANGED disk /\ mishaps' \in 0..MaxMishaps
  BY <1>1 DEF Release, Unread, TypeInv
<1>3. /\ m \in LocalType /\ m.pc = "idle" /\ m.stack = <<>> /\ m.reads = 0 /\ ~m.matching
      /\ m.out = "ok" /\ m.quiet = local[p].quiet /\ m.report = text
  BY <1>1, ReportTyped
<1>4. "ok" \notin Bad
  BY DEF Bad
<1>5. Go(p, m)
  OBVIOUS
<1> HIDE DEF m
<1> QED
  BY <1>2, <1>3, <1>4, <1>5, IdleSettles

LEMMA DiagnoseSettles ==
    ASSUME LInv, NEW p \in Procs, Diagnose(p)
    PROVE  Settles(p)
<1> DEFINE l == local[p]
<1>1. l.pc = "diagnose" /\ l.pc \in Diagnosing /\ Unread
  BY DEF Diagnose, At, Diagnosing
<1>2. /\ TypeInv /\ DiskInv /\ l \in LocalType /\ l.stack = <<>> /\ l.reads = 0 /\ ~l.matching
      /\ l.report = "none" /\ Diagnosed(l, "diagnose")
  BY <1>1, InDiagnosis
<1>3. CASE "root" \notin entries
  <2>1. Go(p, Report(p, "absent")) /\ "absent" \in Reports
    BY <1>3 DEF Diagnose, Reports
  <2>2. entries = {} /\ marker = NoIno /\ staging = {} /\ outside = {}
    BY <1>2, <1>3 DEF DiskInv
  <2>3. Healthy /\ marker \notin staging
    BY <2>2 DEF Healthy
  <2> QED
    BY <1>1, <2>1, <2>3, ReportSettles
<1>4. CASE "root" \in entries
  <2> DEFINE k == Call(l, "stat", "diagnosed")
             m == [k EXCEPT !.raw = entries]
  <2>1. Go(p, m)
    BY <1>4 DEF Diagnose
  <2>2. /\ "stat" \in Points /\ "diagnosed" \in Labels /\ "diagnosed" \in PlainReturns /\ "diagnosed" \in Diagnosing
        /\ entries \in SUBSET Entries
    BY <1>2 DEF Points, Reading, Labels, ReadReturns, PlainReturns, Diagnosing, TypeInv
  <2>3. k \in LocalType /\ k.pc = "stat" /\ k.stack = Push("diagnosed", <<>>) /\ SameData(k, l)
    BY <1>2, <2>2, Called
  <2> HIDE DEF k
  <2>4. m \in LocalType
    BY <2>2, <2>3 DEF LocalType
  <2>5. /\ m.pc = k.pc /\ m.stack = k.stack /\ m.reads = k.reads /\ m.matching = k.matching /\ m.out = k.out
        /\ m.quiet = k.quiet /\ m.report = k.report /\ m.raw = entries /\ m.interrupted = k.interrupted
    BY <2>3 DEF LocalType
  <2> HIDE DEF m
  <2>6. Diagnosed(m, "diagnosed")
    BY <1>2, <1>4, <2>3, <2>5 DEF Diagnosed, SameData
  <2> QED
    BY <1>1, <1>2, <2>1, <2>2, <2>3, <2>4, <2>5, <2>6, DiagnosisSettles DEF SameData
<1> QED
  BY <1>3, <1>4

LEMMA DiagnoseMarkerSettles ==
    ASSUME LInv, NEW p \in Procs, DiagnoseMarker(p)
    PROVE  Settles(p)
<1> DEFINE l == local[p]
           m == [l EXCEPT !.pc = "staging", !.found = l.out, !.todo = staging]
<1>1. l.pc = "diagnosed" /\ l.pc \in Diagnosing /\ Unread /\ Go(p, m)
  BY DEF DiagnoseMarker, At, Diagnosing
<1>2. /\ TypeInv /\ l \in LocalType /\ l.stack = <<>> /\ l.reads = 0 /\ ~l.matching
      /\ l.report = "none" /\ Diagnosed(l, "diagnosed") /\ (l.quiet => l.out = ReadValue)
  BY <1>1, InDiagnosis
<1>3. "staging" \in Points /\ "staging" \in PlainPoints /\ "staging" \in Diagnosing /\ staging \in SUBSET Inodes
  BY <1>2 DEF Points, PlainPoints, Diagnosing, TypeInv
<1>4. m \in LocalType
  BY <1>2, <1>3 DEF LocalType
<1>5. /\ m.pc = "staging" /\ m.stack = <<>> /\ m.reads = 0 /\ ~m.matching /\ m.out = l.out
      /\ m.quiet = l.quiet /\ m.report = "none" /\ m.raw = l.raw /\ m.interrupted = l.interrupted /\ m.found = l.out
  BY <1>2 DEF LocalType
<1> HIDE DEF m
<1>6. Diagnosed(m, "staging")
  BY <1>2, <1>5 DEF Diagnosed
<1> QED
  BY <1>1, <1>3, <1>4, <1>5, <1>6, DiagnosisSettles

(* What the looks at the staging names leave as it was.                    *)
SameFindings(m, l) ==
    /\ m.reads = l.reads /\ m.matching = l.matching /\ m.out = l.out /\ m.quiet = l.quiet /\ m.report = l.report
    /\ m.raw = l.raw /\ m.interrupted = l.interrupted /\ m.found = l.found

LEMMA FindingsSettle ==
    ASSUME LInv, NEW p \in Procs, local[p].pc \in {"staging", "paired"}, NEW base \in {"staging", "paired", "interrupted"},
           NEW m \in LocalType, Go(p, m), Unread, SameFindings(m, local[p]),
           \/ m.pc = base /\ base # "paired" /\ m.stack = <<>>
           \/ m.pc = "stat" /\ base = "paired" /\ m.stack = Push(base, <<>>)
    PROVE  Settles(p)
<1>1. local[p].pc \in Diagnosing /\ base \in Diagnosing
  BY DEF Diagnosing
<1>2. /\ local[p].reads = 0 /\ ~local[p].matching /\ local[p].report = "none" /\ Diagnosed(local[p], local[p].pc)
  BY <1>1, InDiagnosis
<1>3. Diagnosed(m, base)
  BY <1>2 DEF Diagnosed, SameFindings
<1>4. base # "paired" => base \in PlainPoints
  BY DEF PlainPoints
<1>5. base = "paired" => base \in PlainReturns
  BY DEF PlainReturns
<1> QED
  BY <1>1, <1>2, <1>3, <1>4, <1>5, DiagnosisSettles DEF SameFindings

LEMMA DiagnoseStagingSettles ==
    ASSUME LInv, NEW p \in Procs, DiagnoseStaging(p)
    PROVE  Settles(p)
<1> DEFINE l == local[p]
<1>1. l.pc = "staging" /\ l.pc \in Diagnosing /\ Unread
  BY DEF DiagnoseStaging, At, Diagnosing
<1>2. TypeInv /\ l \in LocalType /\ l.stack = <<>>
  BY <1>1, InDiagnosis
<1>3. "stat" \in Points /\ "paired" \in Labels /\ "interrupted" \in Points
  BY DEF Points, Reading, Labels, ReadReturns, PlainReturns, Diagnosing
<1>4. CASE Go(p, [l EXCEPT !.pc = "interrupted"])
  <2> DEFINE m == [l EXCEPT !.pc = "interrupted"]
  <2>1. m \in LocalType /\ m.pc = "interrupted" /\ m.stack = l.stack /\ SameData(m, l) /\ Go(p, m)
    BY <1>2, <1>3, <1>4, Jumped
  <2> HIDE DEF m
  <2> QED
    BY <1>1, <1>2, <2>1, FindingsSettle DEF SameFindings, SameData
<1>5. ASSUME NEW k \in LocalType, SameFindings(k, l), k.pc = "staging", k.stack = <<>>,
             Go(p, k) \/ Go(p, Call(k, "stat", "paired")) \/ Go(p, [k EXCEPT !.issue = TRUE])
      PROVE  Settles(p)
  <2>1. CASE Go(p, k)
    BY <1>1, <1>5, <2>1, FindingsSettle
  <2>2. CASE Go(p, Call(k, "stat", "paired"))
    <3> DEFINE m == Call(k, "stat", "paired")
    <3>1. m \in LocalType /\ m.pc = "stat" /\ m.stack = Push("paired", <<>>) /\ SameData(m, k) /\ Go(p, m)
      BY <1>3, <1>5, <2>2, Called
    <3> HIDE DEF m
    <3>2. SameFindings(m, l)
      BY <1>5, <3>1 DEF SameFindings, SameData
    <3> QED
      BY <1>1, <3>1, <3>2, FindingsSettle
  <2>3. CASE Go(p, [k EXCEPT !.issue = TRUE])
    <3> DEFINE m == [k EXCEPT !.issue = TRUE]
    <3>1. m \in LocalType
      <4>1. ASSUME NEW b \in BOOLEAN PROVE [k EXCEPT !.issue = b] \in LocalType
        BY <1>5, <4>1 DEF LocalType
      <4>2. TRUE \in BOOLEAN
        BY Zenon
      <4> QED
        BY <4>1, <4>2
    <3>2. m.pc = k.pc /\ m.stack = k.stack /\ SameFindings(m, k) /\ Go(p, m)
      BY <1>5, <2>3 DEF LocalType, SameFindings
    <3> HIDE DEF m
    <3>3. SameFindings(m, l)
      BY <1>5, <3>2 DEF SameFindings
    <3> QED
      BY <1>1, <1>5, <3>1, <3>2, <3>3, FindingsSettle
  <2> QED
    BY <1>5, <2>1, <2>2, <2>3
<1>6. ASSUME NEW i \in l.todo, NEW k,
             Go(p, CASE l.issue \/ (i \in staging /\ Links(i) = 1) -> k
                     [] ~l.issue /\ i \in staging /\ Links(i) = 2 /\ marker = i -> Call(k, "stat", "paired")
                     [] OTHER -> [k EXCEPT !.issue = TRUE])
      PROVE  Go(p, k) \/ Go(p, Call(k, "stat", "paired")) \/ Go(p, [k EXCEPT !.issue = TRUE])
  <2>1. CASE l.issue \/ (i \in staging /\ Links(i) = 1)
    BY <1>6, <2>1
  <2>2. CASE ~l.issue /\ i \in staging /\ Links(i) = 2 /\ marker = i
    BY <1>6, <2>2
  <2>3. CASE /\ ~(l.issue \/ (i \in staging /\ Links(i) = 1))
             /\ ~(~l.issue /\ i \in staging /\ Links(i) = 2 /\ marker = i)
    BY <1>6, <2>3
  <2> QED
    BY <2>1, <2>2, <2>3
<1>7. CASE ~Go(p, [l EXCEPT !.pc = "interrupted"])
  <2> DEFINE k(i) == [l EXCEPT !.todo = @ \ {i}]
             next(i) == CASE l.issue \/ (i \in staging /\ Links(i) = 1) -> k(i)
                          [] ~l.issue /\ i \in staging /\ Links(i) = 2 /\ marker = i -> Call(k(i), "stat", "paired")
                          [] OTHER -> [k(i) EXCEPT !.issue = TRUE]
  <2>1. \E i \in l.todo : Go(p, next(i))
    BY <1>7 DEF DiagnoseStaging
  <2>2. PICK i \in l.todo : Go(p, next(i))
    BY <2>1
  <2>3. PICK j : j = k(i)
    OBVIOUS
  <2>4. Go(p, CASE l.issue \/ (i \in staging /\ Links(i) = 1) -> j
                [] ~l.issue /\ i \in staging /\ Links(i) = 2 /\ marker = i -> Call(j, "stat", "paired")
                [] OTHER -> [j EXCEPT !.issue = TRUE])
    <3> HIDE DEF k
    <3> QED
      BY <2>2, <2>3
  <2>5. Go(p, j) \/ Go(p, Call(j, "stat", "paired")) \/ Go(p, [j EXCEPT !.issue = TRUE])
    BY <1>6, <2>4
  <2>6. j \in LocalType
    BY <1>2, <2>3 DEF LocalType
  <2>7. SameFindings(j, l) /\ j.pc = "staging" /\ j.stack = <<>>
    BY <1>1, <1>2, <2>3 DEF LocalType, SameFindings
  <2> QED
    BY <1>5, <2>5, <2>6, <2>7
<1> QED
  BY <1>4, <1>7

LEMMA DiagnosePairedSettles ==
    ASSUME LInv, NEW p \in Procs, DiagnosePaired(p)
    PROVE  Settles(p)
<1> DEFINE l == local[p]
           bad == l.out \in Errors \cup {"none"}
           m == [l EXCEPT !.pc = "staging", !.issue = bad]
<1>1. l.pc = "paired" /\ l.pc \in Diagnosing /\ Unread /\ Go(p, m)
  BY DEF DiagnosePaired, At, Diagnosing
<1>2. TypeInv /\ l \in LocalType /\ l.stack = <<>>
  BY <1>1, InDiagnosis
<1>3. m \in LocalType
  <2>1. ASSUME NEW a \in Points, NEW b \in BOOLEAN PROVE [l EXCEPT !.pc = a, !.issue = b] \in LocalType
    BY <1>2, <2>1 DEF LocalType
  <2>2. "staging" \in Points
    BY DEF Points, Diagnosing
  <2>3. bad \in BOOLEAN
    <3>1. bad = TRUE \/ bad = FALSE
      OBVIOUS
    <3>2. TRUE \in BOOLEAN /\ FALSE \in BOOLEAN
      BY Zenon
    <3> HIDE DEF bad
    <3> QED
      BY <3>1, <3>2
  <2> HIDE DEF bad
  <2> QED
    BY <2>1, <2>2, <2>3
<1>4. m.pc = "staging" /\ m.stack = <<>> /\ SameFindings(m, l)
  BY <1>2 DEF LocalType, SameFindings
<1> HIDE DEF m
<1> QED
  BY <1>1, <1>3, <1>4, FindingsSettle

LEMMA DiagnoseInterruptedSettles ==
    ASSUME LInv, NEW p \in Procs, DiagnoseInterrupted(p)
    PROVE  Settles(p)
<1> DEFINE l == local[p]
           k == Call(l, "resolve", "report")
<1>1. l.pc \in {"interrupted", "reread"} /\ l.pc \in Diagnosing /\ Unread
  BY DEF DiagnoseInterrupted, At, Diagnosing
<1>2. /\ TypeInv /\ l \in LocalType /\ l.stack = <<>> /\ l.reads = 0 /\ ~l.matching
      /\ l.report = "none" /\ Diagnosed(l, l.pc) /\ (l.quiet /\ l.pc = "reread" => l.out = ReadValue)
  BY <1>1, InDiagnosis
<1>3. /\ "stat" \in Points /\ "resolve" \in Points /\ {"reread", "report"} \subseteq Labels
      /\ "reread" \in PlainReturns /\ "report" \in ResolveReturns /\ {"reread", "report"} \subseteq Diagnosing
  BY DEF Points, Reading, Resolving, Labels, ReadReturns, PlainReturns, ResolveReturns, Diagnosing
<1>4. k \in LocalType /\ k.pc = "resolve" /\ k.stack = Push("report", <<>>) /\ SameData(k, l)
  BY <1>2, <1>3, Called
<1>5. CASE l.pc = "interrupted" /\ marker # NoIno /\ Links(marker) = 2
  <2> DEFINE m == Call(l, "stat", "reread")
  <2>1. Go(p, m)
    BY <1>5 DEF DiagnoseInterrupted, At
  <2>2. m \in LocalType /\ m.pc = "stat" /\ m.stack = Push("reread", <<>>) /\ SameData(m, l)
    BY <1>2, <1>3, Called
  <2> HIDE DEF m
  <2>3. Diagnosed(m, "reread")
    BY <1>2, <1>5, <2>2 DEF Diagnosed, SameData
  <2> QED
    BY <1>1, <1>2, <1>3, <2>1, <2>2, <2>3, DiagnosisSettles DEF SameData
<1>6. CASE l.pc = "interrupted" /\ ~(marker # NoIno /\ Links(marker) = 2)
  <2>1. Go(p, k)
    BY <1>6 DEF DiagnoseInterrupted, At
  <2> HIDE DEF k
  <2>2. Diagnosed(k, "report")
    BY <1>2, <1>4, <1>6 DEF Diagnosed, SameData, Interrupted
  <2> QED
    BY <1>1, <1>2, <1>3, <1>4, <2>1, <2>2, DiagnosisSettles DEF SameData
<1>7. CASE l.pc = "reread"
  <2> DEFINE found == l.out \notin Errors \cup {"none"}
             m == [k EXCEPT !.interrupted = found]
  <2>1. Go(p, m)
    BY <1>7 DEF DiagnoseInterrupted, At
  <2>2. found \in BOOLEAN
    <3>1. found = TRUE \/ found = FALSE
      OBVIOUS
    <3>2. TRUE \in BOOLEAN /\ FALSE \in BOOLEAN
      BY Zenon
    <3> HIDE DEF found
    <3> QED
      BY <3>1, <3>2
  <2>3. l.quiet => (found <=> Interrupted)
    BY <1>2, <1>7 DEF Diagnosed, Interrupted
  <2> HIDE DEF found, k
  <2>4. m \in LocalType
    BY <1>4, <2>2 DEF LocalType
  <2>5. /\ m.pc = k.pc /\ m.stack = k.stack /\ m.reads = k.reads /\ m.matching = k.matching /\ m.out = k.out
        /\ m.quiet = k.quiet /\ m.report = k.report /\ m.raw = k.raw /\ m.found = k.found /\ m.interrupted = found
    BY <1>4 DEF LocalType
  <2> HIDE DEF m
  <2>6. Diagnosed(m, "report")
    BY <1>2, <1>4, <1>7, <2>3, <2>5 DEF Diagnosed, SameData
  <2> QED
    BY <1>1, <1>2, <1>3, <1>4, <2>1, <2>4, <2>5, <2>6, DiagnosisSettles DEF SameData
<1> QED
  BY <1>1, <1>5, <1>6, <1>7

(* What the report of an undisturbed diagnosis says is so.                 *)
LEMMA HealthyRead ==
    ASSUME TypeInv, DiskInv, Healthy
    PROVE  /\ Layout(ReadValue, entries) = "visible"
           /\ ReadValue = IF marker = NoIno THEN "none" ELSE "visible"
           /\ Interrupted <=> marker \in staging
<1>1. ReadValue = IF marker = NoIno THEN "none" ELSE "visible"
  BY DEF Healthy, ReadValue
<1>2. Layout(ReadValue, entries) = "visible"
  BY <1>1 DEF Healthy, Layout, Errors
<1>3. CASE marker = NoIno
  BY <1>1, <1>2, <1>3 DEF Interrupted, TypeInv
<1>4. CASE marker # NoIno
  <2>1. Links(marker) = 2 <=> marker \in staging
    BY <1>4, MarkerLinks DEF Healthy
  <2> QED
    BY <1>1, <1>2, <1>4, <2>1 DEF Interrupted, Errors
<1> QED
  BY <1>3, <1>4

LEMMA ForeignRead ==
    ASSUME TypeInv, DiskInv, ~Healthy
    PROVE  /\ Layout(ReadValue, entries) # "visible"
           /\ Layout(ReadValue, entries) = "dotted" => ~Interrupted
<1>1. ReadValue \in {"none", "corrupt", "visible", "dotted", "newer", "empty"}
  BY DEF TypeInv, ReadValue, Formats
<1>2. ReadValue # "empty"
  BY DEF ReadValue, DiskInv, MarkerComplete
<1>3. Layout(ReadValue, entries) # "visible"
  <2>1. SUFFICES ASSUME Layout(ReadValue, entries) = "visible" PROVE FALSE
    OBVIOUS
  <2>2. ReadValue \in {"none", "visible"} /\ ".spaces" \notin entries
    BY <1>1, <1>2, <2>1 DEF Layout, Errors
  <2> QED
    BY <2>2, VisibleIsHealthy
<1>4. ASSUME Layout(ReadValue, entries) = "dotted" PROVE ~Interrupted
  <2>1. ReadValue = "dotted"
    BY <1>1, <1>2, <1>4 DEF Layout, Errors
  <2>2. marker # NoIno => outside = {} /\ marker \notin staging
    BY <2>1 DEF ReadValue
  <2> QED
    BY <2>2, MarkerLinks DEF Interrupted
<1> QED
  BY <1>3, <1>4

LEMMA DiagnoseReportSettles ==
    ASSUME LInv, NEW p \in Procs, DiagnoseReport(p)
    PROVE  Settles(p)
<1> DEFINE l == local[p]
           text == Diagnosis(l)
<1>1. l.pc = "report" /\ l.pc \in Diagnosing /\ Unread /\ Go(p, Report(p, text))
  BY DEF DiagnoseReport, At, Diagnosing
<1>2. /\ TypeInv /\ DiskInv /\ ProcessInv(p) /\ Diagnosed(l, "report")
      /\ l.quiet => l.out = Layout(ReadValue, entries)
  BY <1>1, InDiagnosis
<1>3. l.out \in {"visible", "dotted"} \cup Errors
  BY <1>1, <1>2 DEF ProcessInv, OutInv, ResolveReturns
<1>4. /\ l.out \in Errors => text \in {"newer-format", "ambiguous-dual-layout", "invalid"}
      /\ l.out \notin Errors /\ l.interrupted => text = "interrupted-publication"
      /\ l.out = "visible" /\ ~l.interrupted => text \in {"unmarked-visible", "marked-visible"}
      /\ l.out = "dotted" /\ ~l.interrupted => text = "marked-dotted-read-only"
  BY DEF Diagnosis, Errors
<1>5. text \in Reports
  BY <1>3, <1>4 DEF Reports
<1>6. "visible" \notin Errors /\ "dotted" \notin Errors
  BY DEF Errors
<1> HIDE DEF text
<1>7. ASSUME l.quiet
      PROVE  /\ text = "interrupted-publication" <=> Healthy /\ marker \in staging
             /\ text \in {"absent", "interrupted-publication", "unmarked-visible", "marked-visible"} <=> Healthy
  <2>1. l.out = Layout(ReadValue, entries) /\ (l.interrupted <=> Interrupted)
    BY <1>2, <1>7 DEF Diagnosed
  <2>2. CASE Healthy
    BY <1>2, <1>4, <1>6, <2>1, <2>2, HealthyRead
  <2>3. CASE ~Healthy
    BY <1>2, <1>3, <1>4, <1>6, <2>1, <2>3, ForeignRead
  <2> QED
    BY <2>2, <2>3
<1> QED
  BY <1>1, <1>5, <1>7, ReportSettles

-----------------------------------------------------------------------------
(* The store is sound from the beginning, and every step leaves it so.     *)
LEMMA NextSettles ==
    ASSUME LInv, NEW p \in Procs,
           Step(p) \/ Lock(p) \/ (\E op \in Programs[p] : Begin(p, op)) \/ Crash(p)
    PROVE  Settles(p)
<1>1. CASE ReadSteps(p)
  BY <1>1, StatMarkerSettles, ListStagingSettles, ProbeStagingSettles, MatchedSettles, ReadMarkerSettles,
     RetryReadSettles DEF ReadSteps
<1>2. CASE Resolve(p) \/ Resolved(p) \/ Preliminary(p) \/ LockFails(p) \/ Locked(p) \/ LayoutKnown(p)
  BY <1>2, ResolveSettles, ResolvedSettles, PreliminarySettles, LockFailsSettles, LockedSettles, LayoutKnownSettles
<1>3. CASE RecoverSteps(p)
  BY <1>3, RecoverSettles, RecoverUnlinkSettles, RecoverSyncSettles, RecoverVerifySettles DEF RecoverSteps
<1>4. CASE EndMutation(p) \/ CreateCategory(p)
  BY <1>4, EndSettles, CreateCategorySettles
<1>5. CASE AttemptSteps(p)
  BY <1>5, ReclaimSettles, ReclaimStagingSettles, CheckSettles, CreateStagingSettles, WriteStagingSettles,
     PublishSettles, PublishUnlinkSettles, PublishSyncSettles, PublishVerifySettles, PublicationFailedSettles,
     DiscardStagingSettles, EndSettles DEF AttemptSteps
<1>6. CASE DiagnoseSteps(p)
  BY <1>6, DiagnoseSettles, DiagnoseMarkerSettles, DiagnoseStagingSettles, DiagnosePairedSettles,
     DiagnoseInterruptedSettles, DiagnoseReportSettles DEF DiagnoseSteps
<1>7. CASE Lock(p) \/ Crash(p)
  BY <1>7, LockSettles, CrashSettles
<1>8. CASE \E op \in Programs[p] : Begin(p, op)
  <2>1. Programs[p] \subseteq Operations
    BY DEF Operations
  <2> QED
    BY <1>8, <2>1, BeginSettles
<1> QED
  BY <1>1, <1>2, <1>3, <1>4, <1>5, <1>6, <1>7, <1>8 DEF Step

LEMMA InitLInv == Init => LInv
<1> SUFFICES ASSUME Init PROVE LInv
  OBVIOUS
<1>1. PICK format \in Formats :
        LET first == CHOOSE i \in Inodes : TRUE
        IN  /\ marker \in IF "root" \in entries THEN {NoIno, first} ELSE {NoIno}
            /\ staging \in {{}, {marker} \cap Inodes}
            /\ outside \in {{}, {marker} \cap Inodes}
            /\ marker = NoIno => format = "visible"
            /\ content = [i \in Inodes |-> IF i = marker THEN format ELSE "empty"]
  BY DEF Init
<1>2. entries \in Roots /\ holder = NoProc /\ local = [p \in Procs |-> Idle] /\ mishaps = 0
  BY DEF Init
<1>3. (CHOOSE i \in Inodes : TRUE) \in Inodes
  OBVIOUS
<1>4. /\ marker \in Inodes \cup {NoIno} /\ ("root" \notin entries => marker = NoIno)
      /\ staging \subseteq Inodes /\ staging \subseteq {marker} /\ outside \subseteq {marker} \cap Inodes
  BY <1>1, <1>3
<1>5. entries \in SUBSET Entries /\ ("root" \notin entries => entries = {})
  BY <1>2 DEF Entries
<1>6. /\ content \in [Inodes -> Formats \cup {"empty"}]
      /\ marker # NoIno => content[marker] # "empty"
  BY <1>1, <1>4 DEF Formats
<1>7. TypeInv
  BY <1>2, <1>4, <1>5, <1>6, IdleTyped DEF TypeInv
<1>8. DiskInv
  BY <1>4, <1>5, <1>6 DEF DiskInv, MarkerComplete
<1>9. ASSUME NEW p \in Procs PROVE ProcessInv(p)
  <2>1. local[p] = Idle
    BY <1>2
  <2>2. /\ Idle.pc = "idle" /\ Idle.stack = <<>> /\ Idle.reads = 0 /\ ~Idle.matching /\ Idle.report = "none"
        /\ Idle.out = "none"
    BY DEF Idle
  <2>3. Base(p) = "idle"
    BY <2>1, <2>2 DEF Base
  <2>4. FramesInv(p)
    BY <2>1, <2>2 DEF FramesInv, Resolving, Recovering, Reading, Listing
  <2>5. HolderInv(p)
    BY <1>2, <2>3 DEF HolderInv, Locking, Writing, Publishing
  <2>6. OutInv(p)
    BY <2>1, <2>2 DEF OutInv, InResolve, ReadReturns, PlainReturns, ResolveReturns, Reading, Listing
  <2>7. ReaderInv(p)
    BY <2>1, <2>2 DEF ReaderInv, Listing
  <2>8. AloneInv(p)
    BY <2>3 DEF AloneInv, Undisturbed, Locking, Writing, Publishing, Diagnosing
  <2>9. SectionInv(p)
    BY <2>1, <2>2, <2>3
       DEF SectionInv, AfterUnlink, BeforeUnlink, Locking, Writing, Publishing, RecoverReturns, Reading, Listing
  <2>10. DiagnosisInv(p) /\ ReportInv(p)
    BY <2>1, <2>2, <2>3 DEF DiagnosisInv, ReportInv, Diagnosing
  <2> QED
    BY <2>4, <2>5, <2>6, <2>7, <2>8, <2>9, <2>10 DEF ProcessInv
<1> QED
  BY <1>7, <1>8, <1>9 DEF LInv

LEMMA NextKeeps ==
    ASSUME LInv, [Next]_vars
    PROVE  LInv' /\ (~Healthy => UNCHANGED disk)
<1>1. CASE Next
  <2>1. PICK p \in Procs : Step(p) \/ Lock(p) \/ (\E op \in Programs[p] : Begin(p, op)) \/ Crash(p)
    BY <1>1 DEF Next
  <2> QED
    BY <2>1, NextSettles, StepSettles
<1>2. CASE UNCHANGED vars
  <2>1. UNCHANGED disk /\ holder' = holder /\ local' = local /\ mishaps' = mishaps
    BY <1>2 DEF vars
  <2>2. TypeInv' /\ DiskInv'
    BY <2>1, Unmoved DEF LInv, TypeInv
  <2>3. ASSUME NEW p \in Procs PROVE ProcessInv(p)'
    <3>1. Base(p)' = Base(p) /\ local'[p] = local[p] /\ ProcessInv(p)
      BY <2>1 DEF Base, LInv
    <3>2. /\ entries' = entries /\ marker' = marker /\ staging' = staging /\ content' = content
          /\ Healthy' = Healthy /\ ReadValue' = ReadValue /\ Links(marker)' = Links(marker)
          /\ Interrupted' = Interrupted
      BY <2>1, Unmoved
    <3>3. FramesInv(p)' /\ HolderInv(p)' /\ OutInv(p)'
      BY <2>1, <3>1, <3>2 DEF ProcessInv, FramesInv, HolderInv, OutInv, InResolve
    <3>4. ReaderInv(p)' /\ ReportInv(p)'
      BY <3>1, <3>2 DEF ProcessInv, ReaderInv, ReportInv, Truthful
    <3>5. AloneInv(p)' /\ DiagnosisInv(p)'
      BY <3>1, <3>2 DEF ProcessInv, AloneInv, Undisturbed, InResolve, DiagnosisInv
    <3>6. SectionInv(p)'
      BY <3>1, <3>2 DEF ProcessInv, SectionInv, AfterUnlink, BeforeUnlink
    <3> QED
      BY <3>3, <3>4, <3>5, <3>6 DEF ProcessInv
  <2> QED
    BY <2>1, <2>2, <2>3 DEF LInv
<1> QED
  BY <1>1, <1>2

-----------------------------------------------------------------------------
(* The invariant holds in every state that is reached, of any number of    *)
(* processes, whoever dies at whatever step (store/layout/marker.rs).      *)
THEOREM LayoutSafety == Spec => []LInv
<1>1. LInv /\ [Next]_vars => LInv'
  BY NextKeeps
<1> QED
  BY InitLInv, <1>1, PTL DEF Spec

LEMMA SoundLayout == LInv => LayoutSound
<1> SUFFICES ASSUME LInv PROVE LayoutSound
  OBVIOUS
<1>1. TypeInv /\ DiskInv /\ \A p \in Procs : ProcessInv(p)
  BY DEF LInv
<1>2. TypeOK
  <2>1. ASSUME NEW p \in Procs
        PROVE  /\ DOMAIN local[p] = DOMAIN Idle
               /\ local[p].op \in Operations \cup {"none"}
               /\ local[p].reads \in 0..MaxReads - 1
               /\ local[p].pending \subseteq Inodes /\ local[p].todo \subseteq Inodes
    <3>1. local[p] \in LocalType
      BY <1>1 DEF TypeInv
    <3>2. DOMAIN local[p] = DOMAIN Idle
      BY <3>1 DEF LocalType, Idle
    <3> QED
      BY <3>1, <3>2 DEF LocalType
  <2>2. outside \subseteq Inodes
    BY <1>1 DEF DiskInv
  <2> QED
    BY <1>1, <2>1, <2>2 DEF TypeInv, TypeOK, Entries
<1>3. MarkerComplete
  BY <1>1 DEF DiskInv
<1>4. EnsuredComplete
  <2>1. ASSUME NEW p \in Procs, At(p, "ensured")
        PROVE  {"spaces", "trash"} \subseteq entries /\ marker # NoIno /\ content[marker] = "visible" /\ staging = {}
    <3>1. Base(p) = "ensured"
      BY <1>1, <2>1, AtBase DEF At, BasePoints, PlainPoints
    <3> QED
      BY <1>1, <3>1 DEF ProcessInv, SectionInv, Writing, Publishing, Healthy
  <2> QED
    BY <2>1 DEF EnsuredComplete
<1>5. GuardedLayout
  <2>1. ASSUME NEW p \in Procs, At(p, "mutating")
        PROVE  holder = p /\ Healthy /\ "spaces" \in entries /\ (marker # NoIno => Links(marker) = 1)
    <3>1. Base(p) = "mutating" /\ holder = p
      BY <1>1, <2>1, AtBase DEF At, BasePoints, PlainPoints, Locking, Writing
    <3>2. Healthy /\ "spaces" \in entries /\ marker \notin staging
      BY <1>1, <3>1 DEF ProcessInv, SectionInv, Writing
    <3> QED
      BY <1>1, <3>1, <3>2, MarkerLinks DEF Healthy
  <2> QED
    BY <2>1 DEF GuardedLayout
<1> QED
  BY <1>2, <1>3, <1>4, <1>5 DEF LayoutSound

(* Whoever meets the marker meets all of it, ensure_layout succeeds only   *)
(* with the whole layout in place, and a mutation guard is held by one     *)
(* process, for a visible layout with no half-made publication             *)
(* (create_visible_staging, attempt_visible_marker, begin_mutation).       *)
THEOREM LayoutIsSound == Spec => []LayoutSound
BY LayoutSafety, SoundLayout, PTL

LEMMA NotMisled == LInv => ReadersNotMisled
<1>1. ASSUME LInv, NEW p \in Procs
      PROVE  /\ Healthy => local[p].out \notin {"corrupt", "newer", "limit", "unsupported"}
             /\ local[p].report # "none" /\ local[p].quiet => Truthful(p)
  BY <1>1 DEF LInv, ProcessInv, ReaderInv, ReportInv
<1> QED
  BY <1>1 DEF ReadersNotMisled, NoFalseAlarm, DiagnosisTruthful, Truthful

(* A reader without the lock, at whatever moment of a publication or of a  *)
(* recovery it looks, never takes a sound store for a corrupt or newer one *)
(* or for one that keeps changing, and what doctor reports when nothing    *)
(* changed meanwhile is so (read_marker, publication_converged, diagnose). *)
THEOREM ReadersAreNotMisled == Spec => []ReadersNotMisled
BY LayoutSafety, NotMisled, PTL

(* No step of any process writes to a store of the dotted layout, of a     *)
(* newer release, or with a marker that cannot be explained                *)
(* (require_writable, resolve, recover_interrupted_publication).           *)
THEOREM ForeignIsUntouched == Spec => ForeignUntouched
<1>1. LInv /\ [Next]_vars => [~Healthy => UNCHANGED disk]_vars
  BY NextKeeps
<1> QED
  BY LayoutSafety, <1>1, PTL DEF Spec, ForeignUntouched
=============================================================================
