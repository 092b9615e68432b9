------------------------- MODULE SpaceIdentityProofs -------------------------
(***************************************************************************)
(* Renames, upgrades and their recovery keep every directory, manifest and *)
(* marker connected, for any number of names, spaces, renames and          *)
(* sessions.                                                               *)
(***************************************************************************)
EXTENDS SpaceIdentity, TLAPS

(* Whoever is between its first and its last step has the management lock. *)
ManagementInv ==
    /\ \A t \in Txs : management = t <=> pc[t] \notin {"idle", "done"}
    /\ management = Recoverer <=> rpc # "idle"
    /\ management = Upgrader <=> upc # "idle"

(* A space is at one path, and a directory generation is new when it is    *)
(* published.                                                              *)
PlaceInv ==
    /\ \A m, n \in Names : dir[m] = dir[n] /\ dir[m] # None => m = n
    /\ \A n \in Names : dir[n] # None => label[dir[n]] # None

(* Whose `.active` lock each process holds.                                *)
LeaseInv ==
    /\ \A t \in Txs :
          /\ pc[t] \in {"idle", "done"} => activity[t] = None
          /\ pc[t] \in {"mark", "write", "move"} => activity[t] = dir[From[t]]
          /\ pc[t] \in {"temp", "relabel", "unmark"} => activity[t] = dir[To[t]]
    /\ upc = "idle" => activity[Upgrader] = None
    /\ upc # "idle" => /\ uname \in Names
                       /\ dir[uname] # None
                       /\ activity[Upgrader] = dir[uname]
    /\ \A s \in Sessions :
          IF spc[s] = "running"
          THEN /\ activity[s] = dir[Entered[s]]
               /\ activity[s] # None
               /\ NotExclusive(activity[s])
          ELSE activity[s] = None

(* A transaction has one marker in its life, and no name has two.          *)
MarkerInv ==
    /\ \A t \in Txs : pc[t] = "idle" => marker[t] = "none"
    /\ \A t, u \in Txs : marker[t] = "valid" /\ marker[u] = "valid" /\ t # u =>
          {From[t], To[t]} \cap {From[u], To[u]} = {}

Unlabelled(t) == Moved(t) /\ label[dir[To[t]]] = From[t]

(* What a rename knows at each control point.                              *)
ControlInv ==
    \A t \in Txs :
        /\ pc[t] \in {"mark", "write"} =>
              /\ ~Reserved(From[t]) /\ ~Reserved(To[t])
              /\ dir[From[t]] # None /\ label[dir[From[t]]] = From[t]
              /\ dir[To[t]] = None
              /\ marker[t] # "valid"
        /\ pc[t] \in {"move", "temp", "relabel", "unmark"} => marker[t] = "valid"
        /\ pc[t] = "move" => NotMoved(t)
        /\ pc[t] \in {"temp", "relabel"} => Unlabelled(t)
        /\ pc[t] = "unmark" => Relabelled(t)

(* What a recovery knows of the marker it works on.                        *)
RecoverInv ==
    /\ rpc \in Applying => rtx \in Txs /\ marker[rtx] = "valid"
    /\ rpc \in {"cleanup", "temp", "relabel"} => Unlabelled(rtx)
    /\ rpc = "unmark" => NotMoved(rtx) \/ Relabelled(rtx)

DInv ==
    /\ TypeOK
    /\ ManagementInv
    /\ PlaceInv
    /\ LeaseInv
    /\ MarkerInv
    /\ ControlInv
    /\ RecoverInv
    /\ MarkersRecoverable
    /\ NamedOrMarked
    /\ TempsHaveMarkers

USE IdentityAssumption
    DEF Holders, Exclusives, Applying, diskVars, lockVars, upgradeVars, recVars

-----------------------------------------------------------------------------
LEMMA InitDInv == Init => DInv
<1> SUFFICES ASSUME Init PROVE DInv
  OBVIOUS
<1>1. \A n \in Names : dir[n] # None => label[dir[n]] = n
  <2> SUFFICES ASSUME NEW n \in Names, dir[n] # None PROVE label[dir[n]] = n
    OBVIOUS
  <2>1. Placed[n] \in Spaces /\ Placed[n] \in PlacedSpaces
    BY DEF Init, PlacedSpaces
  <2>2. label[Placed[n]] = CHOOSE m \in Names : Placed[m] = Placed[n]
    BY <2>1 DEF Init
  <2> QED
    BY <2>1, <2>2 DEF Init
<1>2. TypeOK
  <2>1. label \in [Spaces -> Names \cup {None}]
    <3>1. ASSUME NEW d \in PlacedSpaces PROVE (CHOOSE n \in Names : Placed[n] = d) \in Names
      BY <3>1 DEF PlacedSpaces
    <3>2. ASSUME NEW d \in Spaces
          PROVE  (IF d \in PlacedSpaces THEN CHOOSE n \in Names : Placed[n] = d
                  ELSE None) \in Names \cup {None}
      <4>1. CASE d \in PlacedSpaces
        BY <3>1, <4>1
      <4>2. CASE d \notin PlacedSpaces
        BY <4>2
      <4> QED
        BY <4>1, <4>2
    <3> QED
      BY <3>2 DEF Init
  <2>2. PlacedSpaces \in SUBSET Spaces
    BY DEF PlacedSpaces
  <2>3. stable \in SUBSET Spaces
    BY <2>2 DEF Init
  <2> QED
    BY <2>1, <2>3 DEF Init, TypeOK
<1>3. ManagementInv /\ LeaseInv
  BY DEF Init, ManagementInv, LeaseInv
<1>4. PlaceInv /\ NamedOrMarked
  BY <1>1 DEF Init, PlaceInv, NamedOrMarked
<1>5. MarkerInv /\ ControlInv /\ RecoverInv /\ MarkersRecoverable /\ TempsHaveMarkers
  BY DEF Init, MarkerInv, ControlInv, RecoverInv, MarkersRecoverable, TempsHaveMarkers
<1> QED
  BY <1>2, <1>3, <1>4, <1>5 DEF DInv

LEMMA BeginRenameDInv ==
    ASSUME DInv, NEW t \in Txs, BeginRename(t)
    PROVE  DInv'
<1>1. (PlaceInv /\ RecoverInv /\ MarkersRecoverable /\ NamedOrMarked /\
      TempsHaveMarkers)'
  BY DEF DInv, BeginRename, CanOpen, Renamable, Unlocked, PlaceInv, TypeOK,
          RecoverInv, Unlabelled, Relabelled, NotMoved, Moved,
          MarkersRecoverable, NamedOrMarked, TempsHaveMarkers
<1>2. TypeOK'
  BY DEF DInv, BeginRename, CanOpen, Renamable, Unlocked, TypeOK
<1>3. ManagementInv'
  BY DEF DInv, BeginRename, CanOpen, Renamable, Unlocked, ManagementInv, TypeOK
<1>4. LeaseInv'
  BY DEF DInv, BeginRename, CanOpen, Renamable, Unlocked, LeaseInv, TypeOK,
          NotExclusive, ManagementInv
<1>5. MarkerInv'
  BY DEF DInv, BeginRename, CanOpen, Renamable, Unlocked, MarkerInv, TypeOK
<1>6. ControlInv'
  BY DEF DInv, BeginRename, CanOpen, Renamable, Unlocked, ControlInv, TypeOK,
          Reserved, Unlabelled, Relabelled, NotMoved, Moved, ManagementInv,
          MarkerInv
<1> QED
  BY <1>1, <1>2, <1>3, <1>4, <1>5, <1>6 DEF DInv

LEMMA CreateMarkerDInv ==
    ASSUME DInv, NEW t \in Txs, CreateMarker(t)
    PROVE  DInv'
<1>1. PlaceInv'
  BY DEF DInv, CreateMarker, PlaceInv, TypeOK
<1>2. TypeOK'
  BY DEF DInv, CreateMarker, TypeOK, ManagementInv, MarkerInv, ControlInv
<1>3. ManagementInv'
  BY DEF DInv, CreateMarker, ManagementInv, TypeOK, MarkerInv, ControlInv
<1>4. LeaseInv'
  BY DEF DInv, CreateMarker, LeaseInv, TypeOK, NotExclusive, ManagementInv,
          MarkerInv, ControlInv
<1>5. MarkerInv'
  BY DEF DInv, CreateMarker, MarkerInv, TypeOK, ManagementInv, ControlInv
<1>6. ControlInv'
  BY DEF DInv, CreateMarker, ControlInv, TypeOK, Reserved, Unlabelled,
          Relabelled, NotMoved, Moved, ManagementInv, MarkerInv
<1>7. RecoverInv'
  BY DEF DInv, CreateMarker, RecoverInv, TypeOK, Unlabelled, Relabelled,
          NotMoved, Moved, ManagementInv, MarkerInv, ControlInv
<1>8. MarkersRecoverable'
  BY DEF DInv, CreateMarker, MarkersRecoverable, TypeOK, NotMoved, Moved,
          ManagementInv, MarkerInv, ControlInv
<1>9. NamedOrMarked'
  BY DEF DInv, CreateMarker, NamedOrMarked, TypeOK, NotMoved, Moved,
          Unlabelled, Relabelled, ManagementInv, MarkerInv, ControlInv
<1>10. TempsHaveMarkers'
  BY DEF DInv, CreateMarker, TempsHaveMarkers, TypeOK, NotMoved, Moved,
          Unlabelled, Relabelled, ManagementInv, MarkerInv, ControlInv
<1> QED
  BY <1>1, <1>2, <1>3, <1>4, <1>5, <1>6, <1>7, <1>8, <1>9, <1>10 DEF DInv

LEMMA WriteMarkerDInv ==
    ASSUME DInv, NEW t \in Txs, WriteMarker(t)
    PROVE  DInv'
<1>1. PlaceInv'
  BY DEF DInv, WriteMarker, PlaceInv, TypeOK
<1>2. TypeOK'
  BY DEF DInv, WriteMarker, TypeOK, ManagementInv, MarkerInv, ControlInv
<1>3. ManagementInv'
  BY DEF DInv, WriteMarker, ManagementInv, TypeOK, MarkerInv, ControlInv
<1>4. LeaseInv'
  BY DEF DInv, WriteMarker, LeaseInv, TypeOK, NotExclusive, ManagementInv,
          MarkerInv, ControlInv
<1>5. MarkerInv'
  BY DEF DInv, WriteMarker, MarkerInv, TypeOK, ManagementInv, ControlInv
<1>6. ControlInv'
  BY DEF DInv, WriteMarker, ControlInv, TypeOK, Reserved, Unlabelled,
          Relabelled, NotMoved, Moved, ManagementInv, MarkerInv
<1>7. RecoverInv'
  BY DEF DInv, WriteMarker, RecoverInv, TypeOK, Unlabelled, Relabelled,
          NotMoved, Moved, ManagementInv, MarkerInv, ControlInv
<1>8. MarkersRecoverable'
  BY DEF DInv, WriteMarker, MarkersRecoverable, TypeOK, NotMoved, Moved,
          ManagementInv, MarkerInv, ControlInv
<1>9. NamedOrMarked'
  BY DEF DInv, WriteMarker, NamedOrMarked, TypeOK, NotMoved, Moved, Unlabelled,
          Relabelled, ManagementInv, MarkerInv, ControlInv
<1>10. TempsHaveMarkers'
  BY DEF DInv, WriteMarker, TempsHaveMarkers, TypeOK, NotMoved, Moved,
          Unlabelled, Relabelled, ManagementInv, MarkerInv, ControlInv
<1> QED
  BY <1>1, <1>2, <1>3, <1>4, <1>5, <1>6, <1>7, <1>8, <1>9, <1>10 DEF DInv

LEMMA DirMoved ==
    ASSUME DInv, NEW t \in Txs, MoveDirectory(t)
    PROVE  /\ dir' \in [Names -> Spaces \cup {None}]
           /\ dir'[To[t]] = dir[From[t]] /\ dir'[From[t]] = None
           /\ \A n \in Names : n \notin {From[t], To[t]} => dir'[n] = dir[n]
           /\ UNCHANGED <<label, renameTemp, marker, bound>>
           /\ From[t] \in Names /\ To[t] \in Names /\ From[t] # To[t]
           /\ \A u \in Txs : From[u] \in Names /\ To[u] \in Names
           /\ marker[t] = "valid" /\ NotMoved(t)
<1>1. /\ From[t] \in Names /\ To[t] \in Names /\ From[t] # To[t]
      /\ dir \in [Names -> Spaces \cup {None}]
      /\ dir' = [dir EXCEPT ![To[t]] = dir[From[t]], ![From[t]] = None]
  BY DEF DInv, TypeOK, MoveDirectory
<1>2. marker[t] = "valid" /\ NotMoved(t) /\ UNCHANGED <<label, renameTemp, marker, bound>>
  BY DEF DInv, ControlInv, MoveDirectory
<1>3. dir' = [n \in Names |-> IF n = From[t] THEN None
                             ELSE IF n = To[t] THEN dir[From[t]] ELSE dir[n]]
  BY <1>1
<1> QED
  BY <1>1, <1>2, <1>3

LEMMA MoveDirectoryDInv ==
    ASSUME DInv, NEW t \in Txs, MoveDirectory(t)
    PROVE  DInv'
<1>1. TypeOK'
  BY DirMoved DEF DInv, MoveDirectory, TypeOK
<1>2. ManagementInv'
  BY DEF DInv, MoveDirectory, ManagementInv, TypeOK, MarkerInv, ControlInv,
          PlaceInv, LeaseInv, RecoverInv
<1>3. PlaceInv'
  <2> SUFFICES ASSUME NEW m \in Names, NEW n \in Names, dir'[m] # None
               PROVE  (dir'[m] = dir'[n] => m = n) /\ label'[dir'[m]] # None
    BY DEF PlaceInv
  <2> QED
    BY DirMoved DEF DInv, TypeOK, PlaceInv, NotMoved
<1>4. LeaseInv'
  BY DirMoved DEF DInv, MoveDirectory, LeaseInv, NotExclusive, TypeOK,
     ManagementInv, PlaceInv
<1>5. MarkerInv'
  BY DEF DInv, MoveDirectory, MarkerInv, TypeOK, ManagementInv, ControlInv,
          PlaceInv, LeaseInv, RecoverInv
<1>6. ControlInv'
  BY DirMoved DEF DInv, MoveDirectory, ControlInv, Reserved, Unlabelled, Relabelled,
     NotMoved, Moved, TypeOK, ManagementInv, MarkerInv
<1>7. RecoverInv'
  BY DEF DInv, MoveDirectory, RecoverInv, TypeOK, ManagementInv
<1>8. MarkersRecoverable'
  <2> SUFFICES ASSUME NEW u \in Txs, marker'[u] = "valid"
               PROVE  NotMoved(u)' \/ Moved(u)'
    BY DEF MarkersRecoverable
  <2>1. CASE u = t
    BY <2>1, DirMoved DEF NotMoved, Moved
  <2>2. CASE u # t
    <3>1. {From[t], To[t]} \cap {From[u], To[u]} = {}
      BY <2>2, DirMoved DEF DInv, MarkerInv
    <3>2. dir'[From[u]] = dir[From[u]] /\ dir'[To[u]] = dir[To[u]]
      BY <3>1, DirMoved
    <3> QED
      BY <3>2, DirMoved DEF DInv, MarkersRecoverable, NotMoved, Moved
  <2> QED
    BY <2>1, <2>2
<1>9. NamedOrMarked'
  <2> SUFFICES ASSUME NEW n \in Names, dir'[n] # None
               PROVE  \/ label'[dir'[n]] = n
                      \/ \E u \in Txs : /\ marker'[u] = "valid"
                                        /\ Moved(u)' /\ To[u] = n
    BY DEF NamedOrMarked
  <2>1. CASE n \in {From[t], To[t]}
    BY <2>1, DirMoved DEF NotMoved, Moved
  <2>2. CASE n \notin {From[t], To[t]} /\ label[dir[n]] = n
    BY <2>2, DirMoved
  <2>3. CASE n \notin {From[t], To[t]} /\ label[dir[n]] # n
    <3>1. PICK u \in Txs : marker[u] = "valid" /\ Moved(u) /\ To[u] = n
      BY <2>3, DirMoved DEF DInv, NamedOrMarked
    <3>2. {From[t], To[t]} \cap {From[u], To[u]} = {}
      BY <2>3, <3>1, DirMoved DEF DInv, MarkerInv
    <3>3. dir'[From[u]] = dir[From[u]] /\ dir'[To[u]] = dir[To[u]]
      BY <3>2, DirMoved
    <3> QED
      BY <3>1, <3>3, DirMoved DEF Moved
  <2> QED
    BY <2>1, <2>2, <2>3
<1>10. TempsHaveMarkers'
  <2> SUFFICES ASSUME NEW d \in renameTemp
               PROVE  \E u \in Txs : /\ marker'[u] = "valid" /\ Moved(u)'
                                     /\ ~Relabelled(u)' /\ bound'[u] = d
    BY DirMoved DEF TempsHaveMarkers
  <2>1. PICK u \in Txs : marker[u] = "valid" /\ Moved(u) /\ ~Relabelled(u) /\ bound[u] = d
    BY DEF DInv, TempsHaveMarkers
  <2>2. u # t
    BY <2>1, DirMoved DEF NotMoved, Moved
  <2>3. {From[t], To[t]} \cap {From[u], To[u]} = {}
    BY <2>1, <2>2, DirMoved DEF DInv, MarkerInv
  <2>4. dir'[From[u]] = dir[From[u]] /\ dir'[To[u]] = dir[To[u]]
    BY <2>3, DirMoved
  <2> QED
    BY <2>1, <2>4, DirMoved DEF Moved, Relabelled
<1> QED
  BY <1>1, <1>2, <1>3, <1>4, <1>5, <1>6, <1>7, <1>8, <1>9, <1>10 DEF DInv

LEMMA MoveFailsDInv ==
    ASSUME DInv, NEW t \in Txs, MoveFails(t)
    PROVE  DInv'
<1>1. PlaceInv'
  BY DEF DInv, MoveFails, Release, PlaceInv, TypeOK
<1>2. TypeOK'
  BY DEF DInv, MoveFails, Release, TypeOK, ManagementInv, MarkerInv, ControlInv
<1>3. ManagementInv'
  BY DEF DInv, MoveFails, Release, ManagementInv, TypeOK, MarkerInv, ControlInv
<1>4. LeaseInv'
  BY DEF DInv, MoveFails, Release, LeaseInv, TypeOK, NotExclusive,
          ManagementInv, MarkerInv, ControlInv
<1>5. MarkerInv'
  BY DEF DInv, MoveFails, Release, MarkerInv, TypeOK, ManagementInv, ControlInv
<1>6. ControlInv'
  BY DEF DInv, MoveFails, Release, ControlInv, TypeOK, Reserved, Unlabelled,
          Relabelled, NotMoved, Moved, ManagementInv, MarkerInv
<1>7. RecoverInv'
  BY DEF DInv, MoveFails, Release, RecoverInv, TypeOK, Unlabelled, Relabelled,
          NotMoved, Moved, ManagementInv, MarkerInv, ControlInv
<1>8. MarkersRecoverable'
  BY DEF DInv, MoveFails, Release, MarkersRecoverable, TypeOK, NotMoved, Moved,
          ManagementInv, MarkerInv, ControlInv
<1>9. NamedOrMarked'
  BY DEF DInv, MoveFails, Release, NamedOrMarked, TypeOK, NotMoved, Moved,
          Unlabelled, Relabelled, ManagementInv, MarkerInv, ControlInv
<1>10. TempsHaveMarkers'
  BY DEF DInv, MoveFails, Release, TempsHaveMarkers, TypeOK, NotMoved, Moved,
          Unlabelled, Relabelled, ManagementInv, MarkerInv, ControlInv
<1> QED
  BY <1>1, <1>2, <1>3, <1>4, <1>5, <1>6, <1>7, <1>8, <1>9, <1>10 DEF DInv

LEMMA WriteRenameTempDInv ==
    ASSUME DInv, NEW t \in Txs, WriteRenameTemp(t)
    PROVE  DInv'
<1>1. (PlaceInv /\ RecoverInv /\ MarkersRecoverable /\ NamedOrMarked)'
  BY DEF DInv, WriteRenameTemp, CanComplete, PlaceInv, TypeOK, RecoverInv,
          Unlabelled, Relabelled, NotMoved, Moved, MarkersRecoverable,
          NamedOrMarked
<1>2. TypeOK'
  BY DEF DInv, WriteRenameTemp, CanComplete, TypeOK, ManagementInv, MarkerInv,
          ControlInv
<1>3. ManagementInv'
  BY DEF DInv, WriteRenameTemp, CanComplete, ManagementInv, TypeOK, MarkerInv,
          ControlInv
<1>4. LeaseInv'
  BY DEF DInv, WriteRenameTemp, CanComplete, LeaseInv, TypeOK, NotExclusive,
          ManagementInv, MarkerInv, ControlInv
<1>5. MarkerInv'
  BY DEF DInv, WriteRenameTemp, CanComplete, MarkerInv, TypeOK, ManagementInv,
          ControlInv
<1>6. ControlInv'
  BY DEF DInv, WriteRenameTemp, CanComplete, ControlInv, TypeOK, Reserved,
          Unlabelled, Relabelled, NotMoved, Moved, ManagementInv, MarkerInv
<1>7. TempsHaveMarkers'
  BY DEF DInv, WriteRenameTemp, CanComplete, TempsHaveMarkers, TypeOK,
          NotMoved, Moved, Unlabelled, Relabelled, ManagementInv, MarkerInv,
          ControlInv
<1> QED
  BY <1>1, <1>2, <1>3, <1>4, <1>5, <1>6, <1>7 DEF DInv

LEMMA ReplaceLabelDInv ==
    ASSUME DInv, NEW t \in Txs, ReplaceLabel(t)
    PROVE  DInv'
<1>1. TypeOK'
  BY DEF DInv, ReplaceLabel, TypeOK, ManagementInv, MarkerInv, ControlInv,
          PlaceInv, LeaseInv, RecoverInv
<1>2. ManagementInv'
  BY DEF DInv, ReplaceLabel, ManagementInv, TypeOK, MarkerInv, ControlInv,
          PlaceInv, LeaseInv, RecoverInv
<1>3. PlaceInv'
  BY DEF DInv, ReplaceLabel, PlaceInv, TypeOK, ManagementInv, MarkerInv,
          ControlInv, LeaseInv, RecoverInv
<1>4. LeaseInv'
  BY DEF DInv, ReplaceLabel, LeaseInv, TypeOK, NotExclusive, ManagementInv,
          MarkerInv, ControlInv, PlaceInv, RecoverInv
<1>5. MarkerInv'
  BY DEF DInv, ReplaceLabel, MarkerInv, TypeOK, ManagementInv, ControlInv,
          PlaceInv, LeaseInv, RecoverInv
<1>6. ControlInv'
  BY DEF DInv, ReplaceLabel, ControlInv, TypeOK, Reserved, Unlabelled,
          Relabelled, NotMoved, Moved, ManagementInv, MarkerInv, PlaceInv,
          LeaseInv, RecoverInv
<1>7. RecoverInv'
  BY DEF DInv, ReplaceLabel, RecoverInv, TypeOK, Unlabelled, Relabelled,
          NotMoved, Moved, ManagementInv, MarkerInv, ControlInv, PlaceInv,
          LeaseInv
<1>8. MarkersRecoverable'
  BY DEF DInv, ReplaceLabel, MarkersRecoverable, TypeOK, NotMoved, Moved,
          ManagementInv, MarkerInv, ControlInv, PlaceInv, LeaseInv, RecoverInv
<1>9. NamedOrMarked'
  BY DEF DInv, ReplaceLabel, NamedOrMarked, TypeOK, NotMoved, Moved,
          Unlabelled, Relabelled, ManagementInv, MarkerInv, ControlInv,
          PlaceInv, LeaseInv, RecoverInv
<1>10. TempsHaveMarkers'
  BY DEF DInv, ReplaceLabel, TempsHaveMarkers, TypeOK, NotMoved, Moved,
          Unlabelled, Relabelled, ManagementInv, MarkerInv, ControlInv,
          PlaceInv, LeaseInv, RecoverInv
<1> QED
  BY <1>1, <1>2, <1>3, <1>4, <1>5, <1>6, <1>7, <1>8, <1>9, <1>10 DEF DInv

LEMMA RemoveMarkerDInv ==
    ASSUME DInv, NEW t \in Txs, RemoveMarker(t)
    PROVE  DInv'
<1>1. PlaceInv'
  BY DEF DInv, RemoveMarker, Release, PlaceInv, TypeOK
<1>2. TypeOK'
  BY DEF DInv, RemoveMarker, Release, TypeOK, ManagementInv, MarkerInv,
          ControlInv
<1>3. ManagementInv'
  BY DEF DInv, RemoveMarker, Release, ManagementInv, TypeOK, MarkerInv,
          ControlInv
<1>4. LeaseInv'
  BY DEF DInv, RemoveMarker, Release, LeaseInv, TypeOK, NotExclusive,
          ManagementInv, MarkerInv, ControlInv
<1>5. MarkerInv'
  BY DEF DInv, RemoveMarker, Release, MarkerInv, TypeOK, ManagementInv,
          ControlInv
<1>6. ControlInv'
  BY DEF DInv, RemoveMarker, Release, ControlInv, TypeOK, Reserved, Unlabelled,
          Relabelled, NotMoved, Moved, ManagementInv, MarkerInv
<1>7. RecoverInv'
  BY DEF DInv, RemoveMarker, Release, RecoverInv, TypeOK, Unlabelled,
          Relabelled, NotMoved, Moved, ManagementInv, MarkerInv, ControlInv
<1>8. MarkersRecoverable'
  BY DEF DInv, RemoveMarker, Release, MarkersRecoverable, TypeOK, NotMoved,
          Moved, ManagementInv, MarkerInv, ControlInv
<1>9. NamedOrMarked'
  BY DEF DInv, RemoveMarker, Release, NamedOrMarked, TypeOK, NotMoved, Moved,
          Unlabelled, Relabelled, ManagementInv, MarkerInv, ControlInv
<1>10. TempsHaveMarkers'
  BY DEF DInv, RemoveMarker, Release, TempsHaveMarkers, TypeOK, NotMoved,
          Moved, Unlabelled, Relabelled, ManagementInv, MarkerInv, ControlInv
<1> QED
  BY <1>1, <1>2, <1>3, <1>4, <1>5, <1>6, <1>7, <1>8, <1>9, <1>10 DEF DInv

LEMMA RenameInterruptedDInv ==
    ASSUME DInv, NEW t \in Txs, RenameInterrupted(t)
    PROVE  DInv'
<1>1. (PlaceInv /\ RecoverInv /\ MarkersRecoverable /\ NamedOrMarked /\
      TempsHaveMarkers)'
  BY DEF DInv, RenameInterrupted, Release, PlaceInv, TypeOK, RecoverInv,
          Unlabelled, Relabelled, NotMoved, Moved, MarkersRecoverable,
          NamedOrMarked, TempsHaveMarkers
<1>2. TypeOK'
  BY DEF DInv, RenameInterrupted, Release, TypeOK, ManagementInv, MarkerInv,
          ControlInv
<1>3. ManagementInv'
  BY DEF DInv, RenameInterrupted, Release, ManagementInv, TypeOK, MarkerInv,
          ControlInv
<1>4. LeaseInv'
  BY DEF DInv, RenameInterrupted, Release, LeaseInv, TypeOK, NotExclusive,
          ManagementInv, MarkerInv, ControlInv
<1>5. MarkerInv'
  BY DEF DInv, RenameInterrupted, Release, MarkerInv, TypeOK, ManagementInv,
          ControlInv
<1>6. ControlInv'
  BY DEF DInv, RenameInterrupted, Release, ControlInv, TypeOK, Reserved,
          Unlabelled, Relabelled, NotMoved, Moved, ManagementInv, MarkerInv
<1> QED
  BY <1>1, <1>2, <1>3, <1>4, <1>5, <1>6 DEF DInv

LEMMA RecoverBeginDInv ==
    ASSUME DInv, RecoverBegin
    PROVE  DInv'
<1>1. (PlaceInv /\ LeaseInv /\ MarkerInv /\ ControlInv /\ MarkersRecoverable /\
      NamedOrMarked /\ TempsHaveMarkers)'
  BY DEF DInv, RecoverBegin, PlaceInv, TypeOK, LeaseInv, NotExclusive,
          MarkerInv, ControlInv, Reserved, Unlabelled, Relabelled, NotMoved,
          Moved, MarkersRecoverable, NamedOrMarked, TempsHaveMarkers
<1>2. TypeOK'
  BY DEF DInv, RecoverBegin, TypeOK, ManagementInv, MarkerInv, ControlInv
<1>3. ManagementInv'
  BY DEF DInv, RecoverBegin, ManagementInv, TypeOK, MarkerInv, ControlInv
<1>4. RecoverInv'
  BY DEF DInv, RecoverBegin, RecoverInv, TypeOK, Unlabelled, Relabelled,
          NotMoved, Moved, ManagementInv, MarkerInv, ControlInv
<1> QED
  BY <1>1, <1>2, <1>3, <1>4 DEF DInv

LEMMA RecoverOneDInv ==
    ASSUME DInv, NEW t \in Txs, RecoverOne(t)
    PROVE  DInv'
<1>1. (PlaceInv /\ LeaseInv /\ MarkerInv /\ ControlInv /\ MarkersRecoverable /\
      NamedOrMarked /\ TempsHaveMarkers)'
  BY DEF DInv, RecoverOne, Row, PlaceInv, TypeOK, LeaseInv, NotExclusive,
          MarkerInv, ControlInv, Reserved, Unlabelled, Relabelled, NotMoved,
          Moved, MarkersRecoverable, NamedOrMarked, TempsHaveMarkers
<1>2. TypeOK'
  BY DEF DInv, RecoverOne, Row, TypeOK
<1>3. ManagementInv'
  BY DEF DInv, RecoverOne, Row, ManagementInv, TypeOK
<1>4. RecoverInv'
  BY DEF DInv, RecoverOne, Row, RecoverInv, TypeOK, Unlabelled, Relabelled,
          NotMoved, Moved, MarkersRecoverable
<1> QED
  BY <1>1, <1>2, <1>3, <1>4 DEF DInv

LEMMA CleanupTempDInv ==
    ASSUME DInv, CleanupTemp
    PROVE  DInv'
<1>1. (PlaceInv /\ LeaseInv /\ MarkerInv /\ ControlInv /\ MarkersRecoverable /\
      NamedOrMarked)'
  BY DEF DInv, CleanupTemp, PlaceInv, TypeOK, LeaseInv, NotExclusive,
          MarkerInv, ControlInv, Reserved, Unlabelled, Relabelled, NotMoved,
          Moved, MarkersRecoverable, NamedOrMarked
<1>2. TypeOK'
  BY DEF DInv, CleanupTemp, TypeOK, ManagementInv, MarkerInv, ControlInv,
          RecoverInv
<1>3. ManagementInv'
  BY DEF DInv, CleanupTemp, ManagementInv, TypeOK, MarkerInv, ControlInv,
          RecoverInv
<1>4. RecoverInv'
  BY DEF DInv, CleanupTemp, RecoverInv, TypeOK, Unlabelled, Relabelled,
          NotMoved, Moved, ManagementInv, MarkerInv, ControlInv
<1>5. TempsHaveMarkers'
  BY DEF DInv, CleanupTemp, TempsHaveMarkers, TypeOK, NotMoved, Moved,
          Unlabelled, Relabelled, ManagementInv, MarkerInv, ControlInv,
          RecoverInv
<1> QED
  BY <1>1, <1>2, <1>3, <1>4, <1>5 DEF DInv

LEMMA RecoverTempDInv ==
    ASSUME DInv, RecoverTemp
    PROVE  DInv'
<1>1. (PlaceInv /\ LeaseInv /\ MarkerInv /\ ControlInv /\ MarkersRecoverable /\
      NamedOrMarked)'
  BY DEF DInv, RecoverTemp, CanComplete, PlaceInv, TypeOK, LeaseInv,
          NotExclusive, MarkerInv, ControlInv, Reserved, Unlabelled,
          Relabelled, NotMoved, Moved, MarkersRecoverable, NamedOrMarked
<1>2. TypeOK'
  BY DEF DInv, RecoverTemp, CanComplete, TypeOK, ManagementInv, MarkerInv,
          ControlInv, RecoverInv
<1>3. ManagementInv'
  BY DEF DInv, RecoverTemp, CanComplete, ManagementInv, TypeOK, MarkerInv,
          ControlInv, RecoverInv
<1>4. RecoverInv'
  BY DEF DInv, RecoverTemp, CanComplete, RecoverInv, TypeOK, Unlabelled,
          Relabelled, NotMoved, Moved, ManagementInv, MarkerInv, ControlInv
<1>5. TempsHaveMarkers'
  BY DEF DInv, RecoverTemp, CanComplete, TempsHaveMarkers, TypeOK, NotMoved,
          Moved, Unlabelled, Relabelled, ManagementInv, MarkerInv, ControlInv,
          RecoverInv
<1> QED
  BY <1>1, <1>2, <1>3, <1>4, <1>5 DEF DInv

LEMMA RecoverLabelDInv ==
    ASSUME DInv, RecoverLabel
    PROVE  DInv'
<1>1. (LeaseInv /\ MarkerInv)'
  BY DEF DInv, RecoverLabel, LeaseInv, TypeOK, NotExclusive, MarkerInv
<1>2. TypeOK'
  BY DEF DInv, RecoverLabel, TypeOK, ManagementInv, MarkerInv, ControlInv,
          PlaceInv, LeaseInv, RecoverInv
<1>3. ManagementInv'
  BY DEF DInv, RecoverLabel, ManagementInv, TypeOK, MarkerInv, ControlInv,
          PlaceInv, LeaseInv, RecoverInv
<1>4. PlaceInv'
  BY DEF DInv, RecoverLabel, PlaceInv, TypeOK, ManagementInv, MarkerInv,
          ControlInv, LeaseInv, RecoverInv
<1>5. ControlInv'
  BY DEF DInv, RecoverLabel, ControlInv, TypeOK, Reserved, Unlabelled,
          Relabelled, NotMoved, Moved, ManagementInv, MarkerInv, PlaceInv,
          LeaseInv, RecoverInv
<1>6. RecoverInv'
  BY DEF DInv, RecoverLabel, RecoverInv, TypeOK, Unlabelled, Relabelled,
          NotMoved, Moved, ManagementInv, MarkerInv, ControlInv, PlaceInv,
          LeaseInv
<1>7. MarkersRecoverable'
  BY DEF DInv, RecoverLabel, MarkersRecoverable, TypeOK, NotMoved, Moved,
          ManagementInv, MarkerInv, ControlInv, PlaceInv, LeaseInv, RecoverInv
<1>8. NamedOrMarked'
  BY DEF DInv, RecoverLabel, NamedOrMarked, TypeOK, NotMoved, Moved,
          Unlabelled, Relabelled, ManagementInv, MarkerInv, ControlInv,
          PlaceInv, LeaseInv, RecoverInv
<1>9. TempsHaveMarkers'
  BY DEF DInv, RecoverLabel, TempsHaveMarkers, TypeOK, NotMoved, Moved,
          Unlabelled, Relabelled, ManagementInv, MarkerInv, ControlInv,
          PlaceInv, LeaseInv, RecoverInv
<1> QED
  BY <1>1, <1>2, <1>3, <1>4, <1>5, <1>6, <1>7, <1>8, <1>9 DEF DInv

LEMMA RecoverUnmarkDInv ==
    ASSUME DInv, RecoverUnmark
    PROVE  DInv'
<1>1. (PlaceInv /\ LeaseInv)'
  BY DEF DInv, RecoverUnmark, PlaceInv, TypeOK, LeaseInv, NotExclusive
<1>2. TypeOK'
  BY DEF DInv, RecoverUnmark, TypeOK, ManagementInv, MarkerInv, ControlInv,
          RecoverInv
<1>3. ManagementInv'
  BY DEF DInv, RecoverUnmark, ManagementInv, TypeOK, MarkerInv, ControlInv,
          RecoverInv
<1>4. MarkerInv'
  BY DEF DInv, RecoverUnmark, MarkerInv, TypeOK, ManagementInv, ControlInv,
          RecoverInv
<1>5. ControlInv'
  BY DEF DInv, RecoverUnmark, ControlInv, TypeOK, Reserved, Unlabelled,
          Relabelled, NotMoved, Moved, ManagementInv, MarkerInv, RecoverInv
<1>6. RecoverInv'
  BY DEF DInv, RecoverUnmark, RecoverInv, TypeOK, Unlabelled, Relabelled,
          NotMoved, Moved, ManagementInv, MarkerInv, ControlInv
<1>7. MarkersRecoverable'
  BY DEF DInv, RecoverUnmark, MarkersRecoverable, TypeOK, NotMoved, Moved,
          ManagementInv, MarkerInv, ControlInv, RecoverInv
<1>8. NamedOrMarked'
  BY DEF DInv, RecoverUnmark, NamedOrMarked, TypeOK, NotMoved, Moved,
          Unlabelled, Relabelled, ManagementInv, MarkerInv, ControlInv,
          RecoverInv
<1>9. TempsHaveMarkers'
  BY DEF DInv, RecoverUnmark, TempsHaveMarkers, TypeOK, NotMoved, Moved,
          Unlabelled, Relabelled, ManagementInv, MarkerInv, ControlInv,
          RecoverInv
<1> QED
  BY <1>1, <1>2, <1>3, <1>4, <1>5, <1>6, <1>7, <1>8, <1>9 DEF DInv

LEMMA RecoverOneFailsDInv ==
    ASSUME DInv, RecoverOneFails
    PROVE  DInv'
<1>1. (PlaceInv /\ LeaseInv /\ MarkerInv /\ ControlInv /\ MarkersRecoverable /\
      NamedOrMarked /\ TempsHaveMarkers)'
  BY DEF DInv, RecoverOneFails, PlaceInv, TypeOK, LeaseInv, NotExclusive,
          MarkerInv, ControlInv, Reserved, Unlabelled, Relabelled, NotMoved,
          Moved, MarkersRecoverable, NamedOrMarked, TempsHaveMarkers
<1>2. TypeOK'
  BY DEF DInv, RecoverOneFails, TypeOK, ManagementInv, MarkerInv, ControlInv,
          RecoverInv
<1>3. ManagementInv'
  BY DEF DInv, RecoverOneFails, ManagementInv, TypeOK, MarkerInv, ControlInv,
          RecoverInv
<1>4. RecoverInv'
  BY DEF DInv, RecoverOneFails, RecoverInv, TypeOK, Unlabelled, Relabelled,
          NotMoved, Moved, ManagementInv, MarkerInv, ControlInv
<1> QED
  BY <1>1, <1>2, <1>3, <1>4 DEF DInv

LEMMA RecoverEndDInv ==
    ASSUME DInv, RecoverEnd
    PROVE  DInv'
<1>1. (PlaceInv /\ LeaseInv /\ MarkerInv /\ ControlInv /\ MarkersRecoverable /\
      NamedOrMarked /\ TempsHaveMarkers)'
  BY DEF DInv, RecoverEnd, PlaceInv, TypeOK, LeaseInv, NotExclusive, MarkerInv,
          ControlInv, Reserved, Unlabelled, Relabelled, NotMoved, Moved,
          MarkersRecoverable, NamedOrMarked, TempsHaveMarkers
<1>2. TypeOK'
  BY DEF DInv, RecoverEnd, TypeOK, ManagementInv, MarkerInv, ControlInv,
          RecoverInv
<1>3. ManagementInv'
  BY DEF DInv, RecoverEnd, ManagementInv, TypeOK, MarkerInv, ControlInv,
          RecoverInv
<1>4. RecoverInv'
  BY DEF DInv, RecoverEnd, RecoverInv, TypeOK, Unlabelled, Relabelled,
          NotMoved, Moved, ManagementInv, MarkerInv, ControlInv
<1> QED
  BY <1>1, <1>2, <1>3, <1>4 DEF DInv

LEMMA RecoverInterruptedDInv ==
    ASSUME DInv, RecoverInterrupted
    PROVE  DInv'
<1>1. (PlaceInv /\ LeaseInv /\ MarkerInv /\ ControlInv /\ MarkersRecoverable /\
      NamedOrMarked /\ TempsHaveMarkers)'
  BY DEF DInv, RecoverInterrupted, PlaceInv, TypeOK, LeaseInv, NotExclusive,
          MarkerInv, ControlInv, Reserved, Unlabelled, Relabelled, NotMoved,
          Moved, MarkersRecoverable, NamedOrMarked, TempsHaveMarkers
<1>2. TypeOK'
  BY DEF DInv, RecoverInterrupted, TypeOK, ManagementInv, MarkerInv,
          ControlInv, RecoverInv
<1>3. ManagementInv'
  BY DEF DInv, RecoverInterrupted, ManagementInv, TypeOK, MarkerInv,
          ControlInv, RecoverInv
<1>4. RecoverInv'
  BY DEF DInv, RecoverInterrupted, RecoverInv, TypeOK, Unlabelled, Relabelled,
          NotMoved, Moved, ManagementInv, MarkerInv, ControlInv
<1> QED
  BY <1>1, <1>2, <1>3, <1>4 DEF DInv

LEMMA UpgradeBeginDInv ==
    ASSUME DInv, NEW n \in Names, UpgradeBegin(n)
    PROVE  DInv'
<1>1. (PlaceInv /\ MarkerInv /\ ControlInv /\ RecoverInv /\ MarkersRecoverable
      /\ NamedOrMarked /\ TempsHaveMarkers)'
  BY DEF DInv, UpgradeBegin, CanOpen, Unlocked, PlaceInv, TypeOK, MarkerInv,
          ControlInv, Reserved, Unlabelled, Relabelled, NotMoved, Moved,
          RecoverInv, MarkersRecoverable, NamedOrMarked, TempsHaveMarkers
<1>2. TypeOK'
  BY DEF DInv, UpgradeBegin, CanOpen, Unlocked, TypeOK
<1>3. ManagementInv'
  BY DEF DInv, UpgradeBegin, CanOpen, Unlocked, ManagementInv, TypeOK
<1>4. LeaseInv'
  BY DEF DInv, UpgradeBegin, CanOpen, Unlocked, LeaseInv, TypeOK, NotExclusive,
          ManagementInv
<1> QED
  BY <1>1, <1>2, <1>3, <1>4 DEF DInv

LEMMA UpgradeWriteTempDInv ==
    ASSUME DInv, UpgradeWriteTemp
    PROVE  DInv'
<1>1. (PlaceInv /\ MarkerInv /\ ControlInv /\ RecoverInv /\ MarkersRecoverable
      /\ NamedOrMarked /\ TempsHaveMarkers)'
  BY DEF DInv, UpgradeWriteTemp, PlaceInv, TypeOK, MarkerInv, ControlInv,
          Reserved, Unlabelled, Relabelled, NotMoved, Moved, RecoverInv,
          MarkersRecoverable, NamedOrMarked, TempsHaveMarkers
<1>2. TypeOK'
  BY DEF DInv, UpgradeWriteTemp, TypeOK, ManagementInv, LeaseInv
<1>3. ManagementInv'
  BY DEF DInv, UpgradeWriteTemp, ManagementInv, TypeOK, LeaseInv
<1>4. LeaseInv'
  BY DEF DInv, UpgradeWriteTemp, LeaseInv, TypeOK, NotExclusive, ManagementInv
<1> QED
  BY <1>1, <1>2, <1>3, <1>4 DEF DInv

LEMMA UpgradeTempExistsDInv ==
    ASSUME DInv, UpgradeTempExists
    PROVE  DInv'
<1>1. (PlaceInv /\ MarkerInv /\ ControlInv /\ RecoverInv /\ MarkersRecoverable
      /\ NamedOrMarked /\ TempsHaveMarkers)'
  BY DEF DInv, UpgradeTempExists, UpgradeReturns, Release, PlaceInv, TypeOK,
          MarkerInv, ControlInv, Reserved, Unlabelled, Relabelled, NotMoved,
          Moved, RecoverInv, MarkersRecoverable, NamedOrMarked,
          TempsHaveMarkers
<1>2. TypeOK'
  BY DEF DInv, UpgradeTempExists, UpgradeReturns, Release, TypeOK,
          ManagementInv, LeaseInv
<1>3. ManagementInv'
  BY DEF DInv, UpgradeTempExists, UpgradeReturns, Release, ManagementInv,
          TypeOK, LeaseInv
<1>4. LeaseInv'
  BY DEF DInv, UpgradeTempExists, UpgradeReturns, Release, LeaseInv, TypeOK,
          NotExclusive, ManagementInv
<1> QED
  BY <1>1, <1>2, <1>3, <1>4 DEF DInv

LEMMA UpgradeReplaceDInv ==
    ASSUME DInv, UpgradeReplace
    PROVE  DInv'
<1>1. (PlaceInv /\ MarkerInv /\ ControlInv /\ RecoverInv /\ MarkersRecoverable
      /\ NamedOrMarked /\ TempsHaveMarkers)'
  BY DEF DInv, UpgradeReplace, UpgradeReturns, Release, PlaceInv, TypeOK,
          MarkerInv, ControlInv, Reserved, Unlabelled, Relabelled, NotMoved,
          Moved, RecoverInv, MarkersRecoverable, NamedOrMarked,
          TempsHaveMarkers
<1>2. TypeOK'
  BY DEF DInv, UpgradeReplace, UpgradeReturns, Release, TypeOK, ManagementInv,
          LeaseInv
<1>3. ManagementInv'
  BY DEF DInv, UpgradeReplace, UpgradeReturns, Release, ManagementInv, TypeOK,
          LeaseInv
<1>4. LeaseInv'
  BY DEF DInv, UpgradeReplace, UpgradeReturns, Release, LeaseInv, TypeOK,
          NotExclusive, ManagementInv
<1> QED
  BY <1>1, <1>2, <1>3, <1>4 DEF DInv

LEMMA UpgradeInterruptedDInv ==
    ASSUME DInv, UpgradeInterrupted
    PROVE  DInv'
<1>1. (PlaceInv /\ MarkerInv /\ ControlInv /\ RecoverInv /\ MarkersRecoverable
      /\ NamedOrMarked /\ TempsHaveMarkers)'
  BY DEF DInv, UpgradeInterrupted, UpgradeReturns, Release, PlaceInv, TypeOK,
          MarkerInv, ControlInv, Reserved, Unlabelled, Relabelled, NotMoved,
          Moved, RecoverInv, MarkersRecoverable, NamedOrMarked,
          TempsHaveMarkers
<1>2. TypeOK'
  BY DEF DInv, UpgradeInterrupted, UpgradeReturns, Release, TypeOK,
          ManagementInv, LeaseInv
<1>3. ManagementInv'
  BY DEF DInv, UpgradeInterrupted, UpgradeReturns, Release, ManagementInv,
          TypeOK, LeaseInv
<1>4. LeaseInv'
  BY DEF DInv, UpgradeInterrupted, UpgradeReturns, Release, LeaseInv, TypeOK,
          NotExclusive, ManagementInv
<1> QED
  BY <1>1, <1>2, <1>3, <1>4 DEF DInv

LEMMA CreateDInv ==
    ASSUME DInv, NEW n \in Names, NEW d \in Spaces, Create(n, d)
    PROVE  DInv'
<1>1. (ManagementInv /\ MarkerInv)'
  BY DEF DInv, Create, Reserved, ManagementInv, TypeOK, MarkerInv
<1>2. TypeOK'
  BY DEF DInv, Create, Reserved, TypeOK, ManagementInv, PlaceInv, LeaseInv,
          MarkerInv, ControlInv, RecoverInv, MarkersRecoverable
<1>3. PlaceInv'
  BY DEF DInv, Create, Reserved, PlaceInv, TypeOK, ManagementInv, LeaseInv,
          MarkerInv, ControlInv, RecoverInv, MarkersRecoverable
<1>4. LeaseInv'
  BY DEF DInv, Create, Reserved, LeaseInv, TypeOK, NotExclusive, ManagementInv,
          PlaceInv, MarkerInv, ControlInv, RecoverInv, MarkersRecoverable
<1>5. ControlInv'
  BY DEF DInv, Create, Reserved, ControlInv, TypeOK, Unlabelled, Relabelled,
          NotMoved, Moved, ManagementInv, PlaceInv, LeaseInv, MarkerInv,
          RecoverInv, MarkersRecoverable
<1>6. RecoverInv'
  BY DEF DInv, Create, Reserved, RecoverInv, TypeOK, Unlabelled, Relabelled,
          NotMoved, Moved, ManagementInv, PlaceInv, LeaseInv, MarkerInv,
          ControlInv, MarkersRecoverable
<1>7. MarkersRecoverable'
  BY DEF DInv, Create, Reserved, MarkersRecoverable, TypeOK, NotMoved, Moved,
          ManagementInv, PlaceInv, LeaseInv, MarkerInv, ControlInv, RecoverInv
<1>8. NamedOrMarked'
  BY DEF DInv, Create, Reserved, NamedOrMarked, TypeOK, NotMoved, Moved,
          Unlabelled, Relabelled, ManagementInv, PlaceInv, LeaseInv, MarkerInv,
          ControlInv, RecoverInv, MarkersRecoverable
<1>9. TempsHaveMarkers'
  BY DEF DInv, Create, Reserved, TempsHaveMarkers, TypeOK, NotMoved, Moved,
          Unlabelled, Relabelled, ManagementInv, PlaceInv, LeaseInv, MarkerInv,
          ControlInv, RecoverInv, MarkersRecoverable
<1> QED
  BY <1>1, <1>2, <1>3, <1>4, <1>5, <1>6, <1>7, <1>8, <1>9 DEF DInv

LEMMA RemoveDInv ==
    ASSUME DInv, NEW n \in Names, Remove(n)
    PROVE  DInv'
<1>1. (ManagementInv /\ MarkerInv)'
  BY DEF DInv, Remove, CanOpen, Reserved, Unlocked, ManagementInv, TypeOK,
          MarkerInv
<1>2. TypeOK'
  BY DEF DInv, Remove, CanOpen, Reserved, Unlocked, TypeOK, ManagementInv,
          PlaceInv, LeaseInv, MarkerInv, ControlInv, RecoverInv,
          MarkersRecoverable
<1>3. PlaceInv'
  BY DEF DInv, Remove, CanOpen, Reserved, Unlocked, PlaceInv, TypeOK,
          ManagementInv, LeaseInv, MarkerInv, ControlInv, RecoverInv,
          MarkersRecoverable
<1>4. LeaseInv'
  BY DEF DInv, Remove, CanOpen, Reserved, Unlocked, LeaseInv, TypeOK,
          NotExclusive, ManagementInv, PlaceInv, MarkerInv, ControlInv,
          RecoverInv, MarkersRecoverable
<1>5. ControlInv'
  BY DEF DInv, Remove, CanOpen, Reserved, Unlocked, ControlInv, TypeOK,
          Unlabelled, Relabelled, NotMoved, Moved, ManagementInv, PlaceInv,
          LeaseInv, MarkerInv, RecoverInv, MarkersRecoverable
<1>6. RecoverInv'
  BY DEF DInv, Remove, CanOpen, Reserved, Unlocked, RecoverInv, TypeOK,
          Unlabelled, Relabelled, NotMoved, Moved, ManagementInv, PlaceInv,
          LeaseInv, MarkerInv, ControlInv, MarkersRecoverable
<1>7. MarkersRecoverable'
  BY DEF DInv, Remove, CanOpen, Reserved, Unlocked, MarkersRecoverable, TypeOK,
          NotMoved, Moved, ManagementInv, PlaceInv, LeaseInv, MarkerInv,
          ControlInv, RecoverInv
<1>8. NamedOrMarked'
  BY DEF DInv, Remove, CanOpen, Reserved, Unlocked, NamedOrMarked, TypeOK,
          NotMoved, Moved, Unlabelled, Relabelled, ManagementInv, PlaceInv,
          LeaseInv, MarkerInv, ControlInv, RecoverInv, MarkersRecoverable
<1>9. TempsHaveMarkers'
  BY DEF DInv, Remove, CanOpen, Reserved, Unlocked, TempsHaveMarkers, TypeOK,
          NotMoved, Moved, Unlabelled, Relabelled, ManagementInv, PlaceInv,
          LeaseInv, MarkerInv, ControlInv, RecoverInv, MarkersRecoverable
<1> QED
  BY <1>1, <1>2, <1>3, <1>4, <1>5, <1>6, <1>7, <1>8, <1>9 DEF DInv

LEMMA OpenSpaceDInv ==
    ASSUME DInv, NEW s \in Sessions, OpenSpace(s)
    PROVE  DInv'
<1>1. (ManagementInv /\ PlaceInv /\ MarkerInv /\ ControlInv /\ RecoverInv /\
      MarkersRecoverable /\ NamedOrMarked /\ TempsHaveMarkers)'
  BY DEF DInv, OpenSpace, ManagementInv, TypeOK, PlaceInv, MarkerInv,
          ControlInv, Reserved, Unlabelled, Relabelled, NotMoved, Moved,
          RecoverInv, MarkersRecoverable, NamedOrMarked, TempsHaveMarkers
<1>2. TypeOK'
  BY DEF DInv, OpenSpace, TypeOK
<1>3. LeaseInv'
  BY DEF DInv, OpenSpace, LeaseInv, TypeOK, NotExclusive
<1> QED
  BY <1>1, <1>2, <1>3 DEF DInv

LEMMA LeaseDInv ==
    ASSUME DInv, NEW s \in Sessions, Lease(s)
    PROVE  DInv'
<1>1. (ManagementInv /\ PlaceInv /\ MarkerInv /\ ControlInv /\ RecoverInv /\
      MarkersRecoverable /\ NamedOrMarked /\ TempsHaveMarkers)'
  BY DEF DInv, Lease, ManagementInv, TypeOK, PlaceInv, MarkerInv, ControlInv,
          Reserved, Unlabelled, Relabelled, NotMoved, Moved, RecoverInv,
          MarkersRecoverable, NamedOrMarked, TempsHaveMarkers
<1>2. TypeOK'
  BY DEF DInv, Lease, TypeOK, ManagementInv, LeaseInv
<1>3. LeaseInv'
  BY DEF DInv, Lease, LeaseInv, TypeOK, NotExclusive, ManagementInv
<1> QED
  BY <1>1, <1>2, <1>3 DEF DInv

LEMMA CloseDInv ==
    ASSUME DInv, NEW s \in Sessions, Close(s)
    PROVE  DInv'
<1>1. (ManagementInv /\ PlaceInv /\ MarkerInv /\ ControlInv /\ RecoverInv /\
      MarkersRecoverable /\ NamedOrMarked /\ TempsHaveMarkers)'
  BY DEF DInv, Close, ManagementInv, TypeOK, PlaceInv, MarkerInv, ControlInv,
          Reserved, Unlabelled, Relabelled, NotMoved, Moved, RecoverInv,
          MarkersRecoverable, NamedOrMarked, TempsHaveMarkers
<1>2. TypeOK'
  BY DEF DInv, Close, TypeOK, ManagementInv, LeaseInv
<1>3. LeaseInv'
  BY DEF DInv, Close, LeaseInv, TypeOK, NotExclusive, ManagementInv
<1> QED
  BY <1>1, <1>2, <1>3 DEF DInv
LEMMA StutterDInv == ASSUME DInv, UNCHANGED vars PROVE DInv'
BY DEF DInv, vars, TypeOK, ManagementInv, PlaceInv, LeaseInv, NotExclusive, MarkerInv,
       ControlInv, RecoverInv, Reserved, Unlabelled, Relabelled, NotMoved, Moved,
       MarkersRecoverable, NamedOrMarked, TempsHaveMarkers

LEMMA NextDInv == ASSUME DInv, [Next]_vars PROVE DInv'
<1>1. CASE UNCHANGED vars
  BY <1>1, StutterDInv
<1>2. ASSUME NEW t \in Txs, RenameStep(t) \/ MoveFails(t) \/ RenameInterrupted(t)
      PROVE  DInv'
  BY <1>2, BeginRenameDInv, CreateMarkerDInv, WriteMarkerDInv, MoveDirectoryDInv,
     MoveFailsDInv, WriteRenameTempDInv, ReplaceLabelDInv, RemoveMarkerDInv,
     RenameInterruptedDInv
  DEF RenameStep
<1>3. ASSUME RecoverBegin \/ RecoverStep \/ RecoverOneFails \/ RecoverInterrupted
      PROVE  DInv'
  BY <1>3, RecoverBeginDInv, RecoverOneDInv, CleanupTempDInv, RecoverTempDInv,
     RecoverLabelDInv, RecoverUnmarkDInv, RecoverOneFailsDInv, RecoverEndDInv,
     RecoverInterruptedDInv
  DEF RecoverStep
<1>4. ASSUME NEW n \in Names, UpgradeBegin(n) \/ Remove(n) PROVE DInv'
  BY <1>4, UpgradeBeginDInv, RemoveDInv
<1>5. ASSUME UpgradeStep \/ UpgradeInterrupted PROVE DInv'
  BY <1>5, UpgradeWriteTempDInv, UpgradeTempExistsDInv, UpgradeReplaceDInv,
     UpgradeInterruptedDInv
  DEF UpgradeStep
<1>6. ASSUME NEW n \in Names, NEW d \in Spaces, Create(n, d) PROVE DInv'
  BY <1>6, CreateDInv
<1>7. ASSUME NEW s \in Sessions, OpenSpace(s) \/ Lease(s) \/ Close(s) PROVE DInv'
  BY <1>7, OpenSpaceDInv, LeaseDInv, CloseDInv
<1> QED
  BY <1>1, <1>2, <1>3, <1>4, <1>5, <1>6, <1>7 DEF Next

(* The inductive invariant holds in every reachable state.                 *)
THEOREM IdentitySafety == Spec => []DInv
BY InitDInv, NextDInv, PTL DEF Spec

(* Wherever a rename or a recovery stopped, the manifest of every space    *)
(* names its path or a marker explains the difference.                     *)
THEOREM SpacesNamedOrMarked == Spec => []NamedOrMarked
<1>1. DInv => NamedOrMarked
  BY DEF DInv
<1> QED
  BY <1>1, IdentitySafety, PTL

(* recover_one has a row for every marker it can find, and every manifest  *)
(* temporary is found by its marker.                                       *)
THEOREM RecoveryIsSound == Spec => []RecoverySound
<1>1. DInv => RecoverySound
  BY DEF DInv, RecoverySound
<1> QED
  BY <1>1, IdentitySafety, PTL

(* No rename, recovery, removal or upgrade moves the space of a running    *)
(* session or holds it exclusively.                                        *)
THEOREM LeasesCoverSpaces == Spec => []LeaseCoversSpace
<1>1. DInv => LeaseCoversSpace
  BY DEF DInv, LeaseInv, LeaseCoversSpace
<1> QED
  BY <1>1, IdentitySafety, PTL
=============================================================================
