---------------------------- MODULE FdEventProofs ----------------------------
(***************************************************************************)
(* Proofs about FdEvent, for any set of fdevents, any number of            *)
(* descriptors, any table and pointer size and any number of calls.        *)
(***************************************************************************)
EXTENDS FdEvent, FiniteSetTheorems, TLAPS

(* A slot that holds an fdevent holds the active one of its descriptor.    *)
SlotsOwned ==
  \A i \in DOMAIN fd_table : fd_table[i] \in Fdes =>
     fde[fd_table[i]].active /\ fde[fd_table[i]].fd = i - 1

PendingIsActive == \A f \in Fdes : fde[f].pending => fde[f].active

(* Invariants that the scan of fd_table and the callbacks rest on.         *)
IInv ==
  /\ TypeOK
  /\ select_n <= TableMax
  /\ SlotsOwned
  /\ PendingIsActive
  /\ PendingHasEvents
  /\ PendingIsLinked

-----------------------------------------------------------------------------
LEMMA ConstantFacts ==
  /\ None \notin Fdes /\ Junk \notin Fdes
  /\ Notify \in Fdes /\ Clients \subseteq Fdes
  /\ NotifyFd \in Fds
  /\ \A S \in SUBSET Fdes : Cardinality(S) \in Nat
<1>1. IsFiniteSet(Fdes)
  BY ObjectAssumption, FS_AddElement DEF Fdes
<1>2. \A S \in SUBSET Fdes : Cardinality(S) \in Nat
  BY <1>1, FS_Subset, FS_CardinalityType
<1>3. QED
  BY <1>2, ObjectAssumption, BoundAssumption DEF Fdes, Fds, None, Junk, NotifyFd

(* A table that was grown keeps its slots; the new ones hold no fdevent.   *)
LEMMA GrownFacts ==
  ASSUME fd_table \in Seq(Fdes \cup {None, Junk}), NEW fd \in Fds,
         NEW t \in Grown(fd)
  PROVE  /\ t \in Seq(Fdes \cup {None, Junk})
         /\ fd < Len(t) /\ TableMax <= Len(t)
         /\ \A i \in 1 .. TableMax : t[i] = fd_table[i]
         /\ \A i \in TableMax + 1 .. Len(t) : t[i] \notin Fdes
<1>1. CASE fd < TableMax
  BY <1>1 DEF Grown, TableMax
<1>2. CASE ~(fd < TableMax)
  <2> DEFINE n == GrownSize(fd)
             cleared == (n - TableMax) \div PtrInts
  <2>1. n \in Nat /\ n > fd /\ TableMax \in Nat /\ fd \in Nat
    BY GrowthAssumption DEF TableMax, Fds
  <2>2. PICK dirty \in SUBSET (TableMax + cleared + 1 .. n) :
          t = [i \in 1 .. n |-> IF i <= TableMax THEN fd_table[i]
                                ELSE IF i \in dirty THEN Junk ELSE None]
    BY <1>2 DEF Grown
  <2> HIDE DEF n, cleared
  <2>3. \A i \in 1 .. n : t[i] \in Fdes \cup {None, Junk}
    BY <2>1, <2>2 DEF TableMax
  <2>4. QED
    BY <1>2, <2>1, <2>2, <2>3, ConstantFacts DEF TableMax
<1>3. QED
  BY <1>1, <1>2

(* Unlinking a node leaves the others, in their order.                     *)
LEMMA WithoutFacts ==
  ASSUME list_pending \in Seq(Fdes), NEW f \in Fdes, Linked(f),
         \A i, j \in DOMAIN list_pending :
            list_pending[i] = list_pending[j] => i = j
  PROVE  /\ Without(f) \in Seq(Fdes)
         /\ \A g \in Fdes : (\E i \in DOMAIN Without(f) : Without(f)[i] = g)
                              <=> Linked(g) /\ g # f
         /\ \A i, j \in DOMAIN Without(f) : Without(f)[i] = Without(f)[j] => i = j
<1> DEFINE k == CHOOSE i \in DOMAIN list_pending : list_pending[i] = f
<1>1. k \in 1 .. Len(list_pending) /\ list_pending[k] = f
  BY DEF Linked
<1>2. Without(f) = [i \in 1 .. Len(list_pending) - 1 |->
        IF i < k THEN list_pending[i] ELSE list_pending[i + 1]]
  BY DEF Without
<1> HIDE DEF k
<1>3. Len(list_pending) - 1 \in Nat /\ DOMAIN list_pending = 1 .. Len(list_pending)
  BY <1>1
<1>4. Without(f) \in Seq(Fdes) /\ DOMAIN Without(f) = 1 .. Len(list_pending) - 1
  BY <1>1, <1>2, <1>3
<1>5. ASSUME NEW g \in Fdes, NEW i \in DOMAIN Without(f), Without(f)[i] = g
      PROVE  Linked(g) /\ g # f
  BY <1>1, <1>2, <1>3, <1>4, <1>5 DEF Linked
<1>6. ASSUME NEW g \in Fdes, Linked(g), g # f
      PROVE  \E i \in DOMAIN Without(f) : Without(f)[i] = g
  <2>1. PICK i \in 1 .. Len(list_pending) : list_pending[i] = g
    BY <1>3, <1>6 DEF Linked
  <2>2. CASE i < k
    <3>1. i \in DOMAIN Without(f) /\ Without(f)[i] = g
      BY <2>1, <2>2, <1>1, <1>2, <1>3, <1>4
    <3>2. QED
      BY <3>1
  <2>3. CASE i > k
    <3>1. i - 1 \in DOMAIN Without(f) /\ Without(f)[i - 1] = g
      BY <2>1, <2>3, <1>1, <1>2, <1>3, <1>4
    <3>2. QED
      BY <3>1
  <2>4. QED
    BY <1>1, <1>6, <2>1, <2>2, <2>3
<1>7. \A i, j \in DOMAIN Without(f) : Without(f)[i] = Without(f)[j] => i = j
  BY <1>1, <1>2, <1>3, <1>4
<1>8. QED
  BY <1>4, <1>5, <1>6, <1>7

-----------------------------------------------------------------------------
(* The steps that use the interface.                                       *)

LEMMA RegisterStep ==
  ASSUME IInv, NEW f \in Fdes, NEW fd \in Fds, NEW new \in FdeType,
         ~fde[f].active,
         new.active, ~new.pending, new.fd = fd,
         NEW t \in Grown(fd),
         fd_table' = [t EXCEPT ![fd + 1] = f],
         select_n' = IF fd >= select_n THEN fd + 1 ELSE select_n,
         fde' = [fde EXCEPT ![f] = new],
         list_pending' = list_pending
  PROVE  /\ fde' \in [Fdes -> FdeType]
         /\ fd_table' \in Seq(Fdes \cup {None, Junk})
         /\ select_n' \in 0 .. MaxFd + 1
         /\ (select_n <= TableMax)' /\ SlotsOwned' /\ PendingIsActive'
         /\ PendingHasEvents' /\ PendingIsLinked'
<1> DEFINE Slot == Fdes \cup {None, Junk}
<1>0. /\ fd_table \in Seq(Slot) /\ fde \in [Fdes -> FdeType]
      /\ select_n \in 0 .. MaxFd + 1 /\ select_n <= TableMax
  BY DEF IInv, TypeOK
<1>a. /\ t \in Seq(Slot) /\ fd < Len(t) /\ TableMax <= Len(t)
      /\ \A i \in 1 .. TableMax : t[i] = fd_table[i]
      /\ \A i \in TableMax + 1 .. Len(t) : t[i] \notin Fdes
  BY <1>0, GrownFacts
<1>b. f \in Slot
  OBVIOUS
<1> HIDE DEF Slot
<1>1. /\ fd \in Nat /\ fd <= MaxFd /\ MaxFd \in Nat
      /\ Len(t) \in Nat /\ DOMAIN t = 1 .. Len(t) /\ fd + 1 \in DOMAIN t
      /\ TableMax \in Nat /\ DOMAIN fd_table = 1 .. TableMax
  BY <1>0, <1>a, BoundAssumption DEF Fds, TableMax
<1>2. fd_table' \in Seq(Slot) /\ Len(fd_table') = Len(t)
      /\ DOMAIN fd_table' = 1 .. Len(t)
  BY <1>a, <1>b, <1>1
<1>3. fde' \in [Fdes -> FdeType] /\ fde'[f].active /\ fde'[f].fd = fd
      /\ ~fde'[f].pending /\ \A g \in Fdes \ {f} : fde'[g] = fde[g]
  BY <1>0
<1>4. select_n' \in 0 .. MaxFd + 1 /\ (select_n <= TableMax)'
  <2>1. TableMax' = Len(t)
    BY <1>2 DEF TableMax
  <2>2. QED
    BY <2>1, <1>0, <1>a, <1>1
<1>5. ASSUME NEW i \in DOMAIN fd_table', fd_table'[i] \in Fdes
      PROVE  fde'[fd_table'[i]].active /\ fde'[fd_table'[i]].fd = i - 1
  <2>1. CASE i = fd + 1
    BY <2>1, <1>1, <1>3
  <2>2. CASE i # fd + 1
    <3>1. i \in 1 .. Len(t) /\ fd_table'[i] = t[i]
      BY <2>2, <1>1, <1>2
    <3>2. i \in 1 .. TableMax /\ t[i] = fd_table[i]
      BY <3>1, <1>a, <1>1, <1>5
    <3>3. fde[fd_table[i]].active /\ fde[fd_table[i]].fd = i - 1
      BY <3>1, <3>2, <1>1, <1>5 DEF IInv, SlotsOwned
    <3>4. fd_table[i] # f
      BY <3>3
    <3>5. QED
      BY <3>1, <3>2, <3>3, <3>4, <1>3, <1>5
  <2>3. QED
    BY <2>1, <2>2
<1>6. ~fde[f].pending /\ ~Linked(f)
  BY DEF IInv, PendingIsActive, PendingIsLinked
<1>7. PendingIsActive' /\ PendingHasEvents'
  BY <1>3 DEF IInv, PendingIsActive, PendingHasEvents
<1>8. PendingIsLinked'
  BY <1>3, <1>6 DEF IInv, PendingIsLinked, Linked
<1>9. QED
  BY <1>2, <1>3, <1>4, <1>5, <1>7, <1>8 DEF SlotsOwned, Slot

LEMMA RemoveStep ==
  ASSUME IInv, NEW f \in Clients, Remove(f), calls' \in 0 .. MaxCalls
  PROVE  IInv'
<1> DEFINE Slot == Fdes \cup {None, Junk}
<1>0. /\ fd_table \in Seq(Slot) /\ fde \in [Fdes -> FdeType] /\ f \in Fdes
      /\ select_n \in 0 .. MaxFd + 1 /\ select_n <= TableMax
      /\ list_pending \in Seq(Fdes)
  BY ConstantFacts DEF IInv, TypeOK
<1>1. CASE \/ fde[f].pending /\ ~Linked(f)
           \/ fde[f].active /\ (fde[f].fd >= TableMax \/ Entry(fde[f].fd) # f)
  <2>1. Abort("fd_table out of sync")
    BY <1>1 DEF Remove, Cleared
  <2>2. QED
    BY <2>1 DEF Abort, fdeVars, loopVars, envVars, IInv, TypeOK, TableMax,
         SlotsOwned, PendingIsActive, PendingHasEvents, PendingIsLinked, Linked
<1>2. CASE ~(\/ fde[f].pending /\ ~Linked(f)
             \/ fde[f].active /\ (fde[f].fd >= TableMax \/ Entry(fde[f].fd) # f))
  <2>0. /\ fde[f].pending => Linked(f)
        /\ fde[f].active => ~(fde[f].fd >= TableMax) /\ Entry(fde[f].fd) = f
    BY <1>2
  <2>1. /\ list_pending' = IF fde[f].pending THEN Without(f) ELSE list_pending
        /\ fde' = [fde EXCEPT ![f] = [@ EXCEPT !.active = FALSE, !.created = FALSE,
                        !.pending = FALSE, !.want = {}, !.events = {}]]
        /\ UNCHANGED <<heap, notes, pc, cur, aborted>>
    BY <1>2 DEF Remove, Cleared
  <2>2. /\ fde' \in [Fdes -> FdeType] /\ ~fde'[f].active /\ ~fde'[f].pending
        /\ \A g \in Fdes \ {f} : fde'[g] = fde[g]
    BY <2>1, <1>0 DEF FdeType
  <2>3. /\ list_pending' \in Seq(Fdes)
        /\ \A g \in Fdes : Linked(g)' <=> Linked(g) /\ g # f
        /\ \A i, j \in DOMAIN list_pending' :
              list_pending'[i] = list_pending'[j] => i = j
    <3>1. CASE fde[f].pending
      <4>1. list_pending' = Without(f) /\ Linked(f)
        BY <3>1, <2>0, <2>1
      <4> QED
        BY <1>0, <4>1, WithoutFacts DEF IInv, PendingIsLinked, Linked
    <3>2. CASE ~fde[f].pending
      BY <3>2, <1>0, <2>1 DEF IInv, PendingIsLinked, Linked
    <3>3. QED
      BY <3>1, <3>2
  <2>4. PendingIsLinked' /\ PendingIsActive' /\ PendingHasEvents'
    BY <2>2, <2>3 DEF IInv, PendingIsLinked, PendingIsActive, PendingHasEvents
  <2>5. /\ SlotsOwned' /\ fd_table' \in Seq(Slot)
        /\ select_n' \in 0 .. MaxFd + 1 /\ (select_n <= TableMax)'
        /\ fd_sets' \in [Events -> SUBSET Fds]
        /\ openFds' \subseteq Fds /\ ready' \in [Events -> SUBSET Fds]
    <3>1. CASE ~fde[f].active
      <4>1. UNCHANGED <<fd_sets, select_n, fd_table, openFds, ready>>
        BY <3>1, <1>2 DEF Remove, Cleared
      <4>2. SlotsOwned'
        BY <4>1, <3>1, <2>2 DEF IInv, SlotsOwned
      <4>3. QED
        BY <4>1, <4>2, <1>0 DEF IInv, TypeOK, TableMax
    <3>2. CASE fde[f].active
      <4> DEFINE fd == fde[f].fd
      <4>1. /\ fd_sets' = [e \in Events |-> fd_sets[e] \ {fd}]
            /\ select_n' \in Rescanned
            /\ fd_table' = [fd_table EXCEPT ![fd + 1] = None]
            /\ openFds' = openFds \ {fd}
            /\ ready' = [e \in Events |-> ready[e] \ {fd}]
        BY <3>2, <1>2 DEF Remove, Cleared
      <4>2. /\ fd \in Nat /\ fd < TableMax /\ TableMax \in Nat
            /\ DOMAIN fd_table = 1 .. TableMax /\ fd_table[fd + 1] = f
        BY <3>2, <1>0, <2>0, BoundAssumption DEF FdeType, Fds, TableMax, Entry
      <4> HIDE DEF fd
      <4>3. fd_table' \in Seq(Slot) /\ TableMax' = TableMax
            /\ DOMAIN fd_table' = 1 .. TableMax
        BY <4>1, <4>2, <1>0 DEF TableMax
      <4>4. select_n' \in 0 .. MaxFd + 1 /\ (select_n <= TableMax)'
        BY <4>1, <4>2, <4>3, <1>0, BoundAssumption DEF Rescanned, Used
      <4>5. ASSUME NEW i \in DOMAIN fd_table', fd_table'[i] \in Fdes
            PROVE  fde'[fd_table'[i]].active /\ fde'[fd_table'[i]].fd = i - 1
        <5>1. i # fd + 1 /\ fd_table'[i] = fd_table[i] /\ i \in DOMAIN fd_table
          BY <4>1, <4>2, <4>3, <4>5, ConstantFacts
        <5>2. fde[fd_table[i]].active /\ fde[fd_table[i]].fd = i - 1
          BY <5>1, <4>5 DEF IInv, SlotsOwned
        <5>3. fd_table[i] # f
          BY <5>1, <5>2, <4>2, <4>3 DEF fd
        <5>4. QED
          BY <5>1, <5>2, <5>3, <2>2, <4>5
      <4>6. QED
        BY <4>1, <4>3, <4>4, <4>5 DEF IInv, TypeOK, SlotsOwned
    <3>3. QED
      BY <3>1, <3>2
  <2>6. TypeOK'
    BY <2>1, <2>2, <2>3, <2>5 DEF IInv, TypeOK
  <2>7. QED
    BY <2>4, <2>5, <2>6 DEF IInv
<1>3. QED
  BY <1>1, <1>2

LEMMA SetMaskStep ==
  ASSUME IInv, NEW f \in Fdes, NEW mask \in SUBSET Events,
         NEW next \in {"setup", "select", "drain", "client", "subproc", "note"},
         SetMask(f, mask, next), calls' \in 0 .. MaxCalls
  PROVE  IInv'
<1> DEFINE left == fde[f].events \ mask
           drop == fde[f].pending /\ left = {}
<1>0. /\ fde \in [Fdes -> FdeType] /\ list_pending \in Seq(Fdes)
      /\ fd_sets \in [Events -> SUBSET Fds] /\ fde[f].fd \in Fds
  BY DEF IInv, TypeOK, FdeType
<1>1. CASE \/ fde[f].want = mask /\ pc' = next
              /\ UNCHANGED <<fdeVars, loopVars, envVars, cur, aborted>>
           \/ Abort("not linked")
  BY <1>1 DEF Abort, fdeVars, loopVars, envVars, IInv, TypeOK, TableMax,
       SlotsOwned, PendingIsActive, PendingHasEvents, PendingIsLinked, Linked
<1>2. CASE /\ drop => Linked(f)
           /\ fd_sets' = [e \in Events |->
                IF e \in mask THEN fd_sets[e] \cup {fde[f].fd}
                              ELSE fd_sets[e] \ {fde[f].fd}]
           /\ fde' = [fde EXCEPT ![f] = [@ EXCEPT !.want = mask,
                        !.events = IF fde[f].pending THEN left ELSE fde[f].events,
                        !.pending = fde[f].pending /\ ~drop]]
           /\ list_pending' = IF drop THEN Without(f) ELSE list_pending
           /\ pc' = next
           /\ UNCHANGED <<heap, fd_table, select_n, envVars, cur, aborted>>
  <2>1. /\ fde' \in [Fdes -> FdeType]
        /\ fde'[f].active = fde[f].active /\ fde'[f].fd = fde[f].fd
        /\ fde'[f].pending <=> fde[f].pending /\ ~drop
        /\ fde'[f].pending => fde'[f].events # {}
        /\ \A g \in Fdes \ {f} : fde'[g] = fde[g]
    <3> DEFINE ev == IF fde[f].pending THEN left ELSE fde[f].events
               pend == fde[f].pending /\ ~drop
    <3>1. fde' = [fde EXCEPT ![f] = [@ EXCEPT !.want = mask, !.events = ev,
                                              !.pending = pend]]
      BY <1>2
    <3>2. fde[f] \in FdeType /\ ev \in SUBSET Events
      BY <1>0 DEF FdeType
    <3>3. pend \in BOOLEAN /\ (pend => ev # {})
      OBVIOUS
    <3> HIDE DEF ev, pend
    <3>4. /\ fde' \in [Fdes -> FdeType]
          /\ fde'[f].active = fde[f].active /\ fde'[f].fd = fde[f].fd
          /\ fde'[f].pending = pend /\ fde'[f].events = ev
          /\ \A g \in Fdes \ {f} : fde'[g] = fde[g]
      BY <1>0, <3>1, <3>2, <3>3 DEF FdeType
    <3>5. QED
      BY <3>3, <3>4 DEF pend
  <2>2. /\ list_pending' \in Seq(Fdes)
        /\ \A g \in Fdes : Linked(g)' <=> Linked(g) /\ ~(drop /\ g = f)
        /\ \A i, j \in DOMAIN list_pending' :
              list_pending'[i] = list_pending'[j] => i = j
    <3>1. CASE drop
      BY <3>1, <1>0, <1>2, WithoutFacts DEF IInv, PendingIsLinked, Linked
    <3>2. CASE ~drop
      BY <3>2, <1>0, <1>2 DEF IInv, PendingIsLinked, Linked
    <3>3. QED
      BY <3>1, <3>2
  <2> HIDE DEF left, drop
  <2>3. PendingIsLinked' /\ PendingIsActive' /\ PendingHasEvents'
    BY <2>1, <2>2 DEF IInv, PendingIsLinked, PendingIsActive, PendingHasEvents
  <2>4. SlotsOwned'
    BY <2>1, <1>2 DEF IInv, SlotsOwned
  <2>5. fd_sets' \in [Events -> SUBSET Fds]
    BY <1>0, <1>2
  <2>6. TypeOK' /\ (select_n <= TableMax)'
    BY <2>1, <2>2, <2>5, <1>2 DEF IInv, TypeOK, TableMax, envVars
  <2>7. QED
    BY <2>3, <2>4, <2>6 DEF IInv
<1>3. QED
  BY <1>1, <1>2 DEF SetMask, Drops

LEMMA ScanStep ==
  ASSUME IInv, NEW bits \in [Events -> SUBSET Fds],
         \A e \in Events : \A i \in bits[e] : i < select_n,
         Scan(bits)
  PROVE  IInv'
<1> DEFINE hit == UNION {bits[e] : e \in Events}
           hitFdes == {Entry(i) : i \in hit}
           new == {f \in hitFdes : ~fde[f].pending}
<1>0. /\ fde \in [Fdes -> FdeType] /\ list_pending \in Seq(Fdes)
      /\ fd_table \in Seq(Fdes \cup {None, Junk}) /\ select_n <= TableMax
      /\ select_n \in 0 .. MaxFd + 1
  BY DEF IInv, TypeOK
<1>1. CASE ~(hitFdes \subseteq Fdes)
  <2>1. /\ Abort(IF None \in hitFdes THEN "missing fde" ELSE "bad pointer")
        /\ UNCHANGED calls
    BY <1>1 DEF Scan
  <2>2. QED
    BY <2>1 DEF Abort, fdeVars, loopVars, envVars, IInv, TypeOK, TableMax,
         SlotsOwned, PendingIsActive, PendingHasEvents, PendingIsLinked, Linked
<1>2. CASE hitFdes \subseteq Fdes
  <2>1. PICK s \in Ascending(new) : list_pending' = list_pending \o s
    BY <1>2 DEF Scan
  <2>2. /\ fde' = [f \in Fdes |->
             IF f \in hitFdes
             THEN [fde[f] EXCEPT !.pending = TRUE,
                     !.events = @ \cup {e \in Events : fde[f].fd \in bits[e]}]
             ELSE fde[f]]
        /\ pc' = "drain"
        /\ UNCHANGED <<heap, fd_table, select_n, fd_sets, envVars, cur, calls,
                       aborted>>
    BY <1>2 DEF Scan
  <2>3. ASSUME NEW f \in hitFdes
        PROVE  /\ f \in Fdes /\ fde[f].active
               /\ {e \in Events : fde[f].fd \in bits[e]} # {}
    <3>1. PICK i \in hit : f = Entry(i)
      OBVIOUS
    <3>2. PICK e \in Events : i \in bits[e]
      OBVIOUS
    <3>3. i \in Nat /\ i < TableMax
      <4>1. i \in Fds /\ i < select_n
        BY <3>2
      <4>2. select_n \in 0 .. MaxFd + 1 /\ TableMax \in Nat
        BY <1>0 DEF TableMax
      <4>3. QED
        BY <4>1, <4>2, <1>0, BoundAssumption DEF Fds
    <3>4. i + 1 \in DOMAIN fd_table /\ f = fd_table[i + 1] /\ f \in Fdes
      BY <3>1, <3>3, <1>0, <1>2 DEF TableMax, Entry
    <3>5. fde[f].active /\ fde[f].fd = (i + 1) - 1
      BY <3>4 DEF IInv, SlotsOwned
    <3>6. QED
      BY <3>2, <3>3, <3>4, <3>5
  <2>4. new \in SUBSET Fdes /\ (\A f \in new : f \in hitFdes /\ ~Linked(f))
    BY <1>2 DEF IInv, PendingIsLinked
  <2>5. \A f \in Fdes : f \in hitFdes /\ f \notin new => fde[f].pending
    OBVIOUS
  <2> HIDE DEF hit, hitFdes, new
  <2>6. /\ fde' \in [Fdes -> FdeType]
        /\ \A f \in Fdes : /\ fde'[f].active = fde[f].active
                           /\ fde'[f].fd = fde[f].fd
    BY <1>0, <2>2 DEF FdeType
  <2>7. \A f \in Fdes : f \notin hitFdes => fde'[f] = fde[f]
    BY <2>2
  <2>8. \A f \in hitFdes : fde'[f].pending /\ fde'[f].events # {} /\ fde'[f].active
    <3> SUFFICES ASSUME NEW f \in hitFdes
                 PROVE  fde'[f].pending /\ fde'[f].events # {} /\ fde'[f].active
      OBVIOUS
    <3> DEFINE more == {e \in Events : fde[f].fd \in bits[e]}
    <3>1. f \in Fdes /\ fde[f].active /\ more # {} /\ fde[f] \in FdeType
      BY <2>3, <1>0
    <3>2. fde'[f] = [fde[f] EXCEPT !.pending = TRUE, !.events = @ \cup more]
      BY <3>1, <2>2
    <3> HIDE DEF more
    <3>3. QED
      BY <3>1, <3>2 DEF FdeType
  <2>9. SlotsOwned' /\ PendingIsActive' /\ PendingHasEvents'
    BY <2>2, <2>6, <2>7, <2>8
       DEF IInv, SlotsOwned, PendingIsActive, PendingHasEvents
  <2>10. /\ list_pending' \in Seq(Fdes)
         /\ \A f \in Fdes : Linked(f)' <=> Linked(f) \/ f \in new
         /\ \A i, j \in DOMAIN list_pending' :
               list_pending'[i] = list_pending'[j] => i = j
    <3> DEFINE L == Len(list_pending)
               N == Cardinality(new)
    <3>1. /\ s \in [1 .. N -> new] /\ N \in Nat
          /\ \A f \in new : \E i \in 1 .. N : s[i] = f
          /\ \A i, j \in 1 .. N : i < j => fde[s[i]].fd < fde[s[j]].fd
      BY <2>1, <2>4, ConstantFacts DEF Ascending
    <3>2. L \in Nat /\ DOMAIN list_pending = 1 .. L
      BY <1>0
    <3> HIDE DEF N
    <3>3. s \in Seq(new) /\ s \in Seq(Fdes) /\ Len(s) = N
      BY <3>1, <2>4
    <3> HIDE DEF L
    <3>4. /\ list_pending' \in Seq(Fdes) /\ DOMAIN list_pending' = 1 .. L + N
          /\ \A i \in 1 .. L : list_pending'[i] = list_pending[i]
          /\ \A i \in L + 1 .. L + N : list_pending'[i] = s[i - L]
      BY <2>1, <3>2, <3>3, <1>0 DEF L
    <3>5. \A i, j \in 1 .. N : s[i] = s[j] => i = j
      <4>1. \A i \in 1 .. N : fde[s[i]].fd \in Int
        BY <3>1, <2>4, <1>0, BoundAssumption DEF FdeType, Fds
      <4>2. QED
        BY <4>1, <3>1
    <3>6. \A i \in 1 .. L : list_pending[i] \notin new
      BY <2>4, <3>2 DEF Linked
    <3>7. \A i, j \in 1 .. L : list_pending[i] = list_pending[j] => i = j
      BY <3>2 DEF IInv, PendingIsLinked
    <3>8. ASSUME NEW i \in 1 .. L + N, NEW j \in 1 .. L + N,
                 list_pending'[i] = list_pending'[j]
          PROVE  i = j
      <4>1. CASE i \in 1 .. L /\ j \in 1 .. L
        BY <4>1, <3>4, <3>7, <3>8
      <4>2. CASE i \in L + 1 .. L + N /\ j \in L + 1 .. L + N
        <5>1. i - L \in 1 .. N /\ j - L \in 1 .. N /\ s[i - L] = s[j - L]
          BY <4>2, <3>1, <3>2, <3>4, <3>8
        <5>2. QED
          BY <5>1, <3>5, <3>2, <3>1
      <4>3. \A k \in L + 1 .. L + N : k - L \in 1 .. N
        BY <3>1, <3>2
      <4>4. \A k \in L + 1 .. L + N : list_pending'[k] \in new
        BY <3>1, <3>4, <4>3
      <4>5. QED
        BY <4>1, <4>2, <4>4, <3>1, <3>2, <3>4, <3>6, <3>8
    <3>9. ASSUME NEW f \in Fdes, Linked(f)' PROVE Linked(f) \/ f \in new
      <4>1. PICK i \in 1 .. L + N : list_pending'[i] = f
        BY <3>4, <3>9 DEF Linked
      <4>2. CASE i \in 1 .. L
        BY <4>1, <4>2, <3>2, <3>4 DEF Linked
      <4>3. CASE i \in L + 1 .. L + N
        <5>1. i - L \in 1 .. N /\ s[i - L] = f
          BY <4>1, <4>3, <3>1, <3>2, <3>4
        <5>2. QED
          BY <5>1, <3>1
      <4>4. QED
        BY <4>1, <4>2, <4>3, <3>1, <3>2
    <3>10. ASSUME NEW f \in Fdes, Linked(f) \/ f \in new PROVE Linked(f)'
      <4>1. CASE Linked(f)
        <5>1. PICK i \in 1 .. L : list_pending[i] = f
          BY <4>1, <3>2 DEF Linked
        <5>2. i \in 1 .. L + N /\ list_pending'[i] = f
          BY <5>1, <3>1, <3>2, <3>4
        <5>3. QED
          BY <5>2, <3>4 DEF Linked
      <4>2. CASE f \in new
        <5>1. PICK i \in 1 .. N : s[i] = f
          BY <4>2, <3>1
        <5>2. /\ L + i \in 1 .. L + N /\ L + i \in L + 1 .. L + N
              /\ (L + i) - L = i
          BY <5>1, <3>1, <3>2
        <5>3. list_pending'[L + i] = f
          BY <5>1, <5>2, <3>4
        <5>4. QED
          BY <5>2, <5>3, <3>4 DEF Linked
      <4>3. QED
        BY <4>1, <4>2, <3>10
    <3>11. QED
      BY <3>4, <3>8, <3>9, <3>10
  <2>11. PendingIsLinked'
    <3>1. ASSUME NEW f \in Fdes PROVE fde'[f].pending <=> Linked(f)'
      <4>1. CASE f \in hitFdes
        BY <4>1, <2>5, <2>8, <2>10 DEF IInv, PendingIsLinked
      <4>2. CASE f \notin hitFdes
        BY <4>2, <2>4, <2>7, <2>10 DEF IInv, PendingIsLinked
      <4>3. QED
        BY <4>1, <4>2
    <3>2. QED
      BY <3>1, <2>10 DEF PendingIsLinked
  <2>12. TypeOK' /\ (select_n <= TableMax)'
    BY <2>2, <2>6, <2>10 DEF IInv, TypeOK, TableMax, envVars
  <2>13. QED
    BY <2>9, <2>11, <2>12 DEF IInv
<1>3. QED
  BY <1>1, <1>2

-----------------------------------------------------------------------------
(* A step that leaves the fdevents and the loop's tables alone.            *)
LEMMA QuietStep ==
  ASSUME IInv, UNCHANGED <<fdeVars, fd_table, select_n, fd_sets, list_pending>>,
         TypeOK'
  PROVE  IInv'
BY DEF fdeVars, IInv, TableMax, SlotsOwned, PendingIsActive, PendingHasEvents,
       PendingIsLinked, Linked

LEMMA DispatchStep ==
  ASSUME IInv, Dispatch
  PROVE  /\ IInv'
         /\ cur'.f # None => fde[cur'.f].active /\ cur'.ev # {}
<1> DEFINE f == Head(list_pending)
<1>0. /\ list_pending \in Seq(Fdes) /\ list_pending # << >>
      /\ fde \in [Fdes -> FdeType]
  BY DEF Dispatch, IInv, TypeOK
<1>1. /\ list_pending \in Seq(Fdes) /\ list_pending # << >>
      /\ f \in Fdes /\ f = list_pending[1] /\ Linked(f)
      /\ fde \in [Fdes -> FdeType]
  <2>1. 1 \in DOMAIN list_pending /\ f = list_pending[1] /\ f \in Fdes
    BY <1>0
  <2>2. QED
    BY <1>0, <2>1 DEF Linked
<1>2. fde[f].pending /\ fde[f].active /\ fde[f].events # {}
  BY <1>1 DEF IInv, PendingIsLinked, PendingIsActive, PendingHasEvents
<1>3. /\ list_pending' = Tail(list_pending)
      /\ fde' = [fde EXCEPT ![f] = [@ EXCEPT !.events = {}, !.pending = FALSE]]
      /\ cur' = [f |-> f, ev |-> fde[f].events]
      /\ pc' = IF f = Notify THEN "subproc" ELSE "client"
      /\ calls' = 0
      /\ UNCHANGED <<heap, fd_table, select_n, fd_sets, envVars, aborted>>
  BY <1>2 DEF Dispatch
<1> HIDE DEF f
<1>4. /\ fde' \in [Fdes -> FdeType] /\ ~fde'[f].pending
      /\ fde'[f].active = fde[f].active /\ fde'[f].fd = fde[f].fd
      /\ \A g \in Fdes \ {f} : fde'[g] = fde[g]
  <2> DEFINE called == [fde[f] EXCEPT !.events = {}, !.pending = FALSE]
  <2>1. fde[f] \in FdeType
    BY <1>1
  <2>2. /\ called \in FdeType /\ ~called.pending
        /\ called.active = fde[f].active /\ called.fd = fde[f].fd
    BY <2>1 DEF FdeType
  <2>3. fde' = [fde EXCEPT ![f] = called]
    BY <1>3
  <2> HIDE DEF called
  <2> QED
    BY <1>1, <2>2, <2>3
<1>5. /\ list_pending' \in Seq(Fdes)
      /\ DOMAIN list_pending = 1 .. Len(list_pending)
      /\ DOMAIN list_pending' = 1 .. Len(list_pending) - 1
      /\ Len(list_pending) \in Nat \ {0}
      /\ \A i \in 1 .. Len(list_pending) - 1 :
            list_pending'[i] = list_pending[i + 1]
  BY <1>1, <1>3
<1>6. \A g \in Fdes : Linked(g)' <=> Linked(g) /\ g # f
  <2>1. ASSUME NEW g \in Fdes, Linked(g)' PROVE Linked(g) /\ g # f
    <3>1. PICK i \in 1 .. Len(list_pending) - 1 : list_pending'[i] = g
      BY <2>1, <1>5 DEF Linked
    <3>2. i + 1 \in DOMAIN list_pending /\ list_pending[i + 1] = g /\ i + 1 # 1
          /\ 1 \in DOMAIN list_pending
      BY <3>1, <1>5
    <3>3. QED
      BY <3>2, <1>1 DEF Linked, IInv, PendingIsLinked
  <2>2. ASSUME NEW g \in Fdes, Linked(g), g # f PROVE Linked(g)'
    <3>1. PICK i \in DOMAIN list_pending : list_pending[i] = g
      BY <2>2 DEF Linked
    <3>2. i - 1 \in DOMAIN list_pending' /\ list_pending'[i - 1] = g
      BY <3>1, <2>2, <1>1, <1>5
    <3>3. QED
      BY <3>2 DEF Linked
  <2>3. QED
    BY <2>1, <2>2
<1>7. \A i, j \in DOMAIN list_pending' : list_pending'[i] = list_pending'[j] => i = j
  <2>1. \A i, j \in 1 .. Len(list_pending) : list_pending[i] = list_pending[j] => i = j
    BY <1>5 DEF IInv, PendingIsLinked
  <2>2. \A i \in 1 .. Len(list_pending) - 1 : i + 1 \in 1 .. Len(list_pending)
    BY <1>5
  <2>3. \A i, j \in 1 .. Len(list_pending) - 1 :
           list_pending'[i] = list_pending'[j] => i + 1 = j + 1
    BY <2>1, <2>2, <1>5
  <2>4. QED
    BY <2>3, <1>5
<1>8. PendingIsLinked' /\ PendingIsActive' /\ PendingHasEvents' /\ SlotsOwned'
  BY <1>3, <1>4, <1>6, <1>7 DEF IInv, PendingIsLinked, PendingIsActive,
       PendingHasEvents, SlotsOwned
<1>9. cur' \in [f : Fdes \cup {None}, ev : SUBSET Events]
  BY <1>1, <1>3 DEF FdeType
<1>10. TypeOK' /\ (select_n <= TableMax)'
  <2>1. pc' \in {"subproc", "client"} /\ calls' \in 0 .. MaxCalls
    BY <1>3, BoundAssumption
  <2>2. QED
    BY <1>3, <1>4, <1>5, <1>9, <2>1 DEF IInv, TypeOK, TableMax, envVars
<1>11. QED
  BY <1>2, <1>3, <1>8, <1>10 DEF IInv

LEMMA HeadTailType ==
  ASSUME NEW S, NEW q \in Seq(S), q # << >>
  PROVE  Head(q) \in S /\ Tail(q) \in Seq(S)
OBVIOUS

LEMMA SubprocNoteStep ==
  ASSUME IInv, SubprocNote
  PROVE  /\ IInv'
         /\ cur' # cur /\ cur'.f # None => fde[cur'.f].active /\ cur'.ev # {}
<1> DEFINE fd == Head(notes).fd
           found == fd < TableMax /\ Entry(fd) # None
<1>0. /\ fde \in [Fdes -> FdeType] /\ calls' = calls
      /\ fd_table \in Seq(Fdes \cup {None, Junk})
      /\ NoCall \in [f : Fdes \cup {None}, ev : SUBSET Events]
  BY DEF IInv, TypeOK, SubprocNote, NoCall
<1>1. CASE Abort("no note") \/ Abort("bad pointer")
  <2>1. TypeOK'
    BY <1>0, <1>1 DEF IInv, TypeOK, Abort, fdeVars, loopVars, envVars
  <2>2. QED
    BY <1>1, <2>1, QuietStep DEF Abort, loopVars
<1>2. CASE /\ notes # << >> /\ ~(found /\ Entry(fd) = Junk)
           /\ IF found /\ fde[Entry(fd)].fd = fd THEN ForceEof(fd)
                                                 ELSE NothingFound
           /\ notes' = Tail(notes)
           /\ UNCHANGED <<heap, loopVars, openFds, ready, aborted>>
  <2>1. /\ notes' \in Seq([fd : Fds, owner : Clients]) /\ fd \in Nat
    <3>1. notes \in Seq([fd : Fds, owner : Clients]) /\ notes # << >>
      BY <1>2 DEF IInv, TypeOK
    <3>2. Head(notes) \in [fd : Fds, owner : Clients]
          /\ Tail(notes) \in Seq([fd : Fds, owner : Clients])
      BY <3>1, HeadTailType
    <3>3. QED
      BY <1>2, <3>2, BoundAssumption DEF Fds
  <2>2. CASE NothingFound
    <3>1. TypeOK'
      BY <1>0, <1>2, <2>1, <2>2 DEF IInv, TypeOK, NothingFound, loopVars
    <3>2. QED
      BY <1>2, <2>2, <3>1, QuietStep DEF NothingFound, NoCall, loopVars, fdeVars
  <2>3. CASE found /\ fde[Entry(fd)].fd = fd /\ ForceEof(fd)
    <3> DEFINE f == Entry(fd)
    <3>1. fd + 1 \in DOMAIN fd_table /\ f = fd_table[fd + 1] /\ f \in Fdes
      BY <1>0, <1>2, <2>1, <2>3 DEF Entry, TableMax
    <3>2. fde[f].active
      BY <3>1 DEF IInv, SlotsOwned
    <3> HIDE DEF f, fd, found
    <3>3. PICK ev \in SUBSET Events :
            /\ fde' = [fde EXCEPT ![f] = [fde[f] EXCEPT !.force_eof = TRUE,
                                                        !.events = ev]]
            /\ fde[f].pending => ev # {}
            /\ \/ pc' = "drain" /\ cur' = NoCall
               \/ pc' = "client" /\ cur'.f = f /\ cur'.ev # {}
                  /\ cur' \in [f : Fdes \cup {None}, ev : SUBSET Events]
      <4>0. fde[f] \in FdeType /\ fde[f].events \in SUBSET Events /\ "R" \in Events
        BY <1>0, <3>1 DEF FdeType, Events
      <4>1. \/ fde' = [fde EXCEPT ![f].force_eof = TRUE]
               /\ pc' = "drain" /\ cur' = NoCall
            \/ fde' = [[fde EXCEPT ![f].force_eof = TRUE]
                         EXCEPT ![f].events = @ \cup {"R"}]
               /\ pc' = "drain" /\ cur' = NoCall
            \/ ~fde[f].pending
               /\ fde' = [[fde EXCEPT ![f].force_eof = TRUE] EXCEPT ![f].events = {}]
               /\ pc' = "client"
               /\ cur' = [f |-> f, ev |-> fde[f].events \cup {"R"}]
        BY <2>3 DEF ForceEof, f
      <4>2. CASE fde' = [fde EXCEPT ![f].force_eof = TRUE]
                 /\ pc' = "drain" /\ cur' = NoCall
        <5>1. fde' = [fde EXCEPT ![f] = [fde[f] EXCEPT !.force_eof = TRUE,
                                                       !.events = fde[f].events]]
          BY <4>0, <4>2, <1>0, <3>1 DEF FdeType
        <5>2. fde[f].pending => fde[f].events # {}
          BY <3>1 DEF IInv, PendingHasEvents
        <5>3. QED
          BY <5>1, <5>2, <4>0, <4>2
      <4>3. CASE fde' = [[fde EXCEPT ![f].force_eof = TRUE]
                           EXCEPT ![f].events = @ \cup {"R"}]
                 /\ pc' = "drain" /\ cur' = NoCall
        <5>1. fde' = [fde EXCEPT ![f] = [fde[f] EXCEPT !.force_eof = TRUE,
                                           !.events = fde[f].events \cup {"R"}]]
          BY <4>0, <4>3, <1>0, <3>1 DEF FdeType
        <5>2. fde[f].events \cup {"R"} \in SUBSET Events
          BY <4>0
        <5>3. fde[f].events \cup {"R"} # {}
          OBVIOUS
        <5> WITNESS fde[f].events \cup {"R"} \in SUBSET Events
        <5>4. QED
          BY <5>1, <5>2, <5>3, <4>3
      <4>4. CASE ~fde[f].pending
               /\ fde' = [[fde EXCEPT ![f].force_eof = TRUE] EXCEPT ![f].events = {}]
               /\ pc' = "client"
               /\ cur' = [f |-> f, ev |-> fde[f].events \cup {"R"}]
        <5>1. fde' = [fde EXCEPT ![f] = [fde[f] EXCEPT !.force_eof = TRUE,
                                                       !.events = {}]]
          BY <4>0, <4>4, <1>0, <3>1 DEF FdeType
        <5>2. cur'.f = f /\ cur'.ev # {}
              /\ cur' \in [f : Fdes \cup {None}, ev : SUBSET Events]
          BY <4>0, <4>4, <3>1
        <5>3. {} \in SUBSET Events
          OBVIOUS
        <5> WITNESS {} \in SUBSET Events
        <5>4. QED
          BY <5>1, <5>2, <4>4
      <4>5. QED
        BY <4>1, <4>2, <4>3, <4>4
    <3>4. /\ fde' \in [Fdes -> FdeType]
          /\ fde'[f].events # {} \/ ~fde'[f].pending
          /\ \A g \in Fdes : /\ fde'[g].active = fde[g].active
                             /\ fde'[g].fd = fde[g].fd
                             /\ fde'[g].pending = fde[g].pending
                             /\ g # f => fde'[g] = fde[g]
      <4>1. fde[f] \in FdeType
        BY <1>0, <3>1
      <4>2. /\ [fde[f] EXCEPT !.force_eof = TRUE, !.events = ev] \in FdeType
            /\ fde'[f] = [fde[f] EXCEPT !.force_eof = TRUE, !.events = ev]
            /\ \A g \in Fdes \ {f} : fde'[g] = fde[g]
        BY <4>1, <3>3, <1>0, <3>1 DEF FdeType
      <4>3. /\ fde'[f].active = fde[f].active /\ fde'[f].fd = fde[f].fd
            /\ fde'[f].pending = fde[f].pending /\ fde'[f].events = ev
        BY <4>1, <4>2 DEF FdeType
      <4>4. fde' \in [Fdes -> FdeType]
        BY <4>2, <3>3, <1>0, <3>1
      <4>5. QED
        BY <4>2, <4>3, <4>4, <3>3
    <3>5. SlotsOwned' /\ PendingIsActive' /\ PendingHasEvents' /\ PendingIsLinked'
      BY <3>4, <3>1, <1>2 DEF IInv, SlotsOwned, PendingIsActive, PendingHasEvents,
         PendingIsLinked, Linked, loopVars
    <3>6. TypeOK' /\ (select_n <= TableMax)'
      BY <3>3, <3>4, <1>0, <1>2, <2>1 DEF IInv, TypeOK, TableMax, loopVars
    <3>7. cur' # cur /\ cur'.f # None => fde[cur'.f].active /\ cur'.ev # {}
      BY <3>2, <3>3 DEF NoCall
    <3>8. QED
      BY <3>5, <3>6, <3>7 DEF IInv
  <2>4. QED
    BY <1>2, <2>2, <2>3
<1>3. QED
  BY <1>1, <1>2 DEF SubprocNote

-----------------------------------------------------------------------------
LEMMA ClientStep ==
  ASSUME IInv, Client
  PROVE  IInv' /\ cur' = cur
<1>0. /\ \A f \in Clients : f \in Fdes
      /\ \A f \in Fdes : fde[f].want \in SUBSET Events
      /\ calls \in 0 .. MaxCalls
  BY ConstantFacts DEF IInv, TypeOK, FdeType
<1>1. ASSUME calls < MaxCalls PROVE calls + 1 \in 0 .. MaxCalls
  BY <1>0, <1>1, BoundAssumption
<1>2. ASSUME NEW f \in Clients, NEW fd \in Fds, ClientInstall(f, fd)
      PROVE  IInv' /\ cur' = cur
  <2>1. PICK t \in Grown(fd) : fd_table' = [t EXCEPT ![fd + 1] = f]
    BY <1>2 DEF ClientInstall, Register
  <2> DEFINE mallocd == f \in Malloced
             new == [Blank EXCEPT !.fd = fd, !.active = TRUE, !.created = mallocd]
  <2>2. /\ ~fde[f].active
        /\ select_n' = IF fd >= select_n THEN fd + 1 ELSE select_n
        /\ fde' = [fde EXCEPT ![f] = new]
        /\ list_pending' = list_pending
    BY <1>2 DEF ClientInstall, Register
  <2>3. new \in FdeType /\ new.active /\ ~new.pending /\ new.fd = fd
    <3>1. mallocd \in BOOLEAN
      OBVIOUS
    <3> HIDE DEF mallocd
    <3>2. QED
      BY <3>1 DEF Blank, FdeType
  <2> HIDE DEF new
  <2>4. /\ fde' \in [Fdes -> FdeType]
        /\ fd_table' \in Seq(Fdes \cup {None, Junk})
        /\ select_n' \in 0 .. MaxFd + 1
        /\ (select_n <= TableMax)' /\ SlotsOwned' /\ PendingIsActive'
        /\ PendingHasEvents' /\ PendingIsLinked'
    BY <1>0, <2>1, <2>2, <2>3, RegisterStep
  <2>5. heap' \subseteq Fdes /\ openFds' \subseteq Fds
    BY <1>0, <1>2 DEF ClientInstall, Register, IInv, TypeOK
  <2>6. TypeOK'
    BY <1>1, <1>2, <2>4, <2>5 DEF ClientInstall, Register, InClient, IInv, TypeOK
  <2>7. QED
    BY <1>2, <2>4, <2>6 DEF IInv, ClientInstall
<1>3. ASSUME NEW f \in Clients, ClientRemove(f) PROVE IInv' /\ cur' = cur
  <2>1. calls' \in 0 .. MaxCalls /\ Remove(f)
    BY <1>1, <1>3 DEF ClientRemove, InClient
  <2>2. QED
    BY <2>1, RemoveStep DEF Remove, Cleared, Abort
<1>4. ASSUME NEW f \in Clients, NEW m \in SUBSET Events, ClientSet(f, m)
      PROVE  IInv' /\ cur' = cur
  <2>1. /\ calls' \in 0 .. MaxCalls /\ SetMask(f, m, pc)
        /\ pc \in {"setup", "client"}
    BY <1>1, <1>4 DEF ClientSet, InClient
  <2>2. IInv'
    BY <2>1, <1>0, SetMaskStep
  <2>3. QED
    BY <2>1, <2>2 DEF SetMask, Drops, Abort
<1>5. ASSUME NEW f \in Clients, NEW m \in SUBSET Events,
             ClientAdd(f, m) \/ ClientDel(f, m)
      PROVE  IInv' /\ cur' = cur
  <2>1. fde[f].want \cup m \in SUBSET Events /\ fde[f].want \ m \in SUBSET Events
    BY <1>0
  <2>2. QED
    BY <1>4, <1>5, <2>1 DEF ClientAdd, ClientDel
<1>6. ASSUME NEW e \in Events, ClientConsume(e) PROVE IInv' /\ cur' = cur
  <2>1. TypeOK'
    BY <1>6 DEF ClientConsume, IInv, TypeOK, fdeVars, loopVars
  <2>2. QED
    BY <1>6, <2>1, QuietStep DEF ClientConsume, loopVars
<1>7. QED
  BY <1>2, <1>3, <1>4, <1>5, <1>6 DEF Client

LEMMA ProcessStep ==
  ASSUME IInv, Process
  PROVE  IInv' /\ cur' = cur
<1>1. PICK bits \in [Events -> SUBSET Fds] :
        Scan(bits) /\ \A e \in Events : \A i \in bits[e] : i < select_n
  <2>1. CASE ProcessReady
    <3>1. [e \in Events |-> Selected(e)] \in [Events -> SUBSET Fds]
      BY DEF Selected, IInv, TypeOK
    <3>2. \A e \in Events : \A i \in Selected(e) : i < select_n
      BY DEF Selected
    <3>3. QED
      BY <2>1, <3>1, <3>2 DEF ProcessReady
  <2>2. CASE ProcessBadFd
    <3>0. select_n \in 0 .. MaxFd + 1 /\ MaxFd \in Nat
      BY BoundAssumption DEF IInv, TypeOK
    <3>1. BadSlots \subseteq Fds /\ \A i \in BadSlots : i < select_n
      BY <3>0 DEF BadSlots, Fds
    <3>2. [e \in Events |-> IF e = "R" THEN BadSlots ELSE {}]
            \in [Events -> SUBSET Fds]
      BY <3>1
    <3>3. QED
      BY <2>2, <3>1, <3>2 DEF ProcessBadFd
  <2>3. QED
    BY <2>1, <2>2 DEF Process
<1>2. QED
  BY <1>1, ScanStep DEF Scan, Abort

LEMMA DrainStep ==
  ASSUME IInv, Drain
  PROVE  IInv' /\ (cur' # cur /\ cur'.f # None => fde[cur'.f].active /\ cur'.ev # {})
<1>1. CASE Dispatch
  BY <1>1, DispatchStep
<1>2. CASE TurnEnds
  <2>1. TypeOK'
    BY <1>2 DEF TurnEnds, IInv, TypeOK, fdeVars, loopVars, envVars
  <2>2. QED
    BY <1>2, <2>1, QuietStep DEF TurnEnds, loopVars
<1>3. CASE SubprocHook
  <2> DEFINE next == IF "R" \in cur.ev THEN "note" ELSE "drain"
  <2>1. /\ SetMask(Notify, fde[Notify].want \cup {"R"}, next)
        /\ next \in {"setup", "select", "drain", "client", "subproc", "note"}
        /\ calls' = calls
    BY <1>3 DEF SubprocHook
  <2>2. fde[Notify].want \cup {"R"} \in SUBSET Events /\ Notify \in Fdes
    BY ConstantFacts DEF IInv, TypeOK, FdeType, Events
  <2>3. cur' = cur
    BY <2>1 DEF SetMask, Drops, Abort
  <2>4. calls' \in 0 .. MaxCalls
    BY <2>1 DEF IInv, TypeOK
  <2> HIDE DEF next
  <2>5. IInv'
    BY <2>1, <2>2, <2>4, SetMaskStep
  <2>6. QED
    BY <2>3, <2>5
<1>4. CASE SubprocNote
  BY <1>4, SubprocNoteStep
<1>5. QED
  BY <1>1, <1>2, <1>3, <1>4 DEF Drain

LEMMA OtherStep ==
  ASSUME IInv, ProcessInterrupted \/ ClientReturn \/ Others
  PROVE  IInv' /\ (cur' = cur \/ cur' = NoCall)
<1>1. CASE ProcessInterrupted
  <2>1. TypeOK'
    BY <1>1 DEF ProcessInterrupted, IInv, TypeOK, fdeVars, loopVars, envVars
  <2>2. QED
    BY <1>1, <2>1, QuietStep DEF ProcessInterrupted, loopVars
<1>2. CASE ClientReturn
  <2>0. NoCall \in [f : Fdes \cup {None}, ev : SUBSET Events] /\ 0 \in 0 .. MaxCalls
    BY BoundAssumption DEF NoCall
  <2>1. TypeOK'
    BY <1>2, <2>0 DEF ClientReturn, IInv, TypeOK, fdeVars, loopVars, envVars
  <2>2. QED
    BY <1>2, <2>1, QuietStep DEF ClientReturn, loopVars
<1>3. CASE Others
  <2>1. ASSUME NEW i \in Fds, NEW e \in Events, FdBecomesReady(i, e) PROVE TypeOK'
    BY <2>1 DEF FdBecomesReady, IInv, TypeOK, fdeVars, loopVars
  <2>2. ASSUME NEW f \in Clients, ShellExits(f) PROVE TypeOK'
    <3>1. fde[f].fd \in Fds
      BY ConstantFacts DEF IInv, TypeOK, FdeType
    <3>2. notes' \in Seq([fd : Fds, owner : Clients])
      BY <2>2, <3>1 DEF ShellExits, IInv, TypeOK
    <3>3. QED
      BY <2>2, <3>2 DEF ShellExits, IInv, TypeOK, fdeVars, loopVars
  <2>3. ASSUME NEW i \in Fds, FdGoesBad(i) PROVE TypeOK'
    BY <2>3 DEF FdGoesBad, IInv, TypeOK, fdeVars, loopVars
  <2>4. TypeOK' /\ UNCHANGED <<fdeVars, loopVars, cur>>
    BY <1>3, <2>1, <2>2, <2>3 DEF Others, FdBecomesReady, ShellExits, FdGoesBad
  <2>5. QED
    BY <2>4, QuietStep DEF loopVars
<1>4. QED
  BY <1>1, <1>2, <1>3

(* The loop has not started: its own fdevent is not registered.            *)
NotifyWaits == pc = "setup" => ~fde[Notify].active

LEMMA EnterStep ==
  ASSUME IInv, NotifyWaits, EnterLoop
  PROVE  IInv' /\ cur' = cur
<1> DEFINE new == [Blank EXCEPT !.fd = NotifyFd, !.active = TRUE,
                                !.created = TRUE, !.want = {"R"}]
<1>1. PICK t \in Grown(NotifyFd) : fd_table' = [t EXCEPT ![NotifyFd + 1] = Notify]
  BY DEF EnterLoop
<1>2. /\ ~fde[Notify].active
      /\ select_n' = IF NotifyFd >= select_n THEN NotifyFd + 1 ELSE select_n
      /\ fde' = [fde EXCEPT ![Notify] = new]
      /\ list_pending' = list_pending
  BY DEF EnterLoop, NotifyWaits
<1>3. /\ new \in FdeType /\ new.active /\ ~new.pending /\ new.fd = NotifyFd
  BY ConstantFacts DEF Blank, FdeType, Events
<1> HIDE DEF new
<1>4. /\ fde' \in [Fdes -> FdeType]
      /\ fd_table' \in Seq(Fdes \cup {None, Junk})
      /\ select_n' \in 0 .. MaxFd + 1
      /\ (select_n <= TableMax)' /\ SlotsOwned' /\ PendingIsActive'
      /\ PendingHasEvents' /\ PendingIsLinked'
  BY <1>1, <1>2, <1>3, ConstantFacts, RegisterStep
<1>5. /\ heap' \subseteq Fdes /\ openFds' \subseteq Fds
      /\ fd_sets' \in [Events -> SUBSET Fds]
      /\ calls' \in 0 .. MaxCalls /\ pc' = "select"
  <2>1. heap \subseteq Fdes /\ openFds \subseteq Fds
        /\ fd_sets \in [Events -> SUBSET Fds]
    BY DEF IInv, TypeOK
  <2>2. QED
    BY <2>1, ConstantFacts, BoundAssumption DEF EnterLoop, Events
<1>6. TypeOK'
  BY <1>4, <1>5 DEF EnterLoop, IInv, TypeOK
<1>7. QED
  BY <1>4, <1>6 DEF IInv, EnterLoop

(* Clients never register the loop's own fdevent.                          *)
LEMMA NotifyWaitsStep ==
  ASSUME IInv, NotifyWaits, Next
  PROVE  NotifyWaits'
<1> SUFFICES ASSUME pc' = "setup" PROVE ~fde'[Notify].active
  BY DEF NotifyWaits
<1>1. pc' # "abort"
  OBVIOUS
<1>2. fde \in [Fdes -> FdeType] /\ Notify \in Fdes
      /\ \A f \in Clients : f \in Fdes /\ f # Notify
  BY ConstantFacts, ObjectAssumption DEF IInv, TypeOK
<1>3. CASE EnterLoop \/ ProcessInterrupted \/ ClientReturn
  BY <1>3 DEF EnterLoop, ProcessInterrupted, ClientReturn
<1>4. CASE Process
  BY <1>4 DEF Process, ProcessReady, ProcessBadFd, Scan, Abort
<1>5. CASE Drain
  <2>1. ~Dispatch
    BY DEF Dispatch
  <2>2. ~TurnEnds
    BY DEF TurnEnds
  <2>3. ~SubprocHook
    BY DEF SubprocHook, SetMask, Drops, Abort
  <2>4. ~SubprocNote
    BY DEF SubprocNote, ForceEof, NothingFound, Abort
  <2>5. QED
    BY <1>5, <2>1, <2>2, <2>3, <2>4 DEF Drain
<1>6. CASE Client
  <2>1. ASSUME NEW f \in Clients, NEW fd \in Fds, ClientInstall(f, fd)
        PROVE  pc = "setup" /\ fde'[Notify] = fde[Notify]
    BY <2>1, <1>2 DEF ClientInstall, Register
  <2>2. ASSUME NEW f \in Clients, ClientRemove(f)
        PROVE  pc = "setup" /\ fde'[Notify] = fde[Notify]
    BY <2>2, <1>1, <1>2 DEF ClientRemove, Remove, Cleared, Abort
  <2>3. ASSUME NEW f \in Clients, NEW m, ClientSet(f, m)
        PROVE  pc = "setup" /\ fde'[Notify] = fde[Notify]
    BY <2>3, <1>1, <1>2 DEF ClientSet, SetMask, Drops, Abort, fdeVars
  <2>4. ASSUME NEW e \in Events, ClientConsume(e)
        PROVE  pc = "setup" /\ fde'[Notify] = fde[Notify]
    BY <2>4 DEF ClientConsume, fdeVars
  <2>5. QED
    BY <1>6, <2>1, <2>2, <2>3, <2>4 DEF Client, ClientAdd, ClientDel, NotifyWaits
<1>7. CASE Others
  BY <1>7 DEF Others, FdBecomesReady, ShellExits, FdGoesBad, fdeVars, NotifyWaits
<1>8. QED
  BY <1>3, <1>4, <1>5, <1>6, <1>7 DEF Next

-----------------------------------------------------------------------------
LEMMA InitHolds == Init => IInv /\ NotifyWaits
<1> SUFFICES ASSUME Init PROVE IInv /\ NotifyWaits
  OBVIOUS
<1>1. Blank \in FdeType /\ ~Blank.pending /\ ~Blank.active
      /\ NoCall \in [f : Fdes \cup {None}, ev : SUBSET Events]
  BY BoundAssumption DEF Blank, FdeType, Fds, NoCall
<1> HIDE DEF Blank, NoCall
<1>2. TypeOK
  BY <1>1, BoundAssumption DEF Init, TypeOK
<1>3. QED
  BY <1>1, <1>2, ConstantFacts DEF Init, IInv, TableMax, SlotsOwned, PendingIsActive,
     PendingHasEvents, PendingIsLinked, Linked, NotifyWaits

(* One step: the invariant is kept, and a callback that starts is live.    *)
LEMMA NextHolds ==
  ASSUME IInv, NotifyWaits, Next
  PROVE  /\ IInv' /\ NotifyWaits'
         /\ cur' # cur /\ cur'.f # None => fde[cur'.f].active /\ cur'.ev # {}
<1>1. NotifyWaits'
  BY NotifyWaitsStep
<1>2. CASE EnterLoop
  <2>1. IInv' /\ cur' = cur
    BY <1>2, EnterStep
  <2>2. QED
    BY <1>1, <2>1
<1>3. CASE Process
  <2>1. IInv' /\ cur' = cur
    BY <1>3, ProcessStep
  <2>2. QED
    BY <1>1, <2>1
<1>4. CASE Drain
  BY <1>1, <1>4, DrainStep
<1>5. CASE Client
  <2>1. IInv' /\ cur' = cur
    BY <1>5, ClientStep
  <2>2. QED
    BY <1>1, <2>1
<1>6. CASE ProcessInterrupted \/ ClientReturn \/ Others
  <2>1. IInv' /\ (cur' = cur \/ cur' = NoCall)
    BY <1>6, OtherStep
  <2>2. QED
    BY <1>1, <2>1 DEF NoCall
<1>7. QED
  BY <1>2, <1>3, <1>4, <1>5, <1>6 DEF Next

LEMMA StutterHolds ==
  ASSUME IInv, NotifyWaits, UNCHANGED vars
  PROVE  IInv' /\ NotifyWaits' /\ cur' = cur
<1>1. TypeOK'
  BY DEF vars, fdeVars, loopVars, envVars, IInv, TypeOK
<1>2. QED
  BY <1>1, QuietStep DEF vars, fdeVars, loopVars, NotifyWaits

LEMMA Inductive == Spec => [](IInv /\ NotifyWaits)
<1>1. IInv /\ NotifyWaits /\ [Next]_vars => (IInv /\ NotifyWaits)'
  BY NextHolds, StutterHolds
<1>2. QED
  BY <1>1, InitHolds, PTL DEF Spec

(* The state keeps its types, on every table size and with any callbacks.  *)
THEOREM TypeCorrect == Spec => []TypeOK
<1>1. IInv => TypeOK
  BY DEF IInv
<1>2. QED
  BY <1>1, Inductive, PTL

(* The PENDING bit says exactly which fdevents are on the list, each once. *)
THEOREM PendingLinked == Spec => []PendingIsLinked
<1>1. IInv => PendingIsLinked
  BY DEF IInv
<1>2. QED
  BY <1>1, Inductive, PTL

(* No fdevent waits on the list without an event to be called for.         *)
THEOREM PendingEvents == Spec => []PendingHasEvents
<1>1. IInv => PendingHasEvents
  BY DEF IInv
<1>2. QED
  BY <1>1, Inductive, PTL

(* A callback starts only for a registered fdevent, for at least one event.*)
THEOREM CallsLive == Spec => CallsOnlyLive
<1>1. IInv /\ NotifyWaits /\ [Next]_vars =>
        [cur' # cur /\ cur'.f # None => fde[cur'.f].active /\ cur'.ev # {}]_vars
  BY NextHolds, StutterHolds
<1>2. QED
  BY <1>1, Inductive, PTL DEF Spec, CallsOnlyLive

-----------------------------------------------------------------------------
(* The copies that the loop keeps, when memset reaches every new slot of   *)
(* fd_table: with pointers as wide as an int.                              *)

NoJunk == \A i \in DOMAIN fd_table : fd_table[i] # Junk

InTable ==
  \A f \in Fdes : fde[f].active =>
    fde[f].fd < TableMax /\ Entry(fde[f].fd) = f /\ fde[f].fd < select_n

(* The notification socket is the loop's own, and stays open.              *)
NotifyFdKept ==
  /\ pc # "setup" =>
       fde[Notify].active /\ fde[Notify].fd = NotifyFd /\ NotifyFd \in openFds
  /\ \A f \in Clients : fde[f].active => fde[f].fd # NotifyFd
  /\ NotifyFd \notin ready["R"]
  /\ \A i \in DOMAIN notes : notes[i].fd # NotifyFd

(* A read of the notification socket is on its way only with a note there. *)
NoteForRead ==
  /\ "R" \in fde[Notify].events => notes # << >> /\ pc \notin {"subproc", "note"}
  /\ pc = "subproc" /\ "R" \in cur.ev => notes # << >>
  /\ pc = "note" => notes # << >>

CopyInv ==
  /\ NoJunk /\ InTable /\ SetsAgree
  /\ NotifyFdKept /\ NoteForRead /\ NeverAborts

(* With every new slot cleared, no slot is bad.                            *)
LEMMA GrownClean ==
  ASSUME fd_table \in Seq(Fdes \cup {None, Junk}), NoJunk, PtrInts = 1, NEW fd \in Fds,
         NEW t \in Grown(fd)
  PROVE  \A i \in DOMAIN t : t[i] # Junk
<1>1. CASE fd < TableMax
  BY <1>1 DEF Grown, NoJunk
<1>2. CASE ~(fd < TableMax)
  <2> DEFINE n == GrownSize(fd)
             cleared == (n - TableMax) \div PtrInts
  <2>1. n \in Nat /\ TableMax \in Nat /\ DOMAIN fd_table = 1 .. TableMax
    BY GrowthAssumption DEF TableMax
  <2>2. PICK dirty \in SUBSET (TableMax + cleared + 1 .. n) :
          t = [i \in 1 .. n |-> IF i <= TableMax THEN fd_table[i]
                                ELSE IF i \in dirty THEN Junk ELSE None]
    BY <1>2 DEF Grown
  <2> HIDE DEF n
  <2>3. cleared = n - TableMax
    BY <2>1
  <2> HIDE DEF cleared
  <2>4. TableMax + cleared + 1 .. n = {}
    BY <2>1, <2>3
  <2>5. \A i \in 1 .. n : t[i] = IF i <= TableMax THEN fd_table[i] ELSE None
    BY <2>2, <2>4
  <2> QED
    BY <2>1, <2>2, <2>5 DEF NoJunk, None, Junk
<1> QED
  BY <1>1, <1>2

(* Descriptor i is asked for event e.                                      *)
Asks(i, e) == \E g \in Fdes : fde[g].active /\ e \in fde[g].want /\ fde[g].fd = i

LEMMA SetsAsk ==
  SetsAgree <=> \A e \in Events : \A i : i \in fd_sets[e] <=> Asks(i, e)
<1>1. ASSUME NEW e \in Events, NEW i
      PROVE  i \in {fde[f].fd : f \in {g \in Fdes : fde[g].active /\ e \in fde[g].want}}
             <=> Asks(i, e)
  BY DEF Asks
<1> QED
  BY <1>1 DEF SetsAgree

(* Two active fdevents have two descriptors.                               *)
LEMMA OwnDescriptor ==
  ASSUME InTable, NEW f \in Fdes, NEW g \in Fdes, fde[f].active, fde[g].active,
         fde[f].fd = fde[g].fd
  PROVE  f = g
BY DEF InTable

(* What no step but those of the interface changes.                        *)
SameUse ==
  /\ \A g \in Fdes : /\ fde'[g].active = fde[g].active
                     /\ fde'[g].fd = fde[g].fd
                     /\ fde'[g].want = fde[g].want
  /\ UNCHANGED <<fd_table, select_n, fd_sets>>

LEMMA UseKept ==
  ASSUME NoJunk, InTable, SetsAgree, SameUse
  PROVE  NoJunk' /\ InTable' /\ SetsAgree'
<1>1. NoJunk'
  BY DEF NoJunk, SameUse
<1>2. InTable'
  BY DEF InTable, SameUse, Entry, TableMax
<1>3. \A e \in Events : \A i : i \in fd_sets'[e] <=> Asks(i, e)'
  BY SetsAsk DEF SameUse, Asks
<1>4. (SetsAgree <=> \A e \in Events : \A i : i \in fd_sets[e] <=> Asks(i, e))'
  BY SetsAsk, PTL
<1> QED
  BY <1>1, <1>2, <1>3, <1>4

(* A new fdevent on a descriptor of its own, that wants nothing or, when   *)
(* it is the loop's, to be read.                                           *)
LEMMA RegisterCopies ==
  ASSUME IInv, NoJunk, InTable, SetsAgree, PtrInts = 1,
         NEW f \in Fdes, NEW fd \in Fds, NEW new \in FdeType,
         ~fde[f].active, \A g \in Fdes : fde[g].active => fde[g].fd # fd,
         new.active, new.fd = fd,
         NEW t \in Grown(fd),
         fd_table' = [t EXCEPT ![fd + 1] = f],
         select_n' = IF fd >= select_n THEN fd + 1 ELSE select_n,
         fde' = [fde EXCEPT ![f] = new],
         \A e \in Events :
           fd_sets'[e] = IF e \in new.want THEN fd_sets[e] \cup {fd} ELSE fd_sets[e]
  PROVE  NoJunk' /\ InTable' /\ SetsAgree'
<1>0. /\ fd_table \in Seq(Fdes \cup {None, Junk}) /\ fde \in [Fdes -> FdeType]
      /\ select_n \in 0 .. MaxFd + 1
  BY DEF IInv, TypeOK
<1>1. /\ t \in Seq(Fdes \cup {None, Junk}) /\ fd < Len(t) /\ TableMax <= Len(t)
      /\ \A i \in 1 .. TableMax : t[i] = fd_table[i]
  BY <1>0, GrownFacts
<1>2. /\ fd \in Nat /\ Len(t) \in Nat /\ DOMAIN t = 1 .. Len(t) /\ TableMax \in Nat
      /\ DOMAIN fd_table' = 1 .. Len(t) /\ TableMax' = Len(t) /\ MaxFd \in Nat
  BY <1>0, <1>1, BoundAssumption DEF Fds, TableMax
<1>3. \A i \in DOMAIN t : t[i] # Junk
  BY <1>0, GrownClean
<1>4. NoJunk'
  BY <1>2, <1>3, ConstantFacts DEF NoJunk
<1>5. /\ fde'[f] = new /\ \A g \in Fdes \ {f} : fde'[g] = fde[g]
  BY <1>0
<1>6. ASSUME NEW g \in Fdes, fde'[g].active
      PROVE  fde'[g].fd < TableMax' /\ fd_table'[fde'[g].fd + 1] = g /\ fde'[g].fd < select_n'
  <2>1. CASE g = f
    <3>1. fd + 1 \in DOMAIN t /\ fd < TableMax' /\ fd < select_n'
      BY <1>0, <1>1, <1>2
    <3> QED
      BY <2>1, <1>5, <3>1
  <2>2. CASE g # f
    <3>1. /\ fde'[g] = fde[g] /\ fde[g].active /\ fde[g].fd # fd
          /\ fde[g].fd \in Nat
          /\ fde[g].fd < TableMax /\ Entry(fde[g].fd) = g /\ fde[g].fd < select_n
      BY <2>2, <1>0, <1>5, <1>6, BoundAssumption DEF InTable, FdeType, Fds
    <3> DEFINE i == fde[g].fd
    <3> HIDE DEF i
    <3>2. i \in Nat /\ i < TableMax /\ i # fd /\ fd_table[i + 1] = g /\ i < select_n
      BY <3>1 DEF i, Entry
    <3>3. i + 1 \in 1 .. TableMax /\ i + 1 \in DOMAIN t /\ i + 1 # fd + 1
      BY <3>2, <1>1, <1>2
    <3>4. fd_table'[i + 1] = g
      BY <3>2, <3>3, <1>1
    <3>5. i < TableMax' /\ i < select_n'
      BY <3>2, <1>0, <1>1, <1>2
    <3> QED
      BY <3>1, <3>4, <3>5 DEF i
  <2> QED
    BY <2>1, <2>2
<1>7. InTable'
  BY <1>6 DEF InTable, Entry
<1>8. ASSUME NEW e \in Events, NEW i
      PROVE  i \in fd_sets'[e] <=> Asks(i, e)'
  <2>1. i \in fd_sets[e] <=> Asks(i, e)
    BY SetsAsk
  <2>2. Asks(i, e)' <=> Asks(i, e) \/ (i = fd /\ e \in new.want)
    BY <1>5 DEF Asks
  <2> QED
    BY <2>1, <2>2
<1>9. (SetsAgree <=> \A e \in Events : \A i : i \in fd_sets[e] <=> Asks(i, e))'
  BY SetsAsk, PTL
<1> QED
  BY <1>4, <1>7, <1>8, <1>9

(* Neither FATAL of fdevent_remove is reached.                             *)
LEMMA RemoveRuns ==
  ASSUME IInv, InTable, NEW f \in Fdes, fde[f].active, Remove(f)
  PROVE  /\ fde' = [fde EXCEPT ![f] = [@ EXCEPT !.active = FALSE, !.created = FALSE,
                        !.pending = FALSE, !.want = {}, !.events = {}]]
         /\ fd_sets' = Cleared(fde[f].fd)
         /\ select_n' \in Rescanned
         /\ fd_table' = [fd_table EXCEPT ![fde[f].fd + 1] = None]
         /\ openFds' = openFds \ {fde[f].fd}
         /\ ready' = [e \in Events |-> ready[e] \ {fde[f].fd}]
         /\ UNCHANGED <<notes, pc, cur, aborted>>
<1>1. /\ fde \in [Fdes -> FdeType] /\ fd_table \in Seq(Fdes \cup {None, Junk})
  BY DEF IInv, TypeOK
<1>2. fde[f].fd \in Nat /\ TableMax \in Nat
  BY <1>1, BoundAssumption DEF FdeType, Fds, TableMax
<1>3. fde[f].fd < TableMax /\ Entry(fde[f].fd) = f
  BY DEF InTable
<1>4. ~(\/ fde[f].pending /\ ~Linked(f)
        \/ fde[f].active /\ (fde[f].fd >= TableMax \/ Entry(fde[f].fd) # f))
  BY <1>2, <1>3 DEF IInv, PendingIsLinked
<1> QED
  BY <1>4 DEF Remove

(* The scan for select_n stops at the last slot in use, or before it.      *)
LEMMA RemoveCopies ==
  ASSUME IInv, NoJunk, InTable, SetsAgree, NEW f \in Fdes, fde[f].active,
         fde' = [fde EXCEPT ![f] = [@ EXCEPT !.active = FALSE, !.created = FALSE,
                        !.pending = FALSE, !.want = {}, !.events = {}]],
         fd_sets' = Cleared(fde[f].fd),
         select_n' \in Rescanned,
         fd_table' = [fd_table EXCEPT ![fde[f].fd + 1] = None]
  PROVE  NoJunk' /\ InTable' /\ SetsAgree'
<1> DEFINE fd == fde[f].fd
<1>0. /\ fd_table \in Seq(Fdes \cup {None, Junk}) /\ fde \in [Fdes -> FdeType]
      /\ select_n \in 0 .. MaxFd + 1 /\ select_n <= TableMax
  BY DEF IInv, TypeOK
<1>1. /\ fd \in Nat /\ fd < TableMax /\ TableMax \in Nat /\ fd < select_n
      /\ DOMAIN fd_table = 1 .. TableMax /\ fd + 1 \in DOMAIN fd_table
  BY <1>0, BoundAssumption DEF FdeType, Fds, TableMax, InTable
<1>2. /\ TableMax' = TableMax /\ DOMAIN fd_table' = 1 .. TableMax
      /\ fd_table'[fd + 1] = None
      /\ \A i \in 1 .. TableMax : i # fd + 1 => fd_table'[i] = fd_table[i]
  BY <1>0, <1>1 DEF TableMax
<1>3. /\ ~fde'[f].active /\ \A g \in Fdes \ {f} : fde'[g] = fde[g]
  BY <1>0 DEF FdeType
<1>4. NoJunk'
  BY <1>1, <1>2 DEF NoJunk, None, Junk
<1>5. PICK k \in Used \cup {0} : select_n' = k + 1 /\ \A j \in Used : j <= k
  BY DEF Rescanned
<1>6. k \in Nat
  BY <1>0, <1>5, BoundAssumption DEF Used
<1>7. ASSUME NEW g \in Fdes, fde'[g].active
      PROVE  fde'[g].fd < TableMax' /\ fd_table'[fde'[g].fd + 1] = g /\ fde'[g].fd < select_n'
  <2> DEFINE i == fde[g].fd
  <2>1. g # f /\ fde'[g] = fde[g] /\ fde[g].active
    BY <1>3, <1>7
  <2>2. i \in Nat /\ i < TableMax /\ fd_table[i + 1] = g /\ i < select_n /\ i # fd
    <3>1. i \in Nat
      BY <1>0, BoundAssumption DEF FdeType, Fds
    <3>2. i < TableMax /\ Entry(i) = g /\ i < select_n
      BY <2>1 DEF InTable
    <3>3. i # fd
      BY <2>1, OwnDescriptor
    <3> QED
      BY <3>1, <3>2, <3>3 DEF Entry
  <2> HIDE DEF i
  <2>3. i + 1 \in 1 .. TableMax /\ i + 1 # fd + 1
    BY <1>1, <2>2
  <2>4. fd_table'[i + 1] = g
    BY <1>2, <2>2, <2>3
  <2>5. i \in Used
    <3>1. i \in 0 .. select_n - 1
      BY <1>0, <2>2
    <3> QED
      BY <2>2, <3>1, ConstantFacts DEF Used, Entry
  <2>6. i < select_n'
    BY <1>5, <1>6, <2>2, <2>5
  <2> QED
    BY <1>2, <2>1, <2>2, <2>4, <2>6 DEF i
<1>8. InTable'
  BY <1>7 DEF InTable, Entry
<1>9. ASSUME NEW e \in Events, NEW i
      PROVE  i \in fd_sets'[e] <=> Asks(i, e)'
  <2>1. i \in fd_sets[e] <=> Asks(i, e)
    BY SetsAsk
  <2>2. fd_sets'[e] = fd_sets[e] \ {fd}
    BY DEF Cleared
  <2>3. \A g \in Fdes \ {f} : fde[g].active => fde[g].fd # fd
    BY OwnDescriptor
  <2>4. Asks(i, e)' <=> Asks(i, e) /\ i # fd
    BY <1>3, <2>3 DEF Asks
  <2> QED
    BY <2>1, <2>2, <2>4
<1>10. (SetsAgree <=> \A e \in Events : \A i : i \in fd_sets[e] <=> Asks(i, e))'
  BY SetsAsk, PTL
<1> QED
  BY <1>4, <1>8, <1>9, <1>10

(* A new mask.                                                             *)
LEMMA SetMaskCopies ==
  ASSUME IInv, NoJunk, InTable, SetsAgree, NEW f \in Fdes, fde[f].active,
         NEW mask \in SUBSET Events, NEW next, SetMask(f, mask, next)
  PROVE  /\ NoJunk' /\ InTable' /\ SetsAgree' /\ aborted' = aborted
         /\ \A g \in Fdes : /\ fde'[g].active = fde[g].active /\ fde'[g].fd = fde[g].fd
                            /\ g # f => fde'[g] = fde[g]
         /\ fde'[f].events \subseteq fde[f].events
         /\ pc' = next /\ UNCHANGED <<envVars, cur>>
<1> DEFINE left == fde[f].events \ mask
           drop == Drops(f, mask)
           events == IF fde[f].pending THEN left ELSE fde[f].events
           pending == fde[f].pending /\ ~drop
<1>0. /\ fde \in [Fdes -> FdeType] /\ fde[f] \in FdeType
      /\ fd_table \in Seq(Fdes \cup {None, Junk})
  BY DEF IInv, TypeOK
<1>1. CASE /\ pc' = next /\ UNCHANGED <<fdeVars, loopVars, envVars, cur, aborted>>
  <2>1. SameUse
    BY <1>1 DEF SameUse, fdeVars, loopVars
  <2>2. UNCHANGED fde
    BY <1>1 DEF fdeVars
  <2> QED
    BY <1>1, <2>1, <2>2, UseKept
<1>2. CASE /\ fd_sets' = [e \in Events |->
                IF e \in mask THEN fd_sets[e] \cup {fde[f].fd}
                              ELSE fd_sets[e] \ {fde[f].fd}]
           /\ fde' = [fde EXCEPT ![f] = [@ EXCEPT !.want = mask, !.events = events,
                                                  !.pending = pending]]
           /\ pc' = next
           /\ UNCHANGED <<heap, fd_table, select_n, envVars, cur, aborted>>
  <2>1. events \subseteq fde[f].events /\ pending \in BOOLEAN
    OBVIOUS
  <2> HIDE DEF events, pending
  <2>2. /\ fde'[f].active = fde[f].active /\ fde'[f].fd = fde[f].fd
        /\ fde'[f].want = mask /\ fde'[f].events = events
        /\ \A g \in Fdes \ {f} : fde'[g] = fde[g]
    BY <1>0, <1>2 DEF FdeType
  <2>3. \A g \in Fdes : fde'[g].active = fde[g].active /\ fde'[g].fd = fde[g].fd
    BY <2>2
  <2>4. NoJunk' /\ InTable'
    BY <1>2, <2>3 DEF NoJunk, InTable, Entry, TableMax
  <2>5. ASSUME NEW e \in Events, NEW i
        PROVE  i \in fd_sets'[e] <=> Asks(i, e)'
    <3>1. i \in fd_sets[e] <=> Asks(i, e)
      BY SetsAsk
    <3>2. \A g \in Fdes \ {f} : fde[g].active => fde[g].fd # fde[f].fd
      BY OwnDescriptor
    <3>3. fd_sets'[e] = IF e \in mask THEN fd_sets[e] \cup {fde[f].fd}
                                      ELSE fd_sets[e] \ {fde[f].fd}
      BY <1>2
    <3>4. CASE i = fde[f].fd
      <4>1. Asks(i, e)' <=> e \in mask
        BY <2>2, <3>2, <3>4 DEF Asks
      <4> QED
        BY <3>3, <3>4, <4>1
    <3>5. CASE i # fde[f].fd
      <4>1. Asks(i, e)' <=> Asks(i, e)
        BY <2>2, <3>5 DEF Asks
      <4> QED
        BY <3>1, <3>3, <3>5, <4>1
    <3> QED
      BY <3>4, <3>5
  <2>6. (SetsAgree <=> \A e \in Events : \A i : i \in fd_sets[e] <=> Asks(i, e))'
    BY SetsAsk, PTL
  <2> QED
    BY <1>2, <2>1, <2>2, <2>3, <2>4, <2>5, <2>6
<1>3. drop => Linked(f)
  BY DEF Drops, IInv, PendingIsLinked
<1> QED
  BY <1>1, <1>2, <1>3 DEF SetMask

(* Steps of the loop, of clients and of other processes that leave the     *)
(* fdevents and the loop's variables alone.                                *)
LEMMA QuietCopies ==
  ASSUME IInv, CopyInv,
         \/ TurnEnds \/ ProcessInterrupted \/ ClientReturn \/ Others
         \/ (\E e \in Events : ClientConsume(e))
         \/ UNCHANGED vars
  PROVE  CopyInv'
<1>0. /\ \A e \in Events : ready[e] \in SUBSET Fds /\ "R" \in Events
      /\ ready \in [Events -> SUBSET Fds]
      /\ notes \in Seq([fd : Fds, owner : Clients]) /\ Clients \subseteq Fdes
      /\ Notify \in Fdes
  BY ConstantFacts DEF IInv, TypeOK, Events
<1>1. UNCHANGED <<fde, fd_table, select_n, fd_sets, aborted>>
  BY DEF TurnEnds, ProcessInterrupted, ClientReturn, ClientConsume, Others, FdBecomesReady,
     ShellExits, FdGoesBad, vars, fdeVars, loopVars
<1>2. NoJunk' /\ InTable' /\ SetsAgree' /\ NeverAborts'
  <2>1. SameUse
    BY <1>1 DEF SameUse
  <2> QED
    BY <1>1, <2>1, UseKept DEF CopyInv, NeverAborts
<1>3. /\ pc' = "setup" <=> pc = "setup"
      /\ pc' \in {"subproc", "note"} => pc' = pc /\ cur' = cur
  BY DEF TurnEnds, ProcessInterrupted, ClientReturn, ClientConsume, Others, FdBecomesReady,
     ShellExits, FdGoesBad, vars
<1>4. /\ NotifyFd \in openFds => NotifyFd \in openFds'
      /\ NotifyFd \notin ready'["R"]
  <2>1. NotifyFd \notin ready["R"]
    BY DEF CopyInv, NotifyFdKept
  <2>2. CASE UNCHANGED <<openFds, ready>>
    BY <2>1, <2>2
  <2>3. CASE \E e \in Events : ClientConsume(e)
    BY <1>0, <2>1, <2>3 DEF ClientConsume
  <2>4. CASE \E i \in Fds, e \in Events : FdBecomesReady(i, e)
    BY <1>0, <2>1, <2>4 DEF FdBecomesReady
  <2>5. CASE \E i \in Fds : FdGoesBad(i)
    BY <1>0, <2>1, <2>5 DEF FdGoesBad
  <2> QED
    BY <2>2, <2>3, <2>4, <2>5 DEF TurnEnds, ProcessInterrupted, ClientReturn, Others,
       ShellExits, vars, envVars
<1>5. /\ notes # << >> => notes' # << >>
      /\ \A i \in DOMAIN notes' : notes'[i].fd # NotifyFd
  <2>1. \A i \in DOMAIN notes : notes[i].fd # NotifyFd
    BY DEF CopyInv, NotifyFdKept
  <2>2. CASE UNCHANGED notes
    BY <2>1, <2>2
  <2>3. ASSUME NEW f \in Clients, ShellExits(f)
        PROVE  notes' # << >> /\ \A i \in DOMAIN notes' : notes'[i].fd # NotifyFd
    <3>1. fde[f].active /\ fde[f].fd # NotifyFd /\ fde[f].fd \in Fds
      BY <1>0, <2>3 DEF ShellExits, CopyInv, NotifyFdKept, IInv, TypeOK, FdeType
    <3> DEFINE note == [fd |-> fde[f].fd, owner |-> f]
    <3>2. notes' = Append(notes, note) /\ note.fd # NotifyFd
          /\ note \in [fd : Fds, owner : Clients]
      BY <2>3, <3>1 DEF ShellExits
    <3> HIDE DEF note
    <3>3. /\ DOMAIN notes' = 1 .. Len(notes) + 1 /\ DOMAIN notes = 1 .. Len(notes)
          /\ Len(notes) \in Nat
          /\ \A i \in 1 .. Len(notes) : notes'[i] = notes[i]
          /\ notes'[Len(notes) + 1] = note
      BY <1>0, <3>2
    <3>4. \A i \in 1 .. Len(notes) + 1 : i \in 1 .. Len(notes) \/ i = Len(notes) + 1
      BY <3>3
    <3>5. notes' # << >>
      BY <1>0, <3>2
    <3> QED
      BY <2>1, <3>2, <3>3, <3>4, <3>5
  <2> QED
    BY <2>2, <2>3 DEF TurnEnds, ProcessInterrupted, ClientReturn, ClientConsume, Others,
       FdBecomesReady, FdGoesBad, vars, envVars
<1>6. NotifyFdKept'
  BY <1>1, <1>3, <1>4, <1>5 DEF CopyInv, NotifyFdKept
<1>7. NoteForRead'
  BY <1>1, <1>3, <1>5 DEF CopyInv, NoteForRead
<1> QED
  BY <1>2, <1>6, <1>7 DEF CopyInv

LEMMA EnterCopies ==
  ASSUME IInv, CopyInv, NotifyWaits, PtrInts = 1, EnterLoop
  PROVE  CopyInv'
<1> DEFINE new == [Blank EXCEPT !.fd = NotifyFd, !.active = TRUE,
                                !.created = TRUE, !.want = {"R"}]
<1>1. PICK t \in Grown(NotifyFd) : fd_table' = [t EXCEPT ![NotifyFd + 1] = Notify]
  BY DEF EnterLoop
<1>2. /\ ~fde[Notify].active /\ pc = "setup"
      /\ select_n' = IF NotifyFd >= select_n THEN NotifyFd + 1 ELSE select_n
      /\ fde' = [fde EXCEPT ![Notify] = new]
      /\ fd_sets' = [fd_sets EXCEPT !["R"] = @ \cup {NotifyFd}]
      /\ openFds' = openFds \cup {NotifyFd} /\ pc' = "select"
      /\ UNCHANGED <<ready, notes, aborted>>
  BY DEF EnterLoop, NotifyWaits
<1>3. new \in FdeType /\ new.active /\ new.fd = NotifyFd /\ new.want = {"R"} /\ new.events = {}
  BY ConstantFacts DEF Blank, FdeType, Events
<1> HIDE DEF new
<1>4. \A g \in Fdes : fde[g].active => fde[g].fd # NotifyFd
  BY <1>2 DEF CopyInv, NotifyFdKept, Fdes
<1>5. \A e \in Events :
        fd_sets'[e] = IF e \in new.want THEN fd_sets[e] \cup {NotifyFd} ELSE fd_sets[e]
  <2>1. fd_sets \in [Events -> SUBSET Fds]
    BY DEF IInv, TypeOK
  <2> QED
    BY <1>2, <1>3, <2>1
<1>6. NoJunk' /\ InTable' /\ SetsAgree'
  <2>1. IInv /\ NoJunk /\ InTable /\ SetsAgree /\ Notify \in Fdes /\ NotifyFd \in Fds
    BY ConstantFacts DEF CopyInv
  <2>2. /\ ~fde[Notify].active /\ fde' = [fde EXCEPT ![Notify] = new]
        /\ select_n' = IF NotifyFd >= select_n THEN NotifyFd + 1 ELSE select_n
    BY <1>2
  <2>3. new \in FdeType /\ new.active /\ new.fd = NotifyFd
    BY <1>3
  <2> QED
    BY <1>1, <1>4, <1>5, <2>1, <2>2, <2>3, RegisterCopies
<1>7. /\ fde'[Notify] = new /\ \A g \in Clients : fde'[g] = fde[g]
  BY <1>2, ConstantFacts, ObjectAssumption DEF IInv, TypeOK
<1>8. NotifyFdKept'
  BY <1>2, <1>3, <1>7 DEF CopyInv, NotifyFdKept
<1>9. NoteForRead'
  BY <1>2, <1>3, <1>7 DEF NoteForRead
<1> QED
  BY <1>2, <1>6, <1>8, <1>9 DEF CopyInv, NeverAborts

(* A scan meets registered fdevents only.                                  *)
LEMMA ScanCopies ==
  ASSUME IInv, CopyInv, NEW bits \in [Events -> SUBSET Fds],
         \A e \in Events : \A i \in bits[e] : i < select_n /\ Entry(i) \in Fdes,
         NotifyFd \in bits["R"] => notes # << >>,
         pc = "select", Scan(bits)
  PROVE  CopyInv'
<1> DEFINE hit == UNION {bits[e] : e \in Events}
           hitFdes == {Entry(i) : i \in hit}
<1>1. hitFdes \subseteq Fdes
  OBVIOUS
<1>2. /\ fde' = [f \in Fdes |->
             IF f \in hitFdes
             THEN [fde[f] EXCEPT !.pending = TRUE,
                     !.events = @ \cup {e \in Events : fde[f].fd \in bits[e]}]
             ELSE fde[f]]
      /\ pc' = "drain"
      /\ UNCHANGED <<fd_table, select_n, fd_sets, envVars, aborted>>
  BY <1>1 DEF Scan
<1> HIDE DEF hitFdes, hit
<1>3. \A f \in Fdes : /\ fde'[f].active = fde[f].active
                      /\ fde'[f].fd = fde[f].fd
                      /\ fde'[f].want = fde[f].want
  BY <1>2 DEF IInv, TypeOK, FdeType
<1>4. NoJunk' /\ InTable' /\ SetsAgree'
  <2>1. SameUse
    BY <1>2, <1>3 DEF SameUse
  <2> QED
    BY <2>1, UseKept DEF CopyInv
<1>5. NotifyFdKept'
  BY <1>2, <1>3, ConstantFacts DEF CopyInv, NotifyFdKept, envVars
<1>6. "R" \in fde'[Notify].events => notes # << >>
  <2>1. Notify \in Fdes /\ fde[Notify] \in FdeType /\ fde[Notify].fd = NotifyFd
    BY ConstantFacts DEF IInv, TypeOK, CopyInv, NotifyFdKept
  <2> DEFINE more == {e \in Events : fde[Notify].fd \in bits[e]}
  <2>2. "R" \in more => notes # << >>
    BY <2>1
  <2>3. CASE Notify \in hitFdes
    <3>1. fde'[Notify] = [fde[Notify] EXCEPT !.pending = TRUE, !.events = @ \cup more]
      BY <1>2, <2>1, <2>3
    <3> HIDE DEF more
    <3>2. fde'[Notify].events = fde[Notify].events \cup more
      BY <2>1, <3>1 DEF FdeType
    <3> QED
      BY <2>2, <3>2 DEF CopyInv, NoteForRead
  <2>4. CASE Notify \notin hitFdes
    BY <1>2, <2>1, <2>4 DEF CopyInv, NoteForRead
  <2> QED
    BY <2>3, <2>4
<1>7. NoteForRead'
  BY <1>2, <1>6 DEF NoteForRead, envVars
<1> QED
  BY <1>2, <1>4, <1>5, <1>7 DEF CopyInv, NeverAborts

LEMMA ProcessCopies ==
  ASSUME IInv, CopyInv, Process
  PROVE  CopyInv'
<1>0. select_n \in 0 .. MaxFd + 1 /\ MaxFd \in Nat /\ fd_sets \in [Events -> SUBSET Fds]
      /\ select_n <= TableMax /\ fd_table \in Seq(Fdes \cup {None, Junk})
  BY BoundAssumption DEF IInv, TypeOK
<1>1. CASE ProcessReady
  <2> DEFINE bits == [e \in Events |-> Selected(e)]
  <2>1. bits \in [Events -> SUBSET Fds] /\ pc = "select" /\ Scan(bits)
    BY <1>0, <1>1 DEF Selected, ProcessReady
  <2>2. ASSUME NEW e \in Events, NEW i \in bits[e]
        PROVE  i < select_n /\ Entry(i) \in Fdes
    <3>1. i < select_n /\ i \in fd_sets[e]
      BY DEF Selected
    <3>2. PICK g \in Fdes : fde[g].active /\ fde[g].fd = i
      BY <3>1, SetsAsk DEF CopyInv, Asks
    <3> QED
      BY <3>1, <3>2 DEF CopyInv, InTable
  <2>3. NotifyFd \in bits["R"] => notes # << >>
    BY DEF Selected, IsReady, CopyInv, NotifyFdKept, Events
  <2> HIDE DEF bits
  <2> QED
    BY <2>1, <2>2, <2>3, ScanCopies
<1>2. CASE ProcessBadFd
  <2> DEFINE bits == [e \in Events |-> IF e = "R" THEN BadSlots ELSE {}]
  <2>1. BadSlots \subseteq Fds
    BY <1>0 DEF BadSlots, Fds
  <2>2. bits \in [Events -> SUBSET Fds] /\ pc = "select" /\ Scan(bits)
    BY <1>2, <2>1 DEF ProcessBadFd
  <2>3. ASSUME NEW i \in BadSlots PROVE i < select_n /\ Entry(i) \in Fdes
    <3>1. i \in 0 .. select_n - 1 /\ Entry(i) # None
      BY DEF BadSlots
    <3>2. i < select_n /\ i + 1 \in DOMAIN fd_table
      BY <1>0, <3>1 DEF TableMax
    <3> QED
      BY <1>0, <3>1, <3>2 DEF CopyInv, NoJunk, Entry
  <2>4. NotifyFd \notin bits["R"]
    BY <2>2 DEF BadSlots, CopyInv, NotifyFdKept, Events
  <2>5. \A e \in Events : \A i \in bits[e] : i < select_n /\ Entry(i) \in Fdes
    BY <2>3
  <2> HIDE DEF bits
  <2> QED
    BY <2>2, <2>4, <2>5, ScanCopies
<1> QED
  BY <1>1, <1>2 DEF Process

LEMMA DispatchCopies ==
  ASSUME IInv, CopyInv, Dispatch
  PROVE  CopyInv'
<1> DEFINE f == Head(list_pending)
<1>0. /\ list_pending \in Seq(Fdes) /\ list_pending # << >>
      /\ fde \in [Fdes -> FdeType] /\ pc = "drain" /\ Notify \in Fdes
      /\ \A g \in Clients : g \in Fdes
  BY ConstantFacts DEF Dispatch, IInv, TypeOK
<1>1. f \in Fdes
  BY <1>0
<1>2. /\ fde' = [fde EXCEPT ![f] = [@ EXCEPT !.events = {}, !.pending = FALSE]]
      /\ \/ cur' = [f |-> f, ev |-> fde[f].events]
            /\ pc' = IF f = Notify THEN "subproc" ELSE "client"
         \/ UNCHANGED <<cur, pc>>
      /\ UNCHANGED <<fd_table, select_n, fd_sets, envVars, aborted>>
  BY DEF Dispatch
<1> HIDE DEF f
<1>3. \A g \in Fdes : /\ fde'[g].active = fde[g].active
                      /\ fde'[g].fd = fde[g].fd
                      /\ fde'[g].want = fde[g].want
                      /\ g # f => fde'[g] = fde[g]
                      /\ g = f => fde'[g].events = {}
  BY <1>0, <1>1, <1>2 DEF FdeType
<1>4. NoJunk' /\ InTable' /\ SetsAgree'
  <2>1. SameUse
    BY <1>2, <1>3 DEF SameUse
  <2> QED
    BY <2>1, UseKept DEF CopyInv
<1>5. NotifyFdKept'
  <2>1. pc # "setup" /\ pc' # "setup"
    BY <1>0, <1>2
  <2> QED
    BY <1>0, <1>2, <1>3, <2>1 DEF CopyInv, NotifyFdKept, envVars
<1>6. NoteForRead'
  <2>1. UNCHANGED notes
    BY <1>2 DEF envVars
  <2>2. "R" \in fde[Notify].events => notes # << >>
    BY DEF CopyInv, NoteForRead
  <2>3. CASE f = Notify
    <3>1. "R" \notin fde'[Notify].events
      BY <1>0, <1>3, <2>3
    <3>2. pc' # "note" /\ (pc' = "subproc" => cur'.ev = fde[Notify].events)
      BY <1>0, <1>2, <2>3
    <3> QED
      BY <2>1, <2>2, <3>1, <3>2 DEF NoteForRead
  <2>4. CASE f # Notify
    <3>1. fde'[Notify] = fde[Notify] /\ pc' \notin {"subproc", "note"}
      BY <1>0, <1>2, <1>3, <2>4
    <3> QED
      BY <2>1, <2>2, <3>1 DEF NoteForRead
  <2> QED
    BY <2>3, <2>4
<1> QED
  BY <1>2, <1>4, <1>5, <1>6 DEF CopyInv, NeverAborts

LEMMA HookCopies ==
  ASSUME IInv, CopyInv, SubprocHook
  PROVE  CopyInv'
<1> DEFINE mask == fde[Notify].want \cup {"R"}
           next == IF "R" \in cur.ev THEN "note" ELSE "drain"
<1>1. Notify \in Fdes /\ fde[Notify].active /\ pc = "subproc"
      /\ \A g \in Clients : g \in Fdes
  BY ConstantFacts DEF SubprocHook, CopyInv, NotifyFdKept
<1>2. SetMask(Notify, mask, next)
  BY DEF SubprocHook
<1>3. mask \in SUBSET Events
  BY <1>1 DEF IInv, TypeOK, FdeType, Events
<1>4. next = "note" => notes # << >>
  BY <1>1 DEF CopyInv, NoteForRead
<1>5. next # "setup" /\ next # "subproc"
  OBVIOUS
<1> HIDE DEF mask, next
<1>6. /\ NoJunk' /\ InTable' /\ SetsAgree' /\ aborted' = aborted
      /\ \A g \in Fdes : /\ fde'[g].active = fde[g].active /\ fde'[g].fd = fde[g].fd
                         /\ g # Notify => fde'[g] = fde[g]
      /\ fde'[Notify].events \subseteq fde[Notify].events
      /\ pc' = next /\ UNCHANGED <<envVars, cur>>
  BY <1>1, <1>2, <1>3, SetMaskCopies DEF CopyInv
<1>7. NotifyFdKept'
  BY <1>1, <1>5, <1>6 DEF CopyInv, NotifyFdKept, envVars
<1>8. NoteForRead'
  BY <1>1, <1>4, <1>5, <1>6 DEF CopyInv, NoteForRead, envVars
<1> QED
  BY <1>6, <1>7, <1>8 DEF CopyInv, NeverAborts

(* A note never names the descriptor of the notification socket itself.    *)
LEMMA NoteCopies ==
  ASSUME IInv, CopyInv, SubprocNote
  PROVE  CopyInv'
<1> DEFINE fd == Head(notes).fd
           f == Entry(fd)
           found == fd < TableMax /\ f # None
<1>0. /\ fde \in [Fdes -> FdeType] /\ fd_table \in Seq(Fdes \cup {None, Junk})
      /\ notes \in Seq([fd : Fds, owner : Clients]) /\ Notify \in Fdes
      /\ pc = "note" /\ notes # << >> /\ \A g \in Clients : g \in Fdes
  BY ConstantFacts DEF IInv, TypeOK, SubprocNote, CopyInv, NoteForRead
<1>1. Head(notes) = notes[1] /\ 1 \in DOMAIN notes /\ Head(notes) \in [fd : Fds, owner : Clients]
  <2>1. notes \in Seq([fd : Fds, owner : Clients]) /\ notes # << >>
    BY <1>0
  <2>2. Head(notes) \in [fd : Fds, owner : Clients]
    BY <2>1, HeadTailType
  <2> DEFINE Note == [fd : Fds, owner : Clients]
  <2> HIDE DEF Note
  <2>3. notes \in Seq(Note) /\ notes # << >>
    BY <2>1 DEF Note
  <2>4. Head(notes) = notes[1] /\ 1 \in DOMAIN notes
    BY <2>3
  <2> QED
    BY <2>2, <2>4
<1>2. fd \in Nat /\ fd # NotifyFd
  BY <1>1, BoundAssumption DEF Fds, CopyInv, NotifyFdKept
<1>3. found => f \in Fdes
  <2> SUFFICES ASSUME found PROVE f \in Fdes
    OBVIOUS
  <2> HIDE DEF fd
  <2>1. fd + 1 \in DOMAIN fd_table
    BY <1>0, <1>2 DEF TableMax
  <2> QED
    BY <1>0, <2>1 DEF CopyInv, NoJunk, Entry
<1>4. ~(found /\ f = Junk)
  BY <1>3, ConstantFacts
<1>5. /\ IF found /\ fde[f].fd = fd THEN ForceEof(fd) ELSE NothingFound
      /\ notes' = Tail(notes)
      /\ UNCHANGED <<heap, loopVars, openFds, ready, aborted>>
  BY <1>0, <1>4 DEF SubprocNote
<1>6. /\ \A g \in Fdes : /\ fde'[g].active = fde[g].active
                         /\ fde'[g].fd = fde[g].fd
                         /\ fde'[g].want = fde[g].want
      /\ fde'[Notify].events = fde[Notify].events
      /\ pc' \in {"drain", "client"}
  <2>1. CASE NothingFound
    BY <2>1 DEF NothingFound
  <2>2. CASE found /\ fde[f].fd = fd /\ ForceEof(fd)
    <3>1. f \in Fdes /\ f # Notify
      BY <1>0, <1>2, <1>3, <2>2 DEF CopyInv, NotifyFdKept
    <3>2. /\ \/ fde' = [fde EXCEPT ![f].force_eof = TRUE]
             \/ fde' = [[fde EXCEPT ![f].force_eof = TRUE] EXCEPT ![f].events = @ \cup {"R"}]
             \/ fde' = [[fde EXCEPT ![f].force_eof = TRUE] EXCEPT ![f].events = {}]
          /\ pc' \in {"drain", "client"}
      BY <2>2 DEF ForceEof
    <3> HIDE DEF f, fd, found
    <3>3. fde[f] \in FdeType
      BY <1>0, <3>1
    <3>4. \A g \in Fdes \ {f} : fde'[g] = fde[g]
      BY <1>0, <3>1, <3>2
    <3>5. /\ fde'[f].active = fde[f].active /\ fde'[f].fd = fde[f].fd
          /\ fde'[f].want = fde[f].want
      <4>1. CASE fde' = [fde EXCEPT ![f].force_eof = TRUE]
        BY <1>0, <3>1, <3>3, <4>1 DEF FdeType
      <4>2. CASE fde' = [[fde EXCEPT ![f].force_eof = TRUE] EXCEPT ![f].events = @ \cup {"R"}]
        BY <1>0, <3>1, <3>3, <4>2 DEF FdeType
      <4>3. CASE fde' = [[fde EXCEPT ![f].force_eof = TRUE] EXCEPT ![f].events = {}]
        BY <1>0, <3>1, <3>3, <4>3 DEF FdeType
      <4> QED
        BY <3>2, <4>1, <4>2, <4>3
    <3> QED
      BY <1>0, <3>1, <3>2, <3>4, <3>5
  <2> QED
    BY <1>5, <2>1, <2>2
<1>7. NoJunk' /\ InTable' /\ SetsAgree'
  <2>1. SameUse
    BY <1>5, <1>6 DEF SameUse, loopVars
  <2> QED
    BY <2>1, UseKept DEF CopyInv
<1>8. \A i \in DOMAIN notes' : notes'[i].fd # NotifyFd
  <2>1. /\ Len(notes) \in Nat \ {0} /\ DOMAIN notes' = 1 .. Len(notes) - 1
        /\ DOMAIN notes = 1 .. Len(notes)
        /\ \A i \in 1 .. Len(notes) - 1 : notes'[i] = notes[i + 1]
    BY <1>0, <1>5
  <2>2. \A i \in 1 .. Len(notes) - 1 : i + 1 \in 1 .. Len(notes)
    BY <2>1
  <2> QED
    BY <2>1, <2>2 DEF CopyInv, NotifyFdKept
<1> HIDE DEF f, fd, found
<1>9. NotifyFdKept'
  <2>1. pc # "setup" /\ pc' # "setup"
    BY <1>0, <1>6
  <2> QED
    BY <1>0, <1>5, <1>6, <1>8, <2>1 DEF CopyInv, NotifyFdKept
<1>10. NoteForRead'
  BY <1>0, <1>6 DEF CopyInv, NoteForRead
<1> QED
  BY <1>5, <1>7, <1>9, <1>10 DEF CopyInv, NeverAborts

-----------------------------------------------------------------------------
(* Calls of clients.                                                       *)

LEMMA InstallCopies ==
  ASSUME IInv, CopyInv, PtrInts = 1, NEW f \in Clients, NEW fd \in Fds, ClientInstall(f, fd)
  PROVE  CopyInv'
<1> DEFINE mallocd == f \in Malloced
           new == [Blank EXCEPT !.fd = fd, !.active = TRUE, !.created = mallocd]
<1>1. PICK t \in Grown(fd) : fd_table' = [t EXCEPT ![fd + 1] = f]
  BY DEF ClientInstall, Register
<1>2. /\ ~fde[f].active /\ fd # NotifyFd
      /\ \A g \in Fdes : fde[g].active => fde[g].fd # fd
      /\ select_n' = IF fd >= select_n THEN fd + 1 ELSE select_n
      /\ fde' = [fde EXCEPT ![f] = new]
      /\ openFds' = openFds \cup {fd}
      /\ UNCHANGED <<fd_sets, ready, notes, pc, cur, aborted>>
  BY DEF ClientInstall, Register
<1>3. new \in FdeType /\ new.active /\ new.fd = fd /\ new.want = {}
  <2>1. mallocd \in BOOLEAN
    OBVIOUS
  <2> HIDE DEF mallocd
  <2> QED
    BY <2>1 DEF Blank, FdeType
<1> HIDE DEF new
<1>4. /\ f \in Fdes /\ f # Notify /\ Notify \in Fdes /\ fde \in [Fdes -> FdeType]
      /\ \A g \in Clients : g \in Fdes
  BY ConstantFacts, ObjectAssumption DEF IInv, TypeOK
<1>5. NoJunk' /\ InTable' /\ SetsAgree'
  <2>1. IInv /\ NoJunk /\ InTable /\ SetsAgree
    BY DEF CopyInv
  <2>2. \A e \in Events :
          fd_sets'[e] = IF e \in new.want THEN fd_sets[e] \cup {fd} ELSE fd_sets[e]
    BY <1>2, <1>3
  <2> QED
    BY <1>1, <1>2, <1>3, <1>4, <2>1, <2>2, RegisterCopies
<1>6. fde'[f] = new /\ \A g \in Fdes \ {f} : fde'[g] = fde[g]
  BY <1>2, <1>4
<1>7. NotifyFdKept'
  BY <1>2, <1>3, <1>4, <1>6 DEF CopyInv, NotifyFdKept
<1>8. NoteForRead'
  BY <1>2, <1>4, <1>6 DEF CopyInv, NoteForRead
<1> QED
  BY <1>2, <1>5, <1>7, <1>8 DEF CopyInv, NeverAborts

LEMMA ClientRemoveCopies ==
  ASSUME IInv, CopyInv, NEW f \in Clients, ClientRemove(f)
  PROVE  CopyInv'
<1>1. /\ f \in Fdes /\ f # Notify /\ Notify \in Fdes /\ fde \in [Fdes -> FdeType]
      /\ \A g \in Clients : g \in Fdes
      /\ fde[f].active /\ Remove(f) /\ ready \in [Events -> SUBSET Fds] /\ "R" \in Events
  BY ConstantFacts, ObjectAssumption DEF IInv, TypeOK, ClientRemove, Events
<1>2. /\ fde' = [fde EXCEPT ![f] = [@ EXCEPT !.active = FALSE, !.created = FALSE,
                        !.pending = FALSE, !.want = {}, !.events = {}]]
      /\ fd_sets' = Cleared(fde[f].fd)
      /\ select_n' \in Rescanned
      /\ fd_table' = [fd_table EXCEPT ![fde[f].fd + 1] = None]
      /\ openFds' = openFds \ {fde[f].fd}
      /\ ready' = [e \in Events |-> ready[e] \ {fde[f].fd}]
      /\ UNCHANGED <<notes, pc, cur, aborted>>
  BY <1>1, RemoveRuns DEF CopyInv
<1>3. NoJunk' /\ InTable' /\ SetsAgree'
  BY <1>1, <1>2, RemoveCopies DEF CopyInv
<1>4. ~fde'[f].active /\ \A g \in Fdes \ {f} : fde'[g] = fde[g]
  BY <1>1, <1>2 DEF FdeType
<1>5. fde[f].fd # NotifyFd
  BY <1>1 DEF CopyInv, NotifyFdKept
<1>6. ready'["R"] \subseteq ready["R"]
  BY <1>1, <1>2
<1>7. NotifyFdKept'
  BY <1>1, <1>2, <1>4, <1>5, <1>6 DEF CopyInv, NotifyFdKept
<1>8. NoteForRead'
  BY <1>1, <1>2, <1>4 DEF CopyInv, NoteForRead
<1> QED
  BY <1>2, <1>3, <1>7, <1>8 DEF CopyInv, NeverAborts

LEMMA ClientSetCopies ==
  ASSUME IInv, CopyInv, NEW f \in Clients, NEW mask \in SUBSET Events, ClientSet(f, mask)
  PROVE  CopyInv'
<1>1. /\ f \in Fdes /\ f # Notify /\ Notify \in Fdes /\ \A g \in Clients : g \in Fdes
      /\ fde[f].active /\ SetMask(f, mask, pc)
  BY ConstantFacts, ObjectAssumption DEF ClientSet
<1>2. /\ NoJunk' /\ InTable' /\ SetsAgree' /\ aborted' = aborted
      /\ \A g \in Fdes : /\ fde'[g].active = fde[g].active /\ fde'[g].fd = fde[g].fd
                         /\ g # f => fde'[g] = fde[g]
      /\ pc' = pc /\ UNCHANGED <<envVars, cur>>
  BY <1>1, SetMaskCopies DEF CopyInv
<1>3. NotifyFdKept'
  BY <1>1, <1>2 DEF CopyInv, NotifyFdKept, envVars
<1>4. NoteForRead'
  BY <1>1, <1>2 DEF CopyInv, NoteForRead, envVars
<1> QED
  BY <1>2, <1>3, <1>4 DEF CopyInv, NeverAborts

LEMMA ClientCopies ==
  ASSUME IInv, CopyInv, PtrInts = 1, Client
  PROVE  CopyInv'
<1>1. ASSUME NEW f \in Clients, NEW m \in SUBSET Events,
             ClientAdd(f, m) \/ ClientDel(f, m)
      PROVE  CopyInv'
  <2>1. fde[f].want \in SUBSET Events
    BY ConstantFacts DEF IInv, TypeOK, FdeType
  <2>2. fde[f].want \cup m \in SUBSET Events /\ fde[f].want \ m \in SUBSET Events
    BY <2>1
  <2> QED
    BY <1>1, <2>2, ClientSetCopies DEF ClientAdd, ClientDel
<1> QED
  BY <1>1, InstallCopies, ClientRemoveCopies, ClientSetCopies, QuietCopies DEF Client

LEMMA CopyStep ==
  PtrInts = 1 /\ IInv /\ NotifyWaits /\ CopyInv /\ [Next]_vars => CopyInv'
<1> SUFFICES ASSUME PtrInts = 1, IInv, NotifyWaits, CopyInv, [Next]_vars
             PROVE  CopyInv'
  OBVIOUS
<1>1. CASE EnterLoop
  BY <1>1, EnterCopies
<1>2. CASE Process
  BY <1>2, ProcessCopies
<1>3. CASE Drain
  BY <1>3, DispatchCopies, HookCopies, NoteCopies, QuietCopies DEF Drain
<1>4. CASE Client
  BY <1>4, ClientCopies
<1>5. CASE ProcessInterrupted \/ ClientReturn \/ Others \/ UNCHANGED vars
  BY <1>5, QuietCopies
<1> QED
  BY <1>1, <1>2, <1>3, <1>4, <1>5 DEF Next

LEMMA InitCopies == Init => CopyInv
<1> SUFFICES ASSUME Init PROVE CopyInv
  OBVIOUS
<1>1. \A f \in Fdes : ~fde[f].active /\ fde[f].events = {}
  BY DEF Init, Blank
<1>2. Notify \in Fdes /\ (\A f \in Clients : f \in Fdes) /\ "R" \in Events
  BY ConstantFacts DEF Events
<1>3. NoJunk /\ InTable
  BY <1>1 DEF Init, NoJunk, InTable
<1>4. SetsAgree
  BY <1>1, SetsAsk DEF Init, Asks
<1>5. NotifyFdKept /\ NoteForRead /\ NeverAborts
  BY <1>1, <1>2 DEF Init, NotifyFdKept, NoteForRead, NeverAborts
<1> QED
  BY <1>3, <1>4, <1>5 DEF CopyInv

LEMMA CopiesHold ==
  ASSUME PtrInts = 1
  PROVE  Spec => [](IInv /\ CopyInv)
<1>1. IInv /\ NotifyWaits /\ CopyInv /\ [Next]_vars => CopyInv'
  BY CopyStep
<1> QED
  BY <1>1, InitCopies, Inductive, PTL DEF Spec

(* fd_table and the sets for select() are true of the fdevents after any   *)
(* calls from callbacks, in any order, while descriptors are closed behind *)
(* the loop's back and shells end: where the memset of in_event.c:451      *)
(* reaches every slot that realloc added.                                  *)
THEOREM CopiesTrue ==
  ASSUME PtrInts = 1
  PROVE  Spec => []CopiesAgree
<1>1. IInv /\ CopyInv => CopiesAgree
  <2> SUFFICES ASSUME IInv, CopyInv PROVE TableAgrees
    BY DEF CopyInv, CopiesAgree
  <2>1. /\ fd_table \in Seq(Fdes \cup {None, Junk}) /\ select_n <= TableMax
        /\ select_n \in 0 .. MaxFd + 1
    BY DEF IInv, TypeOK
  <2>2. ASSUME NEW i \in 0 .. select_n - 1, Entry(i) # None
        PROVE  Entry(i) \in Fdes /\ fde[Entry(i)].active /\ fde[Entry(i)].fd = i
    <3>1. i + 1 \in DOMAIN fd_table /\ i + 1 - 1 = i
      BY <2>1, BoundAssumption DEF TableMax
    <3>2. fd_table[i + 1] \in Fdes
      BY <2>1, <2>2, <3>1 DEF CopyInv, NoJunk, Entry
    <3> QED
      BY <3>1, <3>2 DEF IInv, SlotsOwned, Entry
  <2> QED
    BY <2>2 DEF CopyInv, InTable, TableAgrees
<1> QED
  BY <1>1, CopiesHold, PTL

(* And then no legal use of the interface reaches a FATAL, a pointer that  *)
(* is none, or a read of the notification socket that has nothing to read. *)
THEOREM NoAborts ==
  ASSUME PtrInts = 1
  PROVE  Spec => []NeverAborts
<1>1. IInv /\ CopyInv => NeverAborts
  BY DEF CopyInv
<1> QED
  BY <1>1, CopiesHold, PTL
=============================================================================
