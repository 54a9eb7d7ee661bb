-------------------------- MODULE SymbolCache_proofs --------------------------
(***************************************************************************)
(* Proofs about the symbol cache, for every table size, every hash function *)
(* and every depth of re-entrant installation.                             *)
(***************************************************************************)
EXTENDS SymbolCache, SequenceTheorems, FiniteSetTheorems, WellFoundedInduction, TLAPS

-----------------------------------------------------------------------------
\* The first k slots on the way of n hold other names.
Passed(n, k) ==
    \A j \in 0 .. k - 1 : hashes[At(n, j)] # 0 /\ names[At(n, j)] # n

\* What is stored together belongs together.
Entries ==
    \A i \in Used : /\ names[i] \in Valid
                    /\ hashes[i] = Hash[names[i]]
                    /\ sexps[i] = names[i]

\* Every entry is on the way of its name, behind other entries only.
Reachable ==
    \A i \in Used : \E k \in Slots : i = At(names[i], k) /\ Passed(names[i], k)

\* The slot that a call is going to use is where its name still belongs.
CallsAim ==
    \A c \in 1 .. Len(calls) :
        \E k \in Slots : calls[c].idx = At(calls[c].name, k) /\ Passed(calls[c].name, k)

CacheInv ==
    /\ TypeOK
    /\ Entries
    /\ Reachable
    /\ CallsAim
    /\ CountIsExact
    /\ AnswersAreRs

-----------------------------------------------------------------------------
\* A probe sequence stays inside the table.
LEMMA AtIsSlot ==
    ASSUME NEW n \in Names, NEW k \in Nat
    PROVE  At(n, k) \in Slots
<1>1. Hash[n] \in Nat /\ cap \in Nat \ {0}
  BY SymbolCacheAssumption
<1>2. Hash[n] % cap \in Nat
  BY <1>1
<1> QED
  BY <1>1, <1>2 DEF At, Slots

\* The table has a first slot.
LEMMA ZeroIsSlot == 0 \in Slots
BY SymbolCacheAssumption DEF Slots

\* A name has at most one first stop.
LEMMA FirstStopUnique ==
    ASSUME NEW n, NEW k \in Slots, NEW l \in Slots, FirstStop(n, k), FirstStop(n, l)
    PROVE  k = l
<1>1. k \in Nat /\ l \in Nat
  BY SymbolCacheAssumption DEF Slots
<1>2. ~ (k < l)
  BY <1>1 DEF FirstStop
<1>3. ~ (l < k)
  BY <1>1 DEF FirstStop
<1> QED
  BY <1>1, <1>2, <1>3

\* install's loop ends at the first stop, if there is one.
LEMMA ProbeStops ==
    ASSUME NEW n, NEW k \in Slots, FirstStop(n, k)
    PROVE  Probe(n) = At(n, k)
<1>1. \A l \in Slots : FirstStop(n, l) => l = k
  BY FirstStopUnique
<1> QED
  BY <1>1 DEF Probe

\* Whatever it finds, the slots before it hold other names; nothing stops it in
\* a full table, and then it is back home.
LEMMA ProbeAims ==
    ASSUME TypeOK, Entries, NEW n \in Valid
    PROVE  \E k \in Slots : Probe(n) = At(n, k) /\ Passed(n, k)
<1>1. CASE \E k \in Slots : FirstStop(n, k)
  <2>1. PICK k \in Slots : FirstStop(n, k)
    BY <1>1
  <2>2. ASSUME NEW j \in 0 .. k - 1
        PROVE  hashes[At(n, j)] # 0 /\ names[At(n, j)] # n
    <3>1. ~Stops(n, At(n, j))
      BY <2>1 DEF FirstStop
    <3>2. At(n, j) \in Slots
      BY AtIsSlot, SymbolCacheAssumption DEF Slots
    <3> QED
      BY <3>1, <3>2 DEF Stops, Matches, Entries, Used
  <2> QED
    BY <2>1, <2>2, ProbeStops DEF Passed
<1>2. CASE ~ \E k \in Slots : FirstStop(n, k)
  <2>1. Probe(n) = At(n, 0)
    BY <1>2 DEF Probe
  <2>2. Passed(n, 0)
    BY DEF Passed
  <2> QED
    BY <2>1, <2>2, ZeroIsSlot
<1> QED
  BY <1>1, <1>2

\* The invariant gives back what the runs check.
LEMMA FoundFromInv ==
    ASSUME CacheInv
    PROVE  EveryEntryFound
<1> SUFFICES ASSUME NEW i \in Used PROVE Probe(names[i]) = i
  BY DEF EveryEntryFound
<1>1. PICK k \in Slots : i = At(names[i], k) /\ Passed(names[i], k)
  BY DEF CacheInv, Reachable
<1>2. hashes[i] # 0 /\ hashes[i] = Hash[names[i]]
  BY DEF CacheInv, Entries, Used
<1>3. Stops(names[i], At(names[i], k))
  BY <1>1, <1>2 DEF Stops, Matches
<1>4. \A j \in 0 .. k - 1 : ~Stops(names[i], At(names[i], j))
  BY <1>1 DEF Passed, Stops, Matches
<1> QED
  BY <1>1, <1>3, <1>4, ProbeStops DEF FirstStop

-----------------------------------------------------------------------------
\* The empty table satisfies the invariant.
LEMMA InitCacheInv == Init => CacheInv
<1> SUFFICES ASSUME Init PROVE CacheInv
  OBVIOUS
<1>1. Used = {}
  BY DEF Init, Used
<1>2. Cardinality(Used) = 0
  BY <1>1, FS_EmptySet
<1>3. TypeOK
  BY SymbolCacheAssumption, EmptySeq DEF Init, TypeOK
<1>4. Len(calls) = 0
  BY EmptySeq DEF Init
<1> QED
  BY <1>1, <1>2, <1>3, <1>4 DEF Init, CacheInv, Entries, Reachable, CallsAim, CountIsExact,
     AnswersAreRs

\* Steps that leave the table alone keep everything but the calls in progress
\* and the answer.
LEMMA SameTable ==
    ASSUME CacheInv, UNCHANGED <<hashes, names, sexps, count>>
    PROVE  /\ Used' = Used
           /\ Entries' /\ Reachable' /\ CountIsExact'
           /\ \A n, k : Passed(n, k)' <=> Passed(n, k)
<1>1. Used' = Used
  BY DEF Used
<1>2. \A n, k : Passed(n, k)' <=> Passed(n, k)
  BY DEF Passed
<1> QED
  BY <1>1, <1>2 DEF CacheInv, Entries, Reachable, CountIsExact

\* A new call aims at the slot where the probe ended.
LEMMA MissKeeps ==
    ASSUME CacheInv, NEW n \in Names, Miss(n)
    PROVE  CacheInv'
<1> DEFINE new == [name |-> n, idx |-> Probe(n)]
<1>1. TypeOK /\ CallsAim /\ Entries /\ AnswersAreRs
  BY DEF CacheInv
<1>2. /\ n \in Valid /\ calls' = Append(calls, new)
      /\ UNCHANGED <<hashes, names, sexps, count, answer>>
  BY DEF Miss
<1>3. PICK k \in Slots : Probe(n) = At(n, k) /\ Passed(n, k)
  BY <1>1, <1>2, ProbeAims
<1>4. new \in Call
  BY <1>2, <1>3, AtIsSlot, SymbolCacheAssumption DEF Call, Slots
<1>5. TypeOK'
  BY <1>1, <1>2, <1>4, AppendProperties DEF TypeOK
<1>6. CallsAim'
  <2> SUFFICES ASSUME NEW c \in 1 .. Len(calls')
               PROVE  \E l \in Slots : /\ calls'[c].idx = At(calls'[c].name, l)
                                       /\ Passed(calls'[c].name, l)
    BY <1>2, SameTable DEF CallsAim
  <2>1. Len(calls') = Len(calls) + 1 /\ Len(calls) \in Nat
    BY <1>1, <1>2, <1>4, AppendProperties, LenProperties DEF TypeOK
  <2>2. CASE c = Len(calls')
    <3>1. calls'[c] = new
      BY <1>1, <1>2, <1>4, <2>1, <2>2, AppendProperties DEF TypeOK
    <3> QED
      BY <1>3, <3>1
  <2>3. CASE c # Len(calls')
    <3>1. c \in 1 .. Len(calls)
      BY <2>1, <2>3
    <3>2. calls'[c] = calls[c]
      BY <1>1, <1>2, <1>4, <3>1, AppendProperties DEF TypeOK
    <3> QED
      BY <1>1, <3>1, <3>2 DEF CallsAim
  <2> QED
    BY <2>2, <2>3
<1> QED
  BY <1>1, <1>2, <1>5, <1>6, SameTable DEF CacheInv, AnswersAreRs

\* The calls below the innermost one are as they were when it ends.
LEMMA CallEnds ==
    ASSUME TypeOK, calls # <<>>, calls' = Front(calls)
    PROVE  /\ Len(calls) \in Nat \ {0} /\ Len(calls') = Len(calls) - 1
           /\ calls' \in Seq(Call)
           /\ \A c \in 1 .. Len(calls') : c \in 1 .. Len(calls) /\ calls'[c] = calls[c]
           /\ Last(calls) = calls[Len(calls)] /\ Last(calls) \in Call
<1>1. calls \in Seq(Call) /\ Len(calls) \in Nat \ {0}
  BY EmptySeq, LenProperties DEF TypeOK
<1>2. Front(calls) = [i \in 1 .. Len(calls) - 1 |-> calls[i]]
  BY <1>1 DEF Front
<1>3. calls' \in Seq(Call) /\ Len(calls') = Len(calls) - 1
  BY <1>1, <1>2
<1> QED
  BY <1>1, <1>2, <1>3 DEF Last

\* Storing a name where the innermost call aims breaks no probe sequence.
LEMMA InsertKeeps ==
    ASSUME CacheInv, Installed, count < cap, hashes[Last(calls).idx] = 0
    PROVE  CacheInv'
<1> DEFINE n == Last(calls).name
           idx == Last(calls).idx
           PassedNext(m, l) ==
               \A j \in 0 .. l - 1 : hashes'[At(m, j)] # 0 /\ names'[At(m, j)] # m
<1>1. TypeOK /\ CallsAim /\ Entries /\ Reachable /\ CountIsExact
  BY DEF CacheInv
<1>2. /\ calls # <<>> /\ calls' = Front(calls)
      /\ hashes' = [hashes EXCEPT ![idx] = Hash[n]]
      /\ names' = [names EXCEPT ![idx] = n]
      /\ sexps' = [sexps EXCEPT ![idx] = n]
      /\ count' = count + 1
      /\ answer' = [name |-> n, sexp |-> n]
  BY DEF Installed, Insert
<1>3. /\ Len(calls) \in Nat \ {0} /\ Len(calls') = Len(calls) - 1 /\ calls' \in Seq(Call)
      /\ \A c \in 1 .. Len(calls') : c \in 1 .. Len(calls) /\ calls'[c] = calls[c]
      /\ Last(calls) = calls[Len(calls)] /\ Last(calls) \in Call
  BY <1>1, <1>2, CallEnds
<1>4. n \in Valid /\ n \in Names /\ idx \in Slots /\ Hash[n] \in Nat /\ Hash[n] # 0
  BY <1>3, SymbolCacheAssumption DEF Call
<1>5. PICK k \in Slots : idx = At(n, k) /\ Passed(n, k)
  BY <1>1, <1>3 DEF CallsAim
<1>6. Used' = Used \cup {idx} /\ idx \notin Used
  BY <1>1, <1>2, <1>4 DEF Used, TypeOK
<1>7. /\ names'[idx] = n /\ hashes'[idx] = Hash[n] /\ sexps'[idx] = n
      /\ \A i \in Slots \ {idx} : /\ names'[i] = names[i] /\ hashes'[i] = hashes[i]
                                  /\ sexps'[i] = sexps[i]
  BY <1>1, <1>2, <1>4 DEF TypeOK
<1>8. ASSUME NEW m \in Names, NEW l \in Slots, Passed(m, l)
      PROVE  PassedNext(m, l)
  <2> SUFFICES ASSUME NEW j \in 0 .. l - 1
               PROVE  hashes'[At(m, j)] # 0 /\ names'[At(m, j)] # m
    OBVIOUS
  <2>1. hashes[At(m, j)] # 0 /\ names[At(m, j)] # m
    BY <1>8 DEF Passed
  <2>2. At(m, j) \in Slots
    BY AtIsSlot, SymbolCacheAssumption DEF Slots
  <2>3. At(m, j) # idx
    BY <1>2, <2>1
  <2> QED
    BY <1>7, <2>1, <2>2, <2>3
<1>9. TypeOK'
  <2>1. hashes' \in [Slots -> Nat] /\ count' \in 0..cap
    BY <1>1, <1>2, <1>4, SymbolCacheAssumption DEF TypeOK
  <2>2. /\ names' \in [Slots -> Names \cup {NoName}]
        /\ sexps' \in [Slots -> Names \cup {NoName}]
    BY <1>1, <1>2, <1>4 DEF TypeOK
  <2>3. answer' \in [name : Names \cup {NoName}, sexp : Names \cup {Error}]
    BY <1>2, <1>4
  <2> QED
    BY <1>3, <2>1, <2>2, <2>3 DEF TypeOK
<1>10. Entries'
  BY <1>1, <1>4, <1>6, <1>7 DEF Entries, Used
<1>11. Reachable'
  <2> SUFFICES ASSUME NEW i \in Used'
               PROVE  \E l \in Slots : i = At(names'[i], l) /\ PassedNext(names'[i], l)
    BY DEF Reachable, Passed, At, Slots
  <2>1. CASE i = idx
    <3> HIDE DEF PassedNext
    <3> QED
      BY <1>4, <1>5, <1>7, <1>8, <2>1
  <2>2. CASE i # idx
    <3> HIDE DEF PassedNext
    <3>1. i \in Used /\ names'[i] = names[i] /\ names[i] \in Names
      BY <1>1, <1>6, <1>7, <2>2, SymbolCacheAssumption DEF Entries, Used
    <3>2. PICK l \in Slots : i = At(names[i], l) /\ Passed(names[i], l)
      BY <1>1, <3>1 DEF Reachable
    <3> QED
      BY <1>8, <3>1, <3>2
  <2> QED
    BY <2>1, <2>2
<1>12. CallsAim'
  <2> SUFFICES ASSUME NEW c \in 1 .. Len(calls')
               PROVE  \E l \in Slots : /\ calls'[c].idx = At(calls'[c].name, l)
                                       /\ PassedNext(calls'[c].name, l)
    BY DEF CallsAim, Passed, At, Slots
  <2>1. c \in 1 .. Len(calls) /\ calls'[c] = calls[c] /\ calls'[c].name \in Names
    <3>1. calls'[c] \in Call
      BY <1>3, ElementOfSeq
    <3> QED
      BY <1>3, <3>1, SymbolCacheAssumption DEF Call
  <2>2. PICK l \in Slots : calls[c].idx = At(calls[c].name, l) /\ Passed(calls[c].name, l)
    BY <1>1, <2>1 DEF CallsAim
  <2> QED
    BY <1>8, <2>1, <2>2
<1>13. CountIsExact'
  <2>1. IsFiniteSet(Slots)
    BY FS_Interval, SymbolCacheAssumption DEF Slots
  <2>2. IsFiniteSet(Used)
    BY <2>1, FS_Subset DEF Used
  <2>3. Cardinality(Used \cup {idx}) = Cardinality(Used) + 1
    BY <1>6, <2>2, FS_AddElement
  <2> QED
    BY <1>1, <1>2, <1>6, <2>3 DEF CountIsExact
<1> QED
  BY <1>2, <1>9, <1>10, <1>11, <1>12, <1>13 DEF CacheInv, AnswersAreRs

\* The innermost call ends without storing anything.
LEMMA EndKeeps ==
    ASSUME CacheInv, calls # <<>>, calls' = Front(calls),
           UNCHANGED <<hashes, names, sexps, count>>,
           NEW s \in {Last(calls).name, Error},
           answer' = [name |-> Last(calls).name, sexp |-> s]
    PROVE  CacheInv'
<1>1. TypeOK /\ CallsAim
  BY DEF CacheInv
<1>2. /\ calls' \in Seq(Call)
      /\ \A c \in 1 .. Len(calls') : c \in 1 .. Len(calls) /\ calls'[c] = calls[c]
      /\ Last(calls) \in Call
  BY <1>1, CallEnds
<1>3. Last(calls).name \in Names
  BY <1>2, SymbolCacheAssumption DEF Call
<1>4. TypeOK'
  BY <1>1, <1>2, <1>3 DEF TypeOK
<1>5. CallsAim'
  <2> SUFFICES ASSUME NEW c \in 1 .. Len(calls')
               PROVE  \E l \in Slots : /\ calls'[c].idx = At(calls'[c].name, l)
                                       /\ Passed(calls'[c].name, l)
    BY SameTable DEF CallsAim
  <2> QED
    BY <1>1, <1>2 DEF CallsAim
<1> QED
  BY <1>4, <1>5, SameTable DEF CacheInv, AnswersAreRs

\* A call that answers at once returns the symbol stored for its name, or none.
LEMMA AnswerKeeps ==
    ASSUME CacheInv, NEW n \in Names, Reject(n) \/ Hit(n)
    PROVE  CacheInv'
<1>1. TypeOK /\ Entries /\ CallsAim
  BY DEF CacheInv
<1>2. UNCHANGED <<hashes, names, sexps, count, calls>>
  BY DEF Reject, Hit
<1>3. \E s \in {n, Error} : answer' = [name |-> n, sexp |-> s]
  <2>1. CASE Reject(n)
    BY <2>1 DEF Reject
  <2>2. CASE Hit(n)
    <3>1. n \in Valid /\ Matches(n, Probe(n)) /\ answer' = [name |-> n, sexp |-> sexps[Probe(n)]]
      BY <2>2 DEF Hit
    <3>2. Probe(n) \in Slots
      BY <1>1, <3>1, ProbeAims, AtIsSlot, SymbolCacheAssumption DEF Slots
    <3>3. Probe(n) \in Used
      BY <3>1, <3>2, SymbolCacheAssumption DEF Matches, Used
    <3> QED
      BY <1>1, <3>1, <3>3 DEF Entries, Matches
  <2> QED
    BY <2>1, <2>2
<1>4. TypeOK' /\ AnswersAreRs'
  BY <1>1, <1>2, <1>3 DEF TypeOK, AnswersAreRs
<1>5. CallsAim'
  BY <1>1, <1>2, SameTable DEF CallsAim
<1> QED
  BY <1>2, <1>4, <1>5, SameTable DEF CacheInv

\* Every step of install, and every R error in it, preserves the invariant.
LEMMA NextCacheInv == CacheInv /\ [Next]_vars => CacheInv'
<1> SUFFICES ASSUME CacheInv, [Next]_vars PROVE CacheInv'
  OBVIOUS
<1>1. CASE UNCHANGED vars
  <2>1. UNCHANGED <<hashes, names, sexps, count, calls, answer>>
    BY <1>1 DEF vars
  <2>2. TypeOK' /\ AnswersAreRs'
    BY <2>1 DEF CacheInv, TypeOK, AnswersAreRs
  <2>3. CallsAim'
    BY <2>1, SameTable DEF CacheInv, CallsAim
  <2> QED
    BY <2>1, <2>2, <2>3, SameTable DEF CacheInv
<1>2. ASSUME NEW n \in Names, Reject(n) \/ Hit(n) \/ Miss(n) PROVE CacheInv'
  BY <1>2, AnswerKeeps, MissKeeps
<1>3. CASE InstallFails
  BY <1>3, EndKeeps DEF InstallFails
<1>4. CASE Installed
  <2>1. CASE count < cap /\ hashes[Last(calls).idx] = 0
    BY <1>4, <2>1, InsertKeeps
  <2>2. CASE ~ (count < cap /\ hashes[Last(calls).idx] = 0)
    BY <1>4, <2>2, EndKeeps DEF Installed, Insert
  <2> QED
    BY <2>1, <2>2
<1> QED
  BY <1>1, <1>2, <1>3, <1>4 DEF Next

\* The invariant holds in every reachable state.
LEMMA CacheInvAlways == Spec => []CacheInv
BY InitCacheInv, NextCacheInv, PTL DEF Spec

-----------------------------------------------------------------------------
\* The table and the suspended calls stay well-typed.
THEOREM TypeCorrect == Spec => []TypeOK
<1>1. CacheInv => TypeOK
  BY DEF CacheInv
<1> QED
  BY <1>1, CacheInvAlways, PTL

\* Whatever collides and whatever finalizers install meanwhile, install never
\* returns another name's symbol.
THEOREM AnswersAreRsAlways == Spec => []AnswersAreRs
<1>1. CacheInv => AnswersAreRs
  BY DEF CacheInv
<1> QED
  BY <1>1, CacheInvAlways, PTL

\* Every entry stays where lookups of its name find it, and none is doubled.
THEOREM EveryEntryFoundAlways == Spec => []EveryEntryFound
<1>1. CacheInv => EveryEntryFound
  BY FoundFromInv
<1> QED
  BY <1>1, CacheInvAlways, PTL

\* count stays the number of slots in use, so that the table fills up exactly
\* when there is no slot left.
THEOREM CountIsExactAlways == Spec => []CountIsExact
<1>1. CacheInv => CountIsExact
  BY DEF CacheInv
<1> QED
  BY <1>1, CacheInvAlways, PTL

\* No installation, however long it was suspended, touches an existing entry.
THEOREM EntriesStayAlways == Spec => EntriesStay
<1>1. CacheInv /\ [Next]_vars =>
        [\A i \in Used : /\ hashes'[i] = hashes[i]
                         /\ names'[i] = names[i]
                         /\ sexps'[i] = sexps[i]]_vars
  <2> SUFFICES ASSUME CacheInv, Next, NEW i \in Used
               PROVE  hashes'[i] = hashes[i] /\ names'[i] = names[i] /\ sexps'[i] = sexps[i]
    OBVIOUS
  <2>1. CASE UNCHANGED <<hashes, names, sexps>>
    BY <2>1
  <2>2. CASE Installed /\ ~UNCHANGED <<hashes, names, sexps>>
    <3>1. /\ hashes[Last(calls).idx] = 0
          /\ hashes' = [hashes EXCEPT ![Last(calls).idx] = Hash[Last(calls).name]]
          /\ names' = [names EXCEPT ![Last(calls).idx] = Last(calls).name]
          /\ sexps' = [sexps EXCEPT ![Last(calls).idx] = Last(calls).name]
      BY <2>2 DEF Installed, Insert
    <3>2. i # Last(calls).idx /\ i \in Slots
      BY <3>1 DEF Used
    <3> QED
      BY <3>1, <3>2 DEF CacheInv, TypeOK
  <2> QED
    BY <2>1, <2>2 DEF Next, Reject, Hit, Miss, InstallFails
<1> QED
  BY <1>1, CacheInvAlways, PTL DEF Spec, EntriesStay
=============================================================================
