-------------------------- MODULE Conversion_proofs --------------------------
(***************************************************************************)
(* Proofs about conversions, for every set of views, every length, every    *)
(* size of the region buffer and every capacity of the cleanup stack: the   *)
(* loops that read a vector put each element in its place, and what a call  *)
(* takes is freed once, however it ends.                                    *)
(***************************************************************************)
EXTENDS Conversion, SequenceTheorems, WellFoundedInduction, TLAPS

-----------------------------------------------------------------------------
ViewsTyped ==
    /\ allocator \in {"heap", "unwind", "two_tier"}
    /\ views \in [Views -> View]

\* What a view has been given is the first elements of the vector, in order.
GivenPrefix(view) ==
    /\ view.offset <= view.len
    /\ view.data = [i \in 1 .. view.offset |-> i]

\* Each read has given at least one element, and a filled view has them all.
Progress(view) ==
    /\ view.reads <= view.offset
    /\ view.status = "open" /\ view.kind # "one_pass" => view.offset = view.len

DataInv ==
    /\ ViewsTyped
    /\ \A v \in Views : GivenPrefix(views[v]) /\ Progress(views[v])

Good(view) == view \in View /\ GivenPrefix(view) /\ Progress(view)

-----------------------------------------------------------------------------
\* A sequence of consecutive numbers.
LEMMA Numbers ==
    ASSUME NEW m \in Nat, NEW n \in Nat
    PROVE  /\ [i \in 1..n |-> m + i] \in Seq(Nat)
           /\ Len([i \in 1..n |-> m + i]) = n
<1> DEFINE s == [i \in 1..n |-> m + i]
<1>1. s \in [1..n -> Nat]
  OBVIOUS
<1>2. s \in Seq(Nat)
  BY <1>1
<1>3. Len(s) = n
  BY <1>1, <1>2, LenProperties
<1> QED
  BY <1>2, <1>3

\* The elements read before, and got more of them, are a longer prefix.
LEMMA PrefixGrows ==
    ASSUME NEW m \in Nat, NEW n \in Nat
    PROVE  [i \in 1..m |-> i] \o [i \in 1..n |-> m + i] = [i \in 1 .. m + n |-> i]
<1> DEFINE s == [i \in 1..m |-> 0 + i]
           t == [i \in 1..n |-> m + i]
           u == [i \in 1 .. m + n |-> 0 + i]
<1>1. /\ s \in Seq(Nat) /\ Len(s) = m
      /\ t \in Seq(Nat) /\ Len(t) = n
      /\ u \in Seq(Nat) /\ Len(u) = m + n
  <2>1. 0 \in Nat /\ m + n \in Nat
    OBVIOUS
  <2> QED
    BY <2>1, Numbers
<1>2. \A i \in 1 .. m + n : (IF i <= m THEN s[i] ELSE t[i - m]) = u[i]
  OBVIOUS
<1>3. s = [i \in 1..m |-> i] /\ u = [i \in 1 .. m + n |-> i]
  OBVIOUS
<1> HIDE DEF s, t, u
<1>4. /\ s \o t \in Seq(Nat)
      /\ Len(s \o t) = m + n
      /\ \A i \in 1 .. m + n : (s \o t)[i] = IF i <= m THEN s[i] ELSE t[i - m]
  BY <1>1, ConcatProperties
<1>5. s \o t = u
  BY <1>1, <1>2, <1>4, SeqEqual
<1> QED
  BY <1>3, <1>5 DEF t

LEMMA MinOfTwo ==
    ASSUME NEW a \in Int, NEW b \in Int
    PROVE  Min({a, b}) \in {a, b} /\ Min({a, b}) <= a /\ Min({a, b}) <= b
<1>1. CASE a <= b
  BY <1>1 DEF Min
<1>2. CASE b < a
  BY <1>2 DEF Min
<1> QED
  BY <1>1, <1>2

LEMMA NoViewIsGood == Good(NoView)
<1>1. <<>> \in Seq(Nat) /\ <<>> = [i \in 1..0 |-> i]
  BY Numbers
<1> QED
  BY <1>1 DEF Good, NoView, View, GivenPrefix, Progress

\* A read that is not refused leaves a longer prefix.
LEMMA AdvanceIsGood ==
    ASSUME NEW view, Good(view),
           NEW requested \in Int, requested <= view.len - view.offset,
           NEW got \in Int, ~Bad(got, requested),
           view.status = "open" => view.kind = "one_pass"
    PROVE  Good(Advance(view, got, requested))
<1> DEFINE more == [i \in 1..got |-> view.offset + i]
           new  == Advance(view, got, requested)
<1>1. got \in Nat /\ got > 0 /\ view.offset + got <= view.len
  BY DEF Bad, Good, View
<1>2. view.offset \in Nat /\ view.data \in Seq(Nat) /\ view.reads \in Nat
  BY DEF Good, View
<1>3. more \in Seq(Nat)
  BY <1>1, <1>2, Numbers
<1>4. view.data \o more = [i \in 1 .. view.offset + got |-> i]
  BY <1>1, <1>2, PrefixGrows DEF Good, GivenPrefix
<1>5. view.data \o more \in Seq(Nat)
  BY <1>2, <1>3, ConcatProperties
<1>6. new = [kind |-> view.kind, status |-> view.status, place |-> view.place,
             len |-> view.len, offset |-> view.offset + got,
             data |-> view.data \o more, reads |-> view.reads + 1, freed |-> view.freed]
  <2> DEFINE d == view.data \o more
  <2>1. new = [view EXCEPT !.offset = @ + got, !.reads = @ + 1, !.data = d]
    BY DEF Advance, Good, View
  <2> HIDE DEF d, new
  <2>2. view \in View
    BY DEF Good
  <2>3. new = [kind |-> view.kind, status |-> view.status, place |-> view.place,
               len |-> view.len, offset |-> view.offset + got,
               data |-> d, reads |-> view.reads + 1, freed |-> view.freed]
    BY <2>1, <2>2 DEF View
  <2> QED
    BY <2>3 DEF d
<1>7. /\ new \in View
      /\ new.offset = view.offset + got /\ new.reads = view.reads + 1
      /\ new.data = view.data \o more /\ new.len = view.len
      /\ new.status = view.status /\ new.kind = view.kind
  <2> HIDE DEF more, new
  <2>1. view.offset + got \in Nat /\ view.reads + 1 \in Nat
    BY <1>1, <1>2
  <2> QED
    BY <1>5, <1>6, <2>1 DEF Good, View
<1> QED
  <2> HIDE DEF more, new
  <2>1. Good(new)
    BY <1>1, <1>2, <1>4, <1>7 DEF Good, GivenPrefix, Progress
  <2> QED
    BY <2>1 DEF new

\* A view whose elements are not touched, and which is not opened, stays good.
LEMMA OthersAreGood ==
    ASSUME NEW view, Good(view),
           NEW s \in {"stale", "failed", "closed"}, NEW n \in Nat
    PROVE  /\ Good([view EXCEPT !.status = s])
           /\ Good([view EXCEPT !.freed = n])
           /\ Good([view EXCEPT !.status = s, !.freed = n])
BY DEF Good, View, GivenPrefix, Progress

-----------------------------------------------------------------------------
LEMMA GoodViews == DataInv <=> ViewsTyped /\ \A v \in Views : Good(views[v])
BY DEF DataInv, ViewsTyped, Good

\* The views after a step are good if they were and the changed one is.
LEMMA Changed ==
    ASSUME DataInv, NEW v \in Views, NEW new, Good(new), allocator' = allocator,
           views' = [views EXCEPT ![v] = new]
    PROVE  DataInv'
<1>1. \A u \in Views : Good(views'[u])
  <2> TAKE u \in Views
  <2>1. CASE u = v
    BY <2>1 DEF DataInv, ViewsTyped
  <2>2. CASE u # v
    BY <2>2, GoodViews DEF DataInv, ViewsTyped
  <2> QED
    BY <2>1, <2>2
<1>2. views' \in [Views -> View]
  BY DEF DataInv, ViewsTyped, Good
<1> QED
  BY <1>1, <1>2 DEF DataInv, ViewsTyped, Good

LEMMA Unchanged == ASSUME DataInv, UNCHANGED <<allocator, views>> PROVE DataInv'
BY DEF DataInv, ViewsTyped, GivenPrefix, Progress

-----------------------------------------------------------------------------
LEMMA InitData == Init => DataInv
<1> SUFFICES ASSUME Init PROVE DataInv
  OBVIOUS
<1>1. \A v \in Views : Good(views[v])
  BY NoViewIsGood DEF Init
<1>2. views \in [Views -> View]
  BY NoViewIsGood DEF Init, Good
<1> QED
  BY <1>1, <1>2 DEF Init, DataInv, ViewsTyped, Good

\* A call starts with views that hold nothing.
LEMMA EnterData ==
    ASSUME NEW a \in Allocators, NEW n, Enter(a, n)
    PROVE  DataInv'
<1>1. \A v \in Views : Good(views'[v])
  BY NoViewIsGood DEF Enter
<1>2. views' \in [Views -> View]
  BY NoViewIsGood DEF Enter, Good
<1> QED
  BY <1>1, <1>2, ConversionAssumption DEF Enter, DataInv, ViewsTyped, Good

\* Firing frames and unwinding leave the elements alone.
LEMMA FireData == DataInv /\ Fire => DataInv'
<1> SUFFICES ASSUME DataInv, Fire PROVE DataInv'
  OBVIOUS
<1>1. CASE views' = views
  BY <1>1, Unchanged DEF Fire
<1>2. CASE views' # views
  <2> DEFINE w == Last(frames).owner
             n == IF allocator = "heap" THEN views[w].freed + 1 ELSE views[w].freed
  <2>1. views' = [views EXCEPT ![w].freed = IF allocator = "heap" THEN @ + 1 ELSE @]
    BY <1>2 DEF Fire
  <2>2. w \in Views
    BY <1>2, <2>1 DEF DataInv, ViewsTyped
  <2>3. views' = [views EXCEPT ![w] = [views[w] EXCEPT !.freed = n]]
    <3>1. CASE allocator = "heap"
      BY <2>1, <3>1
    <3>2. CASE allocator # "heap"
      BY <2>1, <3>2
    <3> QED
      BY <3>1, <3>2
  <2>4. Good(views[w]) /\ n \in Nat
    <3>1. Good(views[w])
      BY <2>2, GoodViews
    <3>2. views[w] \in View
      BY <3>1 DEF Good
    <3>3. views[w].freed \in Nat
      BY <3>2 DEF View
    <3> QED
      BY <3>1, <3>3
  <2> HIDE DEF w, n
  <2>5. Good([views[w] EXCEPT !.freed = n])
    BY <2>4, OthersAreGood
  <2> QED
    BY <2>2, <2>3, <2>5, Changed DEF Fire
<1> QED
  BY <1>1, <1>2

LEMMA UnwoundData == DataInv /\ Unwound => DataInv'
<1> SUFFICES ASSUME DataInv, Unwound PROVE DataInv'
  OBVIOUS
<1>1. \A v \in Views : Good(views'[v])
  <2> TAKE v \in Views
  <2>1. views'[v] \in {views[v], [views[v] EXCEPT !.status = "stale"]}
    BY DEF Unwound
  <2>2. Good(views[v])
    BY GoodViews
  <2>3. Good([views[v] EXCEPT !.status = "stale"])
    BY <2>2, OthersAreGood
  <2> QED
    BY <2>1, <2>2, <2>3
<1>2. views' \in [Views -> View]
  <2>1. DOMAIN views' = Views /\ \A v \in Views : views'[v] \in View
    BY <1>1 DEF Unwound, Good
  <2> QED
    BY <2>1 DEF Unwound
<1> QED
  BY <1>1, <1>2 DEF Unwound, DataInv, ViewsTyped, Good

-----------------------------------------------------------------------------
\* What Begin makes has no elements yet.
LEMMA OpenedIsGood ==
    ASSUME NEW k \in {"slice", "view", "cached", "one_pass", "repeated"},
           NEW len \in Nat, NEW p \in {"none", "heap", "spill", "fixed"},
           NEW s \in {"open", "filling"}, s = "open" => k = "one_pass"
    PROVE  Good(Opened(k, len, p, s))
<1>1. Opened(k, len, p, s) =
        [kind |-> k, status |-> s, place |-> IF len = 0 THEN "none" ELSE p, len |-> len,
         offset |-> 0, data |-> <<>>, reads |-> 0, freed |-> 0]
  <2> DEFINE q == IF len = 0 THEN "none" ELSE p
             e == <<>>
  <2>1. NoView = [kind |-> "slice", status |-> "none", place |-> "none", len |-> 0,
                  offset |-> 0, data |-> e, reads |-> 0, freed |-> 0]
    BY DEF NoView
  <2>2. Opened(k, len, p, s) =
          [NoView EXCEPT !.kind = k, !.status = s, !.len = len, !.place = q]
    BY DEF Opened
  <2> HIDE DEF q, e
  <2>3. Opened(k, len, p, s) =
          [kind |-> k, status |-> s, place |-> q, len |-> len,
           offset |-> 0, data |-> e, reads |-> 0, freed |-> 0]
    BY <2>1, <2>2
  <2> QED
    BY <2>3 DEF q, e
<1>2. <<>> \in Seq(Nat) /\ <<>> = [i \in 1..0 |-> i]
  BY Numbers
<1> QED
  BY <1>1, <1>2 DEF Good, View, GivenPrefix, Progress

LEMMA BeginData ==
    ASSUME DataInv, NEW v \in Views, NEW k \in Kinds(allocator), NEW len \in Lengths,
           NEW p \in Places(allocator), Begin(v, k, len, p)
    PROVE  DataInv'
<1>1. k \in {"slice", "view", "cached", "one_pass", "repeated"}
  BY DEF Kinds
<1>2. p \in {"none", "heap", "spill", "fixed"}
  BY DEF Places, DataInv, ViewsTyped
<1>3. len \in Nat
  BY ConversionAssumption
<1> DEFINE s == IF k = "one_pass" THEN "open" ELSE "filling"
<1>4. Good(Opened(k, len, p, s))
  BY <1>1, <1>2, <1>3, OpenedIsGood
<1>5. views' = [views EXCEPT ![v] = Opened(k, len, p, s)] /\ allocator' = allocator
  BY DEF Begin
<1> QED
  BY <1>4, <1>5, Changed

\* A conversion that fails keeps what it was given.
LEMMA OutOfMemoryData ==
    ASSUME DataInv, NEW v \in Views, NEW k, NEW len, NEW p, OutOfMemory(v, k, len, p)
    PROVE  DataInv'
<1>1. Good([views[v] EXCEPT !.status = "failed"])
  BY GoodViews, OthersAreGood
<1>2. views' = [views EXCEPT ![v] = [views[v] EXCEPT !.status = "failed"]]
  BY DEF OutOfMemory, DataInv, ViewsTyped
<1> QED
  BY <1>1, <1>2, Changed DEF OutOfMemory

LEMMA ReadFailsData ==
    ASSUME DataInv, NEW v \in Views, NEW got, ReadFails(v, got)
    PROVE  DataInv'
<1> DEFINE n == IF allocator = "heap" THEN views[v].freed + 1 ELSE views[v].freed
           new == [views[v] EXCEPT !.status = "failed", !.freed = n]
<1>1. Good(views[v]) /\ n \in Nat
  BY GoodViews DEF DataInv, ViewsTyped, View
<1>2. views' = [views EXCEPT ![v] = new]
  BY DEF ReadFails, DataInv, ViewsTyped
<1>3. Good(new)
  <2> HIDE DEF n
  <2> QED
    BY <1>1, OthersAreGood
<1> QED
  BY <1>2, <1>3, Changed DEF ReadFails

LEMMA DeinitData ==
    ASSUME DataInv, NEW v \in Views, Deinit(v)
    PROVE  DataInv'
<1> DEFINE n == IF Active(v) /\ views[v].place = "heap" THEN views[v].freed + 1
                ELSE views[v].freed
           new == [views[v] EXCEPT !.status = "closed", !.freed = n]
<1>1. Good(views[v]) /\ n \in Nat
  BY GoodViews DEF DataInv, ViewsTyped, View
<1>2. views' = [views EXCEPT ![v] = new]
  BY DEF Deinit, DataInv, ViewsTyped
<1>3. Good(new)
  <2> HIDE DEF n
  <2> QED
    BY <1>1, OthersAreGood
<1> QED
  BY <1>2, <1>3, Changed DEF Deinit

-----------------------------------------------------------------------------
\* Each of the three loops: one turn.
LEMMA ReadRegionData ==
    ASSUME DataInv, NEW v \in Views, NEW got \in Int, ReadRegion(v, got)
    PROVE  DataInv'
<1> DEFINE view == views[v]
           remaining == view.len - view.offset
<1>1. Good(view) /\ remaining \in Int
  BY GoodViews DEF DataInv, ViewsTyped, View
<1>2. /\ view.status = "filling" /\ ~Bad(got, remaining)
      /\ views' = [views EXCEPT ![v] = Advance(view, got, remaining)]
      /\ allocator' = allocator
  BY DEF ReadRegion
<1>3. Good(Advance(view, got, remaining))
  <2>1. remaining <= view.len - view.offset /\ (view.status = "open" => view.kind = "one_pass")
    BY <1>1, <1>2
  <2> HIDE DEF view, remaining
  <2> QED
    BY <1>1, <1>2, <2>1, AdvanceIsGood
<1> QED
  BY <1>2, <1>3, Changed

LEMMA ReadElementData ==
    ASSUME DataInv, NEW v \in Views, ReadElement(v)
    PROVE  DataInv'
<1> DEFINE view == views[v]
<1>1. Good(view)
  BY GoodViews
<1>2. /\ view.status = "filling" /\ view.offset < view.len
      /\ views' = [views EXCEPT ![v] = Advance(view, 1, 1)]
      /\ allocator' = allocator
  BY DEF ReadElement
<1>3. Good(Advance(view, 1, 1))
  <2>1. 1 <= view.len - view.offset
    BY <1>1, <1>2 DEF Good, View
  <2>2. ~Bad(1, 1)
    BY DEF Bad
  <2> HIDE DEF view
  <2> QED
    BY <1>1, <1>2, <2>1, <2>2, AdvanceIsGood
<1> QED
  BY <1>2, <1>3, Changed

LEMMA NextRegionData ==
    ASSUME DataInv, NEW v \in Views, NEW got \in Int, NextRegion(v, got)
    PROVE  DataInv'
<1> DEFINE view == views[v]
           requested == Min({view.len - view.offset, Min({view.len, Chunk})})
<1>1. Good(view) /\ view.len \in Int /\ view.len - view.offset \in Int
  BY GoodViews DEF DataInv, ViewsTyped, View
<1>2. requested \in Int /\ requested <= view.len - view.offset
  <2> HIDE DEF view
  <2>1. Min({view.len, Chunk}) \in Int
    <3>1. Chunk \in Int
      BY ConversionAssumption
    <3>2. Min({view.len, Chunk}) \in {view.len, Chunk}
      BY <1>1, <3>1, MinOfTwo
    <3> QED
      BY <1>1, <3>1, <3>2
  <2> QED
    BY <1>1, <2>1, MinOfTwo
<1>3. /\ view.kind = "one_pass" /\ ~Bad(got, requested)
      /\ views' = [views EXCEPT ![v] = Advance(view, got, requested)]
      /\ allocator' = allocator
  BY DEF NextRegion
<1>4. Good(Advance(view, got, requested))
  <2> HIDE DEF view, requested
  <2> QED
    BY <1>1, <1>2, <1>3, AdvanceIsGood
<1> QED
  BY <1>3, <1>4, Changed

\* The loop ends where everything has been read.
LEMMA FinishData ==
    ASSUME DataInv, NEW v \in Views, Finish(v)
    PROVE  DataInv'
<1> DEFINE new == [views[v] EXCEPT !.status = "open"]
<1>1. Good(views[v]) /\ views[v].offset >= views[v].len
  BY GoodViews DEF Finish
<1>2. views' = [views EXCEPT ![v] = new]
  BY DEF Finish, DataInv, ViewsTyped
<1>3. Good(new)
  BY <1>1 DEF Good, View, GivenPrefix, Progress
<1> QED
  BY <1>2, <1>3, Changed DEF Finish

-----------------------------------------------------------------------------
LEMMA NextData == DataInv /\ [Next]_vars => DataInv'
<1> SUFFICES ASSUME DataInv, [Next]_vars PROVE DataInv'
  OBVIOUS
<1>1. ASSUME NEW a \in Allocators, NEW n, Enter(a, n) PROVE DataInv'
  BY <1>1, EnterData
<1>2. CASE Return \/ EnterRecovery \/ LeaveRecovery \/ Raise
  BY <1>2, Unchanged DEF Return, EnterRecovery, LeaveRecovery, Raise
<1>3. CASE Fire \/ Unwound
  BY <1>3, FireData, UnwoundData
<1>4. ASSUME NEW k, Refuse(k) PROVE DataInv'
  BY <1>4, Unchanged DEF Refuse
<1>5. ASSUME NEW v \in Views, NEW k \in Kinds(allocator), NEW len \in Lengths,
             NEW p \in Places(allocator), OutOfMemory(v, k, len, p) \/ Begin(v, k, len, p)
      PROVE  DataInv'
  BY <1>5, OutOfMemoryData, BeginData
<1>6. ASSUME NEW v \in Views, NEW got \in -1 .. views[v].len + 1,
             ReadRegion(v, got) \/ ReadFails(v, got) \/ NextRegion(v, got)
      PROVE  DataInv'
  <2>1. got \in Int
    OBVIOUS
  <2> QED
    BY <1>6, <2>1, ReadRegionData, ReadFailsData, NextRegionData
<1>7. ASSUME NEW v \in Views, ReadElement(v) \/ Finish(v) \/ Deinit(v) PROVE DataInv'
  BY <1>7, ReadElementData, FinishData, DeinitData
<1>8. CASE UNCHANGED vars
  BY <1>8, Unchanged DEF vars
<1> QED
  BY <1>1, <1>2, <1>3, <1>4, <1>5, <1>6, <1>7, <1>8 DEF Next

\* DataInv holds throughout every call.
THEOREM DataAlways == Spec => []DataInv
BY InitData, NextData, PTL DEF Spec

\* An open view holds the elements of its vector in their places, and a one-pass
\* kernel has been given a prefix of them, for all lengths, all sizes of the
\* region buffer and all ways in which region methods divide their answers.
THEOREM HoldsSourceAlways == Spec => []HoldsSource
<1>1. DataInv => HoldsSource
  BY DEF DataInv, HoldsSource, GivenPrefix, Progress
<1> QED
  BY <1>1, DataAlways, PTL

\* No vector is asked for more regions than it has elements.
THEOREM ReadsBoundedAlways == Spec => []ReadsBounded
<1>1. DataInv => ReadsBounded
  <2> SUFFICES ASSUME DataInv, NEW v \in Views PROVE views[v].reads <= views[v].len
    BY DEF ReadsBounded
  <2>1. Good(views[v])
    BY GoodViews
  <2> QED
    BY <2>1 DEF Good, View, GivenPrefix, Progress
<1> QED
  BY <1>1, DataAlways, PTL

-----------------------------------------------------------------------------
(***************************************************************************)
(* Storage and frames.  The invariant says whose the armed frames are and   *)
(* where: in the body of a recovery, those above its mark are its own.      *)
(***************************************************************************)
Owners == Views \cup {"arena"}

\* Entry i of a sequence of frames is armed, and of this owner.
ArmedAt(f, i, owner) == i \in 1 .. Len(f) /\ f[i] = Armed(owner)
HeldIn(f, owner) == \E i \in 1 .. Len(f) : ArmedAt(f, i, owner)
Held(owner) == HeldIn(frames, owner)

StoreTypes ==
    /\ mode \in {"idle", "run", "unwind"}
    /\ base \in 0..MAX_NESTING
    /\ frames \in Seq(Frame)
    /\ base + Len(frames) <= MAX_NESTING
    /\ arena \in BOOLEAN
    /\ spill \in {"none", "live", "destroyed"}
    /\ inner \in BOOLEAN
    /\ body \in [active : BOOLEAN, mark : Nat, fresh : SUBSET Views]

\* An owner has one frame, released frames do not stay on top, and between calls
\* there are none.
FramesOK ==
    /\ \A owner \in Owners : \A i, j \in 1 .. Len(frames) :
          ArmedAt(frames, i, owner) /\ ArmedAt(frames, j, owner) => i = j
    /\ mode = "run" /\ Len(frames) > 0 => frames[Len(frames)].armed
    /\ mode = "idle" => Len(frames) = 0 /\ ~body.active

\* What a view holds, by its status and by its frame.
ViewOK(v) ==
    /\ Held(v) => views[v].status \in {"filling", "open"} /\ views[v].freed = 0
    /\ views[v].place = "heap" =>
          /\ allocator = "heap" /\ views[v].kind # "slice"
          /\ views[v].freed = 0 => Held(v)
    /\ views[v].place = "spill" => spill # "none"
    /\ views[v].freed \in {0, 1}
    /\ views[v].freed = 1 =>
          views[v].len \in Lengths /\ (views[v].len > 0 => views[v].place = "heap")
    /\ views[v].status = "none" => views[v].freed = 0 /\ views[v].place = "none"
    /\ views[v].status \in {"filling", "open"} =>
          /\ views[v].len \in Lengths
          /\ allocator = "heap" /\ views[v].len > 0 => views[v].place = "heap"
          /\ mode = "run" \/ (body.active /\ v \notin body.fresh) => views[v].freed = 0

\* One vector is read at a time, and a slot is left for the frame of its access.
ReadingOK ==
    mode = "run" => \A v \in Views : views[v].status = "filling" =>
        /\ \A u \in Views : views[u].status = "filling" => u = v
        /\ views[v].kind = "repeated" => base + Len(frames) < MAX_NESTING

\* The frames above the mark of a recovery are those that its body registered.
BodyOK ==
    body.active =>
        /\ body.mark <= Len(frames)
        /\ body.mark > 0 => /\ frames[body.mark].armed
                            /\ frames[body.mark].owner \notin body.fresh
        /\ \A v \in Views : views[v].status \in {"none", "filling"} => v \in body.fresh
        /\ \A i \in 1 .. Len(frames) :
              /\ \A v \in Views : ArmedAt(frames, i, v) => (i > body.mark <=> v \in body.fresh)
              /\ ArmedAt(frames, i, "arena") => (i > body.mark <=> inner)

\* The arena lives as long as its frame, and is destroyed under its views only
\* where its frame belongs to the body of a recovery.
ArenaOK ==
    /\ spill = "live" <=> Held("arena")
    /\ spill = "live" => arena
    /\ arena \/ inner => spill # "none"
    /\ mode # "idle" /\ ~arena => spill = "none"
    /\ destroys = IF spill = "destroyed" THEN 1 ELSE 0
    /\ (mode = "run" \/ body.active) /\ spill = "destroyed" => inner
    /\ mode # "idle" /\ ~body.active /\ inner => spill # "live"

StoreInv ==
    /\ StoreTypes
    /\ FramesOK
    /\ \A v \in Views : ViewOK(v)
    /\ ReadingOK
    /\ BodyOK
    /\ ArenaOK

-----------------------------------------------------------------------------
(***************************************************************************)
(* Lemmas about frames.                                                    *)
(***************************************************************************)
LEMMA FrameFacts ==
    ASSUME NEW f \in Seq(Frame)
    PROVE  /\ Len(f) \in Nat /\ DOMAIN f = 1 .. Len(f)
           /\ \A i \in 1 .. Len(f) :
                 /\ f[i] \in Frame /\ f[i].armed \in BOOLEAN /\ f[i].owner \in Owners
                 /\ f[i].armed => ArmedAt(f, i, f[i].owner)
                 /\ \A x : ArmedAt(f, i, x) <=> f[i].armed /\ f[i].owner = x
<1>1. Len(f) \in Nat /\ DOMAIN f = 1 .. Len(f)
  BY LenProperties
<1> SUFFICES ASSUME NEW i \in 1 .. Len(f)
             PROVE  /\ f[i] \in Frame /\ f[i].armed \in BOOLEAN /\ f[i].owner \in Owners
                    /\ f[i].armed => ArmedAt(f, i, f[i].owner)
                    /\ \A x : ArmedAt(f, i, x) <=> f[i].armed /\ f[i].owner = x
  BY <1>1
<1>2. f[i] \in Frame
  BY ElementOfSeq
<1>3. f[i].armed \in BOOLEAN /\ f[i].owner \in Owners
  BY <1>2 DEF Frame, Owners
<1>4. f[i] = [owner |-> f[i].owner, armed |-> f[i].armed]
  BY <1>2 DEF Frame
<1>5. \A x : ArmedAt(f, i, x) <=> f[i].armed /\ f[i].owner = x
  <2> TAKE x
  <2>1. ArmedAt(f, i, x) <=> f[i] = [owner |-> x, armed |-> TRUE]
    BY DEF ArmedAt, Armed
  <2>2. f[i] = [owner |-> x, armed |-> TRUE] => f[i].armed /\ f[i].owner = x
    <3> SUFFICES ASSUME f[i] = [owner |-> x, armed |-> TRUE] PROVE f[i].armed /\ f[i].owner = x
      OBVIOUS
    <3>1. f[i].armed = [owner |-> x, armed |-> TRUE].armed
      OBVIOUS
    <3>2. f[i].owner = [owner |-> x, armed |-> TRUE].owner
      OBVIOUS
    <3> QED
      BY <3>1, <3>2
  <2>3. f[i].armed /\ f[i].owner = x => f[i] = [owner |-> x, armed |-> TRUE]
    <3> SUFFICES ASSUME f[i].armed, f[i].owner = x PROVE f[i] = [owner |-> x, armed |-> TRUE]
      OBVIOUS
    <3>1. f[i].armed = TRUE
      BY <1>3
    <3> QED
      BY <1>4, <3>1
  <2> QED
    BY <2>1, <2>2, <2>3
<1> QED
  BY <1>2, <1>3, <1>5

LEMMA ArmedIsFrame ==
    ASSUME NEW x \in Owners
    PROVE  Armed(x) \in Frame /\ Armed(x).armed /\ Armed(x).owner = x
BY DEF Armed, Frame, Owners

\* A new frame on top.
LEMMA PushFrame ==
    ASSUME NEW f \in Seq(Frame), NEW x \in Owners
    PROVE  LET g == Append(f, Armed(x))
           IN  /\ g \in Seq(Frame) /\ Len(g) = Len(f) + 1 /\ g[Len(g)].armed
               /\ \A i \in 1 .. Len(f) : g[i] = f[i]
               /\ \A i, y : ArmedAt(g, i, y) <=> ArmedAt(f, i, y) \/ (i = Len(f) + 1 /\ y = x)
<1> DEFINE g == Append(f, Armed(x))
<1>1. /\ g \in Seq(Frame) /\ Len(g) = Len(f) + 1
      /\ \A i \in 1 .. Len(f) : g[i] = f[i]
      /\ g[Len(f) + 1] = Armed(x)
      /\ Len(f) \in Nat
  BY ArmedIsFrame, AppendProperties, FrameFacts
<1> HIDE DEF g
<1>2. \A i, y : ArmedAt(g, i, y) <=> ArmedAt(f, i, y) \/ (i = Len(f) + 1 /\ y = x)
  <2> TAKE i, y
  <2>1. CASE i \in 1 .. Len(f)
    BY <1>1, <2>1 DEF ArmedAt
  <2>2. CASE i = Len(f) + 1
    <3>1. ArmedAt(g, i, y) <=> Armed(x) = Armed(y)
      BY <1>1, <2>2 DEF ArmedAt
    <3>2. Armed(x) = Armed(y) <=> x = y
      BY DEF Armed
    <3>3. ~ArmedAt(f, i, y)
      BY <1>1, <2>2 DEF ArmedAt
    <3> QED
      BY <2>2, <3>1, <3>2, <3>3
  <2>3. CASE i \notin 1 .. Len(f) + 1
    BY <1>1, <2>3 DEF ArmedAt
  <2> QED
    BY <1>1, <2>1, <2>2, <2>3
<1>3. g[Len(g)].armed
  BY <1>1, ArmedIsFrame
<1> QED
  BY <1>1, <1>2, <1>3 DEF g

\* The newest frame goes.
LEMMA DropFrame ==
    ASSUME NEW f \in Seq(Frame), Len(f) > 0
    PROVE  /\ Front(f) \in Seq(Frame) /\ Len(Front(f)) = Len(f) - 1
           /\ Last(f) = f[Len(f)]
           /\ \A i \in 1 .. Len(f) - 1 : Front(f)[i] = f[i]
           /\ \A i, y : ArmedAt(Front(f), i, y) <=> ArmedAt(f, i, y) /\ i # Len(f)
<1> DEFINE k == Len(f) - 1
<1>1. k \in Nat /\ \A i \in 1 .. k : f[i] \in Frame
  BY FrameFacts
<1>2. Front(f) = SubSeq(f, 1, k) /\ Last(f) = f[Len(f)] /\ Len(f) = k + 1
  BY FrameFacts DEF Front, Last
<1> HIDE DEF k
<1>3. /\ SubSeq(f, 1, k) \in Seq(Frame)
      /\ Len(SubSeq(f, 1, k)) = IF 1 <= k THEN k - 1 + 1 ELSE 0
      /\ \A i \in 1 .. k - 1 + 1 : SubSeq(f, 1, k)[i] = f[1 + i - 1]
  BY <1>1, SubSeqProperties
<1>4. Len(Front(f)) = k /\ \A i \in 1 .. k : Front(f)[i] = f[i]
  BY <1>1, <1>2, <1>3
<1>5. \A i, y : ArmedAt(Front(f), i, y) <=> ArmedAt(f, i, y) /\ i # Len(f)
  BY <1>1, <1>2, <1>4 DEF ArmedAt
<1> QED
  BY <1>2, <1>3, <1>4, <1>5 DEF k

\* The greatest of some numbers that are not above n.
LEMMA MaxOfSome ==
    ASSUME NEW n \in Nat, NEW T, T \subseteq 0..n, T # {}
    PROVE  Max(T) \in T /\ \A y \in T : y <= Max(T)
<1> DEFINE U == {n - x : x \in T}
<1>1. U \subseteq Nat /\ U # {}
  <2>1. PICK x \in T : TRUE
    OBVIOUS
  <2>2. n - x \in U
    BY <2>1
  <2>3. \A y \in T : y \in 0..n
    OBVIOUS
  <2>4. \A y \in T : n - y \in Nat
    BY <2>3
  <2> QED
    BY <2>2, <2>4
<1>2. PICK m \in U : \A y \in U : ~ (<<y, m>> \in OpToRel(<, Nat))
  BY <1>1, NatLessThanWellFounded, WFMin
<1>3. \A y \in U : ~(y < m)
  BY <1>1, <1>2 DEF OpToRel
<1>4. PICK x \in T : m = n - x
  OBVIOUS
<1>5. \A y \in T : x >= y
  <2> TAKE y \in T
  <2>1. ~(n - y < m) /\ x \in 0..n /\ y \in 0..n
    BY <1>3
  <2> QED
    BY <1>4, <2>1
<1>6. \E z \in T : \A y \in T : z >= y
  BY <1>5
<1>7. Max(T) \in T /\ \A y \in T : Max(T) >= y
  BY <1>6 DEF Max
<1> QED
  BY <1>7

\* A released frame is disarmed, and goes with what was released above it.
LEMMA ReleaseFrame ==
    ASSUME frames \in Seq(Frame), NEW x
    PROVE  LET g == Release(x)
           IN  /\ g \in Seq(Frame) /\ Len(g) <= Len(frames)
               /\ Len(g) > 0 => g[Len(g)].armed
               /\ \A i \in 1 .. Len(frames) :
                     frames[i].armed /\ frames[i].owner # x => i <= Len(g) /\ g[i] = frames[i]
               /\ \A i, y : ArmedAt(g, i, y) <=> ArmedAt(frames, i, y) /\ y # x
<1> DEFINE n == Len(frames)
           off == [i \in DOMAIN frames |->
                     IF frames[i].owner = x THEN [frames[i] EXCEPT !.armed = FALSE] ELSE frames[i]]
           keep == {i \in DOMAIN frames : off[i].armed}
           k == IF keep = {} THEN 0 ELSE Max(keep)
           g == Release(x)
<1>1. /\ n \in Nat /\ DOMAIN frames = 1..n
      /\ \A i \in 1..n : /\ frames[i] \in Frame /\ frames[i].armed \in BOOLEAN
                         /\ \A y : ArmedAt(frames, i, y) <=> frames[i].armed /\ frames[i].owner = y
  BY FrameFacts
<1>2. \A i \in 1..n : /\ off[i] \in Frame
                      /\ frames[i].owner = x => ~off[i].armed
                      /\ frames[i].owner # x => off[i] = frames[i]
  BY <1>1 DEF Frame
<1>3. g = SubSeq(off, 1, k)
  BY DEF Release
<1>4. k \in 0..n /\ (k > 0 => off[k].armed) /\ \A i \in 1..n : off[i].armed => i <= k
  <2> HIDE DEF off
  <2>1. CASE keep = {}
    BY <2>1, <1>1
  <2>2. CASE keep # {}
    <3>1. keep \subseteq 0..n
      BY <1>1
    <3>2. Max(keep) \in keep /\ \A y \in keep : y <= Max(keep)
      BY <2>2, <3>1, <1>1, MaxOfSome
    <3> QED
      BY <2>2, <3>2, <1>1
  <2> QED
    BY <2>1, <2>2
<1> HIDE DEF off, keep, k, g, n
<1>5. /\ SubSeq(off, 1, k) \in Seq(Frame)
      /\ Len(SubSeq(off, 1, k)) = IF 1 <= k THEN k - 1 + 1 ELSE 0
      /\ \A i \in 1 .. k - 1 + 1 : SubSeq(off, 1, k)[i] = off[1 + i - 1]
  <2>1. 1 \in Int /\ k \in Int /\ \A i \in 1..k : off[i] \in Frame
    BY <1>1, <1>2, <1>4
  <2> QED
    BY <2>1, SubSeqProperties
<1>6. g \in Seq(Frame) /\ Len(g) = k /\ \A i \in 1..k : g[i] = off[i]
  BY <1>1, <1>3, <1>4, <1>5
<1>7. \A i \in 1..n : frames[i].armed /\ frames[i].owner # x => i <= k /\ g[i] = frames[i]
  BY <1>1, <1>2, <1>4, <1>6
<1>8. \A i, y : ArmedAt(g, i, y) <=> ArmedAt(frames, i, y) /\ y # x
  <2> TAKE i, y
  <2>1. CASE i \in 1..k
    <3>1. i \in 1..n /\ g[i] = off[i] /\ i \in 1 .. Len(g)
      BY <1>1, <1>4, <1>6, <2>1
    <3>2. ArmedAt(g, i, y) <=> g[i].armed /\ g[i].owner = y
      BY <1>6, <3>1, FrameFacts
    <3> QED
      BY <1>1, <1>2, <3>1, <3>2
  <2>2. CASE i \notin 1..k
    <3>1. ~ArmedAt(g, i, y)
      BY <1>6, <2>2 DEF ArmedAt
    <3>2. ASSUME ArmedAt(frames, i, y), y # x PROVE FALSE
      <4>1. i \in 1..n /\ frames[i].armed /\ frames[i].owner = y
        BY <1>1, <3>2 DEF ArmedAt, n
      <4> QED
        BY <1>1, <1>4, <1>7, <2>2, <3>2, <4>1
    <3> QED
      BY <3>1, <3>2
  <2> QED
    BY <2>1, <2>2
<1>9. Len(g) > 0 => g[Len(g)].armed
  BY <1>4, <1>6
<1> QED
  BY <1>1, <1>4, <1>6, <1>7, <1>8, <1>9 DEF g, n
\* To be guarded is to have an armed frame.
LEMMA ActiveIsHeld == \A x : Active(x) <=> Held(x)
BY DEF Active, Contains, Held, HeldIn, ArmedAt

LEMMA NothingHeld == \A f : Len(f) = 0 => \A x : ~HeldIn(f, x)
BY DEF HeldIn

-----------------------------------------------------------------------------
(***************************************************************************)
(* Every step keeps the invariant.                                         *)
(***************************************************************************)
LEMMA NoBodyTyped ==
    /\ NoBody \in [active : BOOLEAN, mark : Nat, fresh : SUBSET Views]
    /\ ~NoBody.active
BY DEF NoBody

LEMMA InitStore == Init => StoreInv
<1> SUFFICES ASSUME Init PROVE StoreInv
  OBVIOUS
<1>1. frames \in Seq(Frame) /\ Len(frames) = 0
  BY EmptySeq DEF Init
<1>2. StoreTypes
  <2>1. base \in 0..MAX_NESTING /\ base + 0 <= MAX_NESTING
    BY ConversionAssumption DEF Init
  <2>2. /\ mode \in {"idle", "run", "unwind"} /\ arena \in BOOLEAN
        /\ spill \in {"none", "live", "destroyed"} /\ inner \in BOOLEAN /\ body = NoBody
    BY DEF Init
  <2> QED
    BY <1>1, <2>1, <2>2, NoBodyTyped DEF StoreTypes
<1>3. FramesOK
  BY <1>1 DEF Init, FramesOK, NoBody
<1>4. \A v \in Views : ViewOK(v)
  BY <1>1, NothingHeld DEF Init, ViewOK, NoView, Held, NoBody
<1>5. ReadingOK /\ BodyOK
  BY DEF Init, ReadingOK, BodyOK, NoBody
<1>6. ArenaOK
  BY <1>1, NothingHeld DEF Init, ArenaOK, Held, NoBody
<1> QED
  BY <1>2, <1>3, <1>4, <1>5, <1>6 DEF StoreInv

LEMMA EnterStore ==
    ASSUME NEW a \in Allocators, NEW n \in 0..MAX_NESTING, Enter(a, n)
    PROVE  StoreInv'
<1>1. frames' \in Seq(Frame) /\ Len(frames') = 0
  BY EmptySeq DEF Enter
<1>2. StoreTypes'
  <2>1. base' \in 0..MAX_NESTING /\ base' + 0 <= MAX_NESTING
    BY ConversionAssumption DEF Enter
  <2>2. /\ mode' \in {"idle", "run", "unwind"} /\ arena' \in BOOLEAN
        /\ spill' \in {"none", "live", "destroyed"} /\ inner' \in BOOLEAN /\ body' = NoBody
    BY DEF Enter
  <2> QED
    BY <1>1, <2>1, <2>2, NoBodyTyped DEF StoreTypes
<1>3. FramesOK'
  BY <1>1 DEF Enter, FramesOK, NoBody
<1>4. (\A v \in Views : ViewOK(v))'
  BY <1>1, NothingHeld DEF Enter, ViewOK, NoView, Held, NoBody
<1>5. ReadingOK' /\ BodyOK'
  BY DEF Enter, ReadingOK, BodyOK, NoBody, NoView
<1>6. ArenaOK'
  BY <1>1, NothingHeld DEF Enter, ArenaOK, Held, NoBody
<1> QED
  BY <1>2, <1>3, <1>4, <1>5, <1>6 DEF StoreInv

\* A jump from whatever ran.
LEMMA JumpStore ==
    ASSUME StoreInv, mode = "run", Jump,
           UNCHANGED <<allocator, base, frames, views, arena, spill, destroys, inner, body>>
    PROVE  StoreInv'
<1>1. StoreTypes' /\ FramesOK'
  BY DEF StoreInv, StoreTypes, FramesOK, Jump
<1>2. (\A v \in Views : ViewOK(v))'
  BY DEF StoreInv, ViewOK, Held, Jump
<1>3. ReadingOK' /\ BodyOK'
  BY DEF StoreInv, ReadingOK, BodyOK, Jump
<1>4. ArenaOK'
  BY DEF StoreInv, ArenaOK, Held, Jump
<1> QED
  BY <1>1, <1>2, <1>3, <1>4 DEF StoreInv

\* The views that are not made yet are the body's own; what has a frame is not.
LEMMA EnterRecoveryStore == StoreInv /\ EnterRecovery => StoreInv'
<1> SUFFICES ASSUME StoreInv, EnterRecovery PROVE StoreInv'
  OBVIOUS
<1> DEFINE fresh == {v \in Views : views[v].status = "none"}
<1>1. /\ mode = "run" /\ ~Filling /\ ~body.active
      /\ body' = [active |-> TRUE, mark |-> Len(frames), fresh |-> fresh]
      /\ UNCHANGED <<mode, allocator, base, frames, views, arena, spill, destroys, inner>>
  BY DEF EnterRecovery, Runs
<1>2. /\ Len(frames) \in Nat
      /\ \A i \in 1 .. Len(frames) :
            /\ frames[i].owner \in Owners
            /\ frames[i].armed => ArmedAt(frames, i, frames[i].owner)
  BY FrameFacts DEF StoreInv, StoreTypes
<1>3. \A v \in Views : Held(v) => v \notin fresh
  BY DEF StoreInv, ViewOK
<1>4. "arena" \notin fresh
  BY ConversionAssumption
<1>5. /\ body'.active /\ body'.mark = Len(frames) /\ body'.fresh = fresh
      /\ body' \in [active : BOOLEAN, mark : Nat, fresh : SUBSET Views]
  BY <1>1, <1>2
<1> HIDE DEF fresh
<1>6. StoreTypes' /\ FramesOK'
  BY <1>1, <1>5 DEF StoreInv, StoreTypes, FramesOK
<1>7. (\A v \in Views : ViewOK(v))' /\ ReadingOK'
  BY <1>1 DEF StoreInv, ViewOK, ReadingOK, Held
<1>8. BodyOK'
  <2>1. Len(frames) > 0 => /\ frames[Len(frames)].armed
                           /\ frames[Len(frames)].owner \notin fresh
    BY <1>1, <1>2, <1>3, <1>4 DEF StoreInv, FramesOK, Held, HeldIn, Owners
  <2>2. \A v \in Views : views[v].status \in {"none", "filling"} => v \in fresh
    BY <1>1 DEF Filling, fresh
  <2>3. \A i \in 1 .. Len(frames) :
           /\ ~(i > Len(frames))
           /\ \A v \in Views : ArmedAt(frames, i, v) => v \notin fresh
           /\ ArmedAt(frames, i, "arena") => ~inner
    BY <1>1, <1>2, <1>3 DEF StoreInv, ArenaOK, Held, HeldIn
  <2> QED
    BY <1>1, <1>2, <1>5, <2>1, <2>2, <2>3 DEF BodyOK
<1>9. ArenaOK'
  BY <1>1, <1>5 DEF StoreInv, ArenaOK, Held
<1> QED
  BY <1>6, <1>7, <1>8, <1>9 DEF StoreInv

LEMMA LeaveRecoveryStore == StoreInv /\ LeaveRecovery => StoreInv'
<1> SUFFICES ASSUME StoreInv, LeaveRecovery PROVE StoreInv'
  OBVIOUS
<1>1. /\ mode = "run" /\ body.active
      /\ body' = NoBody /\ inner' = (inner /\ spill # "live")
      /\ UNCHANGED <<mode, allocator, base, frames, views, arena, spill, destroys>>
  BY DEF LeaveRecovery, Runs
<1>2. /\ body' \in [active : BOOLEAN, mark : Nat, fresh : SUBSET Views] /\ ~body'.active
      /\ inner' \in BOOLEAN
  BY <1>1 DEF NoBody, StoreInv, StoreTypes
<1>3. StoreTypes' /\ FramesOK' /\ BodyOK'
  BY <1>1, <1>2 DEF StoreInv, StoreTypes, FramesOK, BodyOK
<1>4. (\A v \in Views : ViewOK(v))' /\ ReadingOK'
  BY <1>1 DEF StoreInv, ViewOK, ReadingOK, Held
<1>5. ArenaOK'
  BY <1>1, <1>2 DEF StoreInv, ArenaOK, Held
<1> QED
  BY <1>3, <1>4, <1>5 DEF StoreInv

\* The call has given up what it held, or its arena has.
LEMMA ReturnStore == StoreInv /\ Return => StoreInv'
<1> SUFFICES ASSUME StoreInv, Return PROVE StoreInv'
  OBVIOUS
<1>1. /\ mode = "run" /\ ~Filling /\ ~body.active
      /\ allocator = "heap" => \A v \in Views : views[v].status # "open"
      /\ mode' = "idle" /\ frames' = <<>> /\ ~arena' /\ arena' \in BOOLEAN
      /\ UNCHANGED <<allocator, base, views, inner, body>>
  BY DEF Return, Runs
<1>2. /\ frames' \in Seq(Frame) /\ Len(frames') = 0
      /\ \A x : ~HeldIn(frames', x)
  BY <1>1, EmptySeq, NothingHeld
<1>3. IF arena /\ Held("arena") THEN spill' = "destroyed" /\ destroys' = destroys + 1
                                ELSE UNCHANGED <<spill, destroys>>
  BY ActiveIsHeld DEF Return
<1>4. StoreTypes' /\ FramesOK'
  BY <1>1, <1>2, <1>3 DEF StoreInv, StoreTypes, FramesOK
<1>5. (\A v \in Views : ViewOK(v))'
  BY <1>1, <1>2, <1>3 DEF StoreInv, ViewOK, Held, Filling
<1>6. ReadingOK' /\ BodyOK'
  BY <1>1 DEF ReadingOK, BodyOK
<1>7. ArenaOK'
  BY <1>1, <1>2, <1>3 DEF StoreInv, ArenaOK, Held
<1> QED
  BY <1>4, <1>5, <1>6, <1>7 DEF StoreInv

\* What a read changes of a view says nothing about its storage.
LEMMA ReadStore ==
    ASSUME StoreInv, DataInv, NEW v \in Views, NEW new,
           new.kind = views[v].kind, new.status = views[v].status,
           new.place = views[v].place, new.len = views[v].len, new.freed = views[v].freed,
           views' = [views EXCEPT ![v] = new],
           UNCHANGED <<mode, allocator, base, frames, arena, spill, destroys, inner, body>>
    PROVE  StoreInv'
<1>1. \A u \in Views :
        /\ views'[u].kind = views[u].kind /\ views'[u].status = views[u].status
        /\ views'[u].place = views[u].place /\ views'[u].len = views[u].len
        /\ views'[u].freed = views[u].freed
  BY DEF DataInv, ViewsTyped
<1>2. StoreTypes' /\ FramesOK'
  BY DEF StoreInv, StoreTypes, FramesOK
<1>3. (\A u \in Views : ViewOK(u))'
  BY <1>1 DEF StoreInv, ViewOK, Held
<1>4. ReadingOK' /\ BodyOK'
  BY <1>1 DEF StoreInv, ReadingOK, BodyOK
<1>5. ArenaOK'
  BY DEF StoreInv, ArenaOK, Held
<1> QED
  BY <1>2, <1>3, <1>4, <1>5 DEF StoreInv

LEMMA AdvanceKeepsStorage ==
    ASSUME NEW view \in View, NEW got, NEW requested
    PROVE  LET new == Advance(view, got, requested)
           IN  /\ new.kind = view.kind /\ new.status = view.status /\ new.place = view.place
               /\ new.len = view.len /\ new.freed = view.freed
<1> DEFINE d == view.data \o [i \in 1..got |-> view.offset + i]
           new == [view EXCEPT !.offset = @ + got, !.reads = @ + 1, !.data = d]
<1>1. Advance(view, got, requested) = new
  BY DEF Advance, View
<1>2. /\ new.kind = view.kind /\ new.status = view.status /\ new.place = view.place
      /\ new.len = view.len /\ new.freed = view.freed
  <2> HIDE DEF d
  <2> QED
    BY DEF View
<1> QED
  <2> HIDE DEF new
  <2> QED
    BY <1>1, <1>2

LEMMA ReadsStore ==
    ASSUME StoreInv, DataInv, NEW v \in Views, NEW got,
           ReadRegion(v, got) \/ NextRegion(v, got) \/ ReadElement(v)
    PROVE  StoreInv'
<1>1. views[v] \in View
  BY DEF DataInv, ViewsTyped
<1>2. PICK m, requested : views' = [views EXCEPT ![v] = Advance(views[v], m, requested)]
  BY DEF ReadRegion, NextRegion, ReadElement
<1> DEFINE new == Advance(views[v], m, requested)
<1>3. /\ new.kind = views[v].kind /\ new.status = views[v].status
      /\ new.place = views[v].place /\ new.len = views[v].len /\ new.freed = views[v].freed
  BY <1>1, AdvanceKeepsStorage
<1>4. UNCHANGED <<mode, allocator, base, frames, arena, spill, destroys, inner, body>>
  BY DEF ReadRegion, NextRegion, ReadElement
<1> HIDE DEF new
<1>5. views' = [views EXCEPT ![v] = new]
  BY <1>2 DEF new
<1> QED
  BY <1>3, <1>4, <1>5, ReadStore
-----------------------------------------------------------------------------
(***************************************************************************)
(* Steps that change one view and the frames.                              *)
(***************************************************************************)
\* Frames of one owner each, the newest armed; those that views registered in
\* the body of a recovery are above its mark, and no others.
FramesFit(f) ==
    /\ f \in Seq(Frame)
    /\ \A owner \in Owners : \A i, j \in 1 .. Len(f) :
          ArmedAt(f, i, owner) /\ ArmedAt(f, j, owner) => i = j
    /\ Len(f) > 0 => f[Len(f)].armed
    /\ body.active =>
          /\ body.mark <= Len(f)
          /\ body.mark > 0 => f[body.mark].armed /\ f[body.mark].owner \notin body.fresh
          /\ \A i \in 1 .. Len(f) : \A v \in Views :
                ArmedAt(f, i, v) => (i > body.mark <=> v \in body.fresh)

ArenaFits(f, own) ==
    body.active => \A i \in 1 .. Len(f) : ArmedAt(f, i, "arena") => (i > body.mark <=> own)

LEMMA FramesFitNow == StoreInv /\ mode = "run" => FramesFit(frames) /\ ArenaFits(frames, inner)
BY DEF StoreInv, StoreTypes, FramesOK, BodyOK, FramesFit, ArenaFits

LEMMA ReleaseFits ==
    ASSUME StoreInv, mode = "run", NEW v \in Views, body.active => v \in body.fresh
    PROVE  /\ FramesFit(Release(v)) /\ ArenaFits(Release(v), inner)
           /\ Len(Release(v)) <= Len(frames)
           /\ \A x : HeldIn(Release(v), x) <=> Held(x) /\ x # v
<1> DEFINE g == Release(v)
<1>1. FramesFit(frames) /\ ArenaFits(frames, inner)
  BY FramesFitNow
<1>2. /\ Len(frames) \in Nat
      /\ body.mark \in Nat
      /\ frames \in Seq(Frame)
  BY FrameFacts DEF StoreInv, StoreTypes
<1>3. /\ g \in Seq(Frame) /\ Len(g) <= Len(frames)
      /\ Len(g) > 0 => g[Len(g)].armed
      /\ \A i \in 1 .. Len(frames) :
            frames[i].armed /\ frames[i].owner # v => i <= Len(g) /\ g[i] = frames[i]
      /\ \A i, y : ArmedAt(g, i, y) <=> ArmedAt(frames, i, y) /\ y # v
  BY <1>2, ReleaseFrame
<1> HIDE DEF g
<1>4. Len(g) \in Nat
  BY <1>3, FrameFacts
<1>5. FramesFit(g)
  <2>1. \A owner \in Owners : \A i, j \in 1 .. Len(g) :
           ArmedAt(g, i, owner) /\ ArmedAt(g, j, owner) => i = j
    BY <1>1, <1>2, <1>3, <1>4 DEF FramesFit
  <2>2. ASSUME body.active
        PROVE  /\ body.mark <= Len(g)
               /\ body.mark > 0 => g[body.mark].armed /\ g[body.mark].owner \notin body.fresh
    BY <1>1, <1>2, <1>3, <1>4, <2>2 DEF FramesFit
  <2>3. ASSUME body.active
        PROVE  \A i \in 1 .. Len(g) : \A u \in Views :
                  ArmedAt(g, i, u) => (i > body.mark <=> u \in body.fresh)
    BY <1>1, <1>2, <1>3, <1>4, <2>3 DEF FramesFit
  <2> QED
    BY <1>3, <2>1, <2>2, <2>3 DEF FramesFit
<1>6. ArenaFits(g, inner)
  BY <1>1, <1>2, <1>3, <1>4 DEF ArenaFits
<1>7. \A x : HeldIn(g, x) <=> Held(x) /\ x # v
  <2> TAKE x
  <2>1. HeldIn(g, x) => Held(x) /\ x # v
    BY <1>2, <1>3, <1>4 DEF HeldIn, Held
  <2>2. Held(x) /\ x # v => HeldIn(g, x)
    <3> SUFFICES ASSUME Held(x), x # v PROVE HeldIn(g, x)
      OBVIOUS
    <3>1. PICK i \in 1 .. Len(frames) : ArmedAt(frames, i, x)
      BY DEF Held, HeldIn
    <3>2. ArmedAt(g, i, x)
      BY <1>3, <3>1
    <3>3. i \in 1 .. Len(g)
      BY <3>2 DEF ArmedAt
    <3> QED
      BY <3>2, <3>3 DEF HeldIn
  <2> QED
    BY <2>1, <2>2
<1> QED
  BY <1>3, <1>5, <1>6, <1>7 DEF g

\* A view's frame on top of those: the view is the body's, if there is one.
LEMMA PushFits ==
    ASSUME NEW f, FramesFit(f), NEW x \in Owners, ~HeldIn(f, x), body.mark \in Nat,
           body.active /\ x \in Views => x \in body.fresh
    PROVE  LET g == Append(f, Armed(x))
           IN  /\ FramesFit(g) /\ Len(g) = Len(f) + 1
               /\ \A y : HeldIn(g, y) <=> HeldIn(f, y) \/ y = x
               /\ \A i, y : ArmedAt(g, i, y) <=> ArmedAt(f, i, y) \/ (i = Len(f) + 1 /\ y = x)
<1> DEFINE g == Append(f, Armed(x))
<1>1. f \in Seq(Frame) /\ Len(f) \in Nat
  BY FrameFacts DEF FramesFit
<1>2. /\ g \in Seq(Frame) /\ Len(g) = Len(f) + 1 /\ g[Len(g)].armed
      /\ \A i \in 1 .. Len(f) : g[i] = f[i]
      /\ \A i, y : ArmedAt(g, i, y) <=> ArmedAt(f, i, y) \/ (i = Len(f) + 1 /\ y = x)
  BY <1>1, PushFrame
<1> HIDE DEF g
<1>3. \A i \in 1 .. Len(f) : ~ArmedAt(f, i, x)
  BY DEF HeldIn
<1>4. \A i, y : ArmedAt(f, i, y) => i \in 1 .. Len(f)
  BY DEF ArmedAt
<1>5. \A y : HeldIn(g, y) <=> HeldIn(f, y) \/ y = x
  <2> TAKE y
  <2>1. HeldIn(g, y) => HeldIn(f, y) \/ y = x
    BY <1>2, <1>4 DEF HeldIn
  <2>2. HeldIn(f, y) => HeldIn(g, y)
    BY <1>1, <1>2 DEF HeldIn
  <2>3. HeldIn(g, x)
    <3>1. Len(f) + 1 \in 1 .. Len(g)
      BY <1>1, <1>2
    <3>2. ArmedAt(g, Len(f) + 1, x)
      BY <1>2
    <3> QED
      BY <3>1, <3>2 DEF HeldIn
  <2> QED
    BY <2>1, <2>2, <2>3
<1>6. FramesFit(g)
  <2>1. \A owner \in Owners : \A i, j \in 1 .. Len(g) :
           ArmedAt(g, i, owner) /\ ArmedAt(g, j, owner) => i = j
    BY <1>1, <1>2, <1>3, <1>4 DEF FramesFit
  <2>2. ASSUME body.active
        PROVE  /\ body.mark <= Len(g)
               /\ body.mark > 0 => g[body.mark].armed /\ g[body.mark].owner \notin body.fresh
    BY <1>1, <1>2, <2>2 DEF FramesFit
  <2>3. ASSUME body.active, NEW i \in 1 .. Len(g), NEW u \in Views, ArmedAt(g, i, u)
        PROVE  i > body.mark <=> u \in body.fresh
    <3>1. CASE ArmedAt(f, i, u)
      BY <1>4, <2>3, <3>1 DEF FramesFit
    <3>2. CASE i = Len(f) + 1 /\ u = x
      <4>1. i > body.mark
        BY <1>1, <2>3, <3>2 DEF FramesFit
      <4> QED
        BY <2>3, <3>2, <4>1
    <3> QED
      BY <1>2, <2>3, <3>1, <3>2
  <2> QED
    BY <1>2, <2>1, <2>2, <2>3 DEF FramesFit
<1> QED
  BY <1>2, <1>5, <1>6 DEF g

\* One view and the frames change, while no other view is being filled.
LEMMA OneView ==
    ASSUME StoreInv, DataInv, mode = "run", NEW v \in Views, NEW new,
           views' = [views EXCEPT ![v] = new],
           UNCHANGED <<mode, allocator, base, body>>,
           \A u \in Views \ {v} : views[u].status # "filling",
           FramesFit(frames'), base + Len(frames') <= MAX_NESTING,
           \A u \in Views \ {v} : HeldIn(frames', u) <=> Held(u),
           ViewOK(v)',
           new.status = "none" => views[v].status = "none",
           new.status = "filling" =>
               /\ views[v].status \in {"none", "filling"}
               /\ new.kind = "repeated" => base + Len(frames') < MAX_NESTING,
           spill' = spill \/ (spill = "none" /\ spill' = "live"),
           arena' \in BOOLEAN, inner' \in BOOLEAN, ArenaFits(frames', inner'), ArenaOK'
    PROVE  StoreInv'
<1>1. views'[v] = new /\ \A u \in Views \ {v} : views'[u] = views[u]
  BY DEF DataInv, ViewsTyped
<1>2. StoreTypes'
  BY DEF StoreInv, StoreTypes, FramesFit
<1>3. FramesOK'
  BY DEF FramesFit, FramesOK
<1>4. (\A u \in Views : ViewOK(u))'
  <2> SUFFICES ASSUME NEW u \in Views \ {v} PROVE ViewOK(u)'
    OBVIOUS
  <2>1. ViewOK(u) /\ views'[u] = views[u] /\ (HeldIn(frames', u) <=> Held(u))
    BY <1>1 DEF StoreInv
  <2> QED
    BY <2>1 DEF ViewOK, Held
<1>5. ReadingOK'
  BY <1>1 DEF ReadingOK
<1>6. BodyOK'
  <2> SUFFICES ASSUME body.active PROVE BodyOK'
    BY DEF BodyOK
  <2>1. \A u \in Views : views'[u].status \in {"none", "filling"} => u \in body.fresh
    BY <1>1 DEF StoreInv, BodyOK
  <2> QED
    BY <2>1 DEF FramesFit, ArenaFits, BodyOK
<1> QED
  BY <1>2, <1>3, <1>4, <1>5, <1>6 DEF StoreInv

\* A step that leaves the arena and its frame alone.
LEMMA ArenaKept ==
    ASSUME StoreInv, mode' = mode, body' = body, UNCHANGED <<arena, spill, destroys, inner>>,
           HeldIn(frames', "arena") <=> Held("arena")
    PROVE  /\ ArenaOK' /\ arena' \in BOOLEAN /\ inner' \in BOOLEAN
BY DEF StoreInv, StoreTypes, ArenaOK, Held
\* In the body of a recovery, what is being read is the body's.
LEMMA ReadingIsOwn ==
    ASSUME StoreInv, mode = "run", NEW v \in Views, views[v].status = "filling"
    PROVE  /\ body.active => v \in body.fresh
           /\ \A u \in Views \ {v} : views[u].status # "filling"
           /\ views[v].freed = 0 /\ views[v].len \in Lengths
           /\ allocator = "heap" /\ views[v].len > 0 => views[v].place = "heap"
BY DEF StoreInv, BodyOK, ReadingOK, ViewOK

\* The storage of a view that could not be filled is freed by its errdefers.
LEMMA ReadFailsStore ==
    ASSUME StoreInv, DataInv, NEW v \in Views, NEW got, ReadFails(v, got)
    PROVE  StoreInv'
<1> DEFINE n == IF allocator = "heap" THEN views[v].freed + 1 ELSE views[v].freed
           new == [views[v] EXCEPT !.status = "failed", !.freed = n]
<1>1. /\ mode = "run" /\ views[v].status = "filling" /\ views[v].offset < views[v].len
      /\ frames' = Release(v)
      /\ UNCHANGED <<mode, allocator, base, arena, spill, destroys, inner, body>>
      /\ views[v] \in View
  BY DEF ReadFails, DataInv, ViewsTyped
<1>2. views' = [views EXCEPT ![v] = new]
  BY DEF ReadFails, DataInv, ViewsTyped
<1>3. /\ body.active => v \in body.fresh
      /\ \A u \in Views \ {v} : views[u].status # "filling"
      /\ views[v].freed = 0 /\ views[v].len \in Lengths
      /\ allocator = "heap" => views[v].place = "heap"
  <2>1. views[v].len > 0
    BY <1>1 DEF View
  <2> QED
    BY <1>1, <2>1, ReadingIsOwn
<1>4. /\ FramesFit(frames') /\ ArenaFits(frames', inner)
      /\ Len(frames') <= Len(frames)
      /\ \A x : HeldIn(frames', x) <=> Held(x) /\ x # v
  BY <1>1, <1>3, ReleaseFits
<1>5. /\ new.status = "failed" /\ new.freed = (IF allocator = "heap" THEN 1 ELSE 0)
      /\ new.place = views[v].place /\ new.len = views[v].len /\ new.kind = views[v].kind
      /\ views'[v] = new
  BY <1>1, <1>2, <1>3 DEF View, DataInv, ViewsTyped
<1> HIDE DEF n, new
<1>6. ViewOK(v)'
  BY <1>1, <1>3, <1>4, <1>5 DEF StoreInv, ViewOK, Held
<1>7. ArenaOK' /\ arena' \in BOOLEAN /\ inner' \in BOOLEAN /\ ArenaFits(frames', inner')
  <2>1. HeldIn(frames', "arena") <=> Held("arena")
    BY <1>4, ConversionAssumption
  <2>2. ArenaFits(frames', inner')
    BY <1>1, <1>4 DEF ArenaFits
  <2> QED
    BY <1>1, <2>1, <2>2, ArenaKept
<1>8. base + Len(frames') <= MAX_NESTING
  <2>1. Len(frames') \in Nat /\ Len(frames) \in Nat /\ base \in Nat /\ base + Len(frames) <= MAX_NESTING
    BY <1>4, FrameFacts DEF FramesFit, StoreInv, StoreTypes
  <2> QED
    BY <1>4, <2>1, ConversionAssumption
<1> QED
  BY <1>1, <1>2, <1>3, <1>4, <1>5, <1>6, <1>7, <1>8, OneView

\* A slice gives its frame up, a view keeps it, a materialized access has another.
LEMMA FinishStore ==
    ASSUME StoreInv, DataInv, NEW v \in Views, Finish(v)
    PROVE  StoreInv'
<1> DEFINE new == [views[v] EXCEPT !.status = "open"]
<1>1. /\ mode = "run" /\ views[v].status = "filling"
      /\ UNCHANGED <<mode, allocator, base, arena, spill, destroys, inner, body>>
      /\ views[v] \in View
      /\ views' = [views EXCEPT ![v] = new]
      /\ frames' = CASE views[v].kind = "slice" -> Release(v)
                     [] views[v].kind = "repeated" -> Append(Release(v), Armed(v))
                     [] OTHER -> frames
  BY DEF Finish, DataInv, ViewsTyped
<1>2. /\ body.active => v \in body.fresh
      /\ \A u \in Views \ {v} : views[u].status # "filling"
      /\ views[v].freed = 0 /\ views[v].len \in Lengths
      /\ allocator = "heap" /\ views[v].len > 0 => views[v].place = "heap"
  BY <1>1, ReadingIsOwn
<1>3. /\ new.status = "open" /\ new.freed = 0
      /\ new.place = views[v].place /\ new.len = views[v].len /\ new.kind = views[v].kind
      /\ views'[v] = new
  BY <1>1, <1>2 DEF View, DataInv, ViewsTyped
<1> HIDE DEF new
<1>4. /\ FramesFit(Release(v)) /\ ArenaFits(Release(v), inner)
      /\ Len(Release(v)) <= Len(frames)
      /\ \A x : HeldIn(Release(v), x) <=> Held(x) /\ x # v
  BY <1>1, <1>2, ReleaseFits
<1>5. /\ Len(Release(v)) \in Nat /\ Len(frames) \in Nat /\ base \in Nat
      /\ base + Len(frames) <= MAX_NESTING /\ MAX_NESTING \in Nat /\ body.mark \in Nat
  BY <1>4, FrameFacts, ConversionAssumption DEF FramesFit, StoreInv, StoreTypes
<1>6. /\ FramesFit(frames') /\ ArenaFits(frames', inner) /\ base + Len(frames') <= MAX_NESTING
      /\ \A u \in Owners \ {v} : HeldIn(frames', u) <=> Held(u)
      /\ views[v].kind # "slice" /\ Held(v) => HeldIn(frames', v)
  <2>1. CASE views[v].kind = "slice"
    BY <1>1, <1>4, <1>5, <2>1
  <2>2. CASE views[v].kind = "repeated"
    <3>1. frames' = Append(Release(v), Armed(v))
      BY <1>1, <2>2
    <3>2. v \in Owners /\ ~HeldIn(Release(v), v) /\ v # "arena"
      BY <1>4, ConversionAssumption DEF Owners
    <3>3. /\ FramesFit(frames') /\ Len(frames') = Len(Release(v)) + 1
          /\ \A y : HeldIn(frames', y) <=> HeldIn(Release(v), y) \/ y = v
          /\ \A i, y : ArmedAt(frames', i, y) <=>
                ArmedAt(Release(v), i, y) \/ (i = Len(Release(v)) + 1 /\ y = v)
      BY <1>2, <1>4, <1>5, <3>1, <3>2, PushFits
    <3>4. base + Len(frames) < MAX_NESTING
      BY <1>1, <2>2 DEF StoreInv, ReadingOK
    <3>5. ArenaFits(frames', inner)
      BY <1>4, <3>2, <3>3 DEF ArenaFits, ArmedAt
    <3> QED
      BY <1>4, <1>5, <3>3, <3>4, <3>5
  <2>3. CASE views[v].kind \notin {"slice", "repeated"}
    BY <1>1, <1>5, <2>3, FramesFitNow DEF Held
  <2> QED
    BY <2>1, <2>2, <2>3
<1>7. ViewOK(v)'
  BY <1>1, <1>2, <1>3, <1>6 DEF StoreInv, ViewOK, Held
<1>8. ArenaOK' /\ arena' \in BOOLEAN /\ inner' \in BOOLEAN /\ ArenaFits(frames', inner')
  <2>1. HeldIn(frames', "arena") <=> Held("arena")
    BY <1>6, ConversionAssumption DEF Owners
  <2>2. ArenaFits(frames', inner')
    BY <1>1, <1>6 DEF ArenaFits
  <2> QED
    BY <1>1, <2>1, <2>2, ArenaKept
<1>9. \A u \in Views \ {v} : HeldIn(frames', u) <=> Held(u)
  BY <1>6 DEF Owners
<1> QED
  BY <1>1, <1>2, <1>3, <1>6, <1>7, <1>8, <1>9, OneView

\* A handle frees what its own frame still guards.
LEMMA DeinitStore ==
    ASSUME StoreInv, DataInv, NEW v \in Views, Deinit(v)
    PROVE  StoreInv'
<1> DEFINE n == IF Held(v) /\ views[v].place = "heap" THEN views[v].freed + 1
                ELSE views[v].freed
           new == [views[v] EXCEPT !.status = "closed", !.freed = n]
<1>1. /\ mode = "run" /\ ~Filling /\ views[v].status \in {"open", "stale"}
      /\ body.active => v \in body.fresh
      /\ UNCHANGED <<mode, allocator, base, arena, spill, destroys, inner, body>>
      /\ views[v] \in View
      /\ frames' = IF Held(v) THEN Release(v) ELSE frames
  BY ActiveIsHeld DEF Deinit, Runs, DataInv, ViewsTyped
<1>2. views' = [views EXCEPT ![v] = new]
  BY ActiveIsHeld DEF Deinit, DataInv, ViewsTyped
<1>3. /\ new.status = "closed" /\ new.freed = n
      /\ new.place = views[v].place /\ new.len = views[v].len /\ new.kind = views[v].kind
      /\ views'[v] = new
  BY <1>1, <1>2 DEF View, DataInv, ViewsTyped
<1> HIDE DEF new
<1>4. /\ FramesFit(frames') /\ ArenaFits(frames', inner) /\ base + Len(frames') <= MAX_NESTING
      /\ \A x : HeldIn(frames', x) <=> Held(x) /\ x # v
  <2>1. /\ Len(frames) \in Nat /\ base \in Nat
        /\ base + Len(frames) <= MAX_NESTING /\ MAX_NESTING \in Nat
    BY FrameFacts, ConversionAssumption DEF StoreInv, StoreTypes
  <2>2. CASE Held(v)
    <3>1. /\ FramesFit(frames') /\ ArenaFits(frames', inner) /\ Len(frames') <= Len(frames)
          /\ \A x : HeldIn(frames', x) <=> Held(x) /\ x # v
      BY <1>1, <2>2, ReleaseFits
    <3>2. Len(frames') \in Nat
      BY <3>1, FrameFacts DEF FramesFit
    <3> QED
      BY <2>1, <3>1, <3>2
  <2>3. CASE ~Held(v)
    BY <1>1, <2>1, <2>3, FramesFitNow DEF Held
  <2> QED
    BY <2>2, <2>3
<1>5. ViewOK(v)'
  <2>1. ViewOK(v)
    BY DEF StoreInv
  <2>2. views[v].freed \in {0, 1} /\ (Held(v) => views[v].freed = 0)
    BY <2>1 DEF ViewOK
  <2>3. new.freed \in {0, 1} /\ (new.freed = 1 <=> views[v].freed = 1 \/ (Held(v) /\ views[v].place = "heap"))
    BY <1>3, <2>2
  <2> HIDE DEF n
  <2> QED
    BY <1>1, <1>3, <1>4, <2>1, <2>3 DEF ViewOK, Held
<1>6. ArenaOK' /\ arena' \in BOOLEAN /\ inner' \in BOOLEAN /\ ArenaFits(frames', inner')
  <2>1. HeldIn(frames', "arena") <=> Held("arena")
    BY <1>4, ConversionAssumption
  <2>2. ArenaFits(frames', inner')
    BY <1>1, <1>4 DEF ArenaFits
  <2> QED
    BY <1>1, <2>1, <2>2, ArenaKept
<1>7. \A u \in Views \ {v} : views[u].status # "filling"
  BY <1>1 DEF Filling
<1> QED
  <2> HIDE DEF n
  <2> QED
    BY <1>1, <1>2, <1>3, <1>4, <1>5, <1>6, <1>7, OneView
-----------------------------------------------------------------------------
(***************************************************************************)
(* Allocation.                                                             *)
(***************************************************************************)
\* The arena has its frame from its first allocation on.
LEMMA AllocateFits ==
    ASSUME StoreInv, mode = "run", NEW place, NEW len, Allocate(place, len),
           mode' = mode, body' = body, destroys' = destroys
    PROVE  LET g == FramesWith(place, len)
           IN  /\ FramesFit(g)
               /\ Len(g) \in Nat /\ Len(g) <= Len(frames) + 1
               /\ \A u \in Views : HeldIn(g, u) <=> Held(u)
               /\ spill' = spill \/ (spill = "none" /\ spill' = "live")
               /\ place = "spill" /\ len > 0 => spill' # "none"
               /\ arena' \in BOOLEAN /\ inner' \in BOOLEAN
               /\ ArenaFits(g, inner')
               /\ (HeldIn(frames', "arena") <=> HeldIn(g, "arena")) => ArenaOK'
<1> DEFINE g == FramesWith(place, len)
           new == Spills(place, len)
<1>1. /\ arena' = (arena \/ new) /\ spill' = (IF new THEN "live" ELSE spill)
      /\ inner' = (inner \/ (new /\ body.active))
  BY DEF Allocate
<1>2. new \in BOOLEAN /\ (new => ~arena /\ place = "spill")
  BY DEF Spills
<1>3. g = IF new THEN Append(frames, Armed("arena")) ELSE frames
  BY DEF FramesWith
<1>4. place = "spill" /\ len > 0 => new \/ arena
  BY DEF Spills
<1> HIDE DEF g, new
<1>5. /\ FramesFit(frames) /\ ArenaFits(frames, inner) /\ Len(frames) \in Nat /\ body.mark \in Nat
      /\ arena \in BOOLEAN /\ inner \in BOOLEAN
  BY FramesFitNow, FrameFacts DEF FramesFit, StoreInv, StoreTypes
<1>6. /\ arena \/ inner => spill # "none"
      /\ ~arena => spill = "none"
      /\ spill = "live" <=> Held("arena")
      /\ spill = "live" => arena
      /\ destroys = IF spill = "destroyed" THEN 1 ELSE 0
      /\ spill = "destroyed" => inner
      /\ ~body.active /\ inner => spill # "live"
  BY DEF StoreInv, ArenaOK
<1>7. CASE ~new
  <2>1. g = frames /\ arena' = arena /\ spill' = spill /\ inner' = inner
    BY <1>1, <1>2, <1>3, <1>5, <1>7
  <2>2. ArenaFits(g, inner')
    BY <1>5, <2>1 DEF ArenaFits
  <2>3. (HeldIn(frames', "arena") <=> HeldIn(g, "arena")) => ArenaOK'
    BY <2>1, ArenaKept DEF Held
  <2> QED
    BY <1>4, <1>5, <1>6, <1>7, <2>1, <2>2, <2>3 DEF g, Held
<1>8. CASE new
  <2>1. /\ g = Append(frames, Armed("arena")) /\ arena' = TRUE /\ spill' = "live"
        /\ inner' = (inner \/ body.active)
        /\ spill = "none" /\ ~inner
    BY <1>1, <1>2, <1>3, <1>6, <1>8
  <2>2. "arena" \in Owners /\ "arena" \notin Views /\ ~HeldIn(frames, "arena")
    BY <1>6, <2>1, ConversionAssumption DEF Owners, Held
  <2>3. /\ FramesFit(g) /\ Len(g) = Len(frames) + 1
        /\ \A y : HeldIn(g, y) <=> HeldIn(frames, y) \/ y = "arena"
        /\ \A i, y : ArmedAt(g, i, y) <=>
              ArmedAt(frames, i, y) \/ (i = Len(frames) + 1 /\ y = "arena")
    BY <1>5, <2>1, <2>2, PushFits
  <2>4. ArenaFits(g, inner')
    <3> SUFFICES ASSUME body.active, NEW i \in 1 .. Len(g), ArmedAt(g, i, "arena")
                 PROVE  i > body.mark /\ inner'
      BY DEF ArenaFits
    <3>1. ~ArmedAt(frames, i, "arena")
      BY <2>2 DEF HeldIn, ArmedAt
    <3>2. i = Len(frames) + 1
      BY <2>3, <3>1
    <3>3. body.mark <= Len(frames)
      BY <1>5 DEF FramesFit
    <3>4. inner'
      BY <2>1
    <3> QED
      BY <1>5, <3>2, <3>3, <3>4
  <2>5. (HeldIn(frames', "arena") <=> HeldIn(g, "arena")) => ArenaOK'
    BY <1>6, <2>1, <2>3 DEF ArenaOK, Held
  <2>6. \A u \in Views : HeldIn(g, u) <=> Held(u)
    BY <2>2, <2>3 DEF Held
  <2> QED
    BY <1>5, <2>1, <2>3, <2>4, <2>5, <2>6 DEF g
<1> QED
  BY <1>2, <1>7, <1>8

\* Of a view that is not made there is nothing.
LEMMA NotMade ==
    ASSUME StoreInv, NEW v \in Views, views[v].status = "none"
    PROVE  /\ ~Held(v) /\ views[v].freed = 0 /\ views[v].place = "none"
           /\ body.active => v \in body.fresh
BY DEF StoreInv, ViewOK, BodyOK

\* A conversion that gets no memory leaves at most the arena's frame.
LEMMA OutOfMemoryStore ==
    ASSUME StoreInv, DataInv, NEW v \in Views, NEW kind, NEW len, NEW place,
           OutOfMemory(v, kind, len, place)
    PROVE  StoreInv'
<1> DEFINE new == [views[v] EXCEPT !.status = "failed"]
<1>1. /\ mode = "run" /\ ~Filling /\ views[v].status = "none"
      /\ Allocate(place, len) /\ frames' = FramesWith(place, len)
      /\ UNCHANGED <<mode, allocator, base, destroys, body>>
      /\ views' = [views EXCEPT ![v] = new]
      /\ views[v] \in View
      /\ Room(Required(kind))
  BY DEF OutOfMemory, Requested, Runs, DataInv, ViewsTyped
<1>2. /\ new.status = "failed" /\ new.freed = views[v].freed
      /\ new.place = views[v].place /\ new.len = views[v].len /\ new.kind = views[v].kind
      /\ views'[v] = new
  BY <1>1 DEF View, DataInv, ViewsTyped
<1> HIDE DEF new
<1>3. /\ FramesFit(frames')
      /\ Len(frames') \in Nat /\ Len(frames') <= Len(frames) + 1
      /\ \A u \in Views : HeldIn(frames', u) <=> Held(u)
      /\ spill' = spill \/ (spill = "none" /\ spill' = "live")
      /\ arena' \in BOOLEAN /\ inner' \in BOOLEAN
      /\ ArenaFits(frames', inner') /\ ArenaOK'
  BY <1>1, AllocateFits
<1>4. base + Len(frames') <= MAX_NESTING
  <2>1. Len(frames) \in Nat /\ base \in Nat /\ base + Len(frames) + 2 <= MAX_NESTING
    BY <1>1, FrameFacts, ConversionAssumption DEF StoreInv, StoreTypes, Room, Required
  <2> QED
    BY <1>3, <2>1, ConversionAssumption
<1>5. ViewOK(v)'
  BY <1>1, <1>2, <1>3, NotMade DEF ViewOK, Held
<1>6. \A u \in Views \ {v} : views[u].status # "filling"
  BY <1>1 DEF Filling
<1> QED
  BY <1>1, <1>2, <1>3, <1>4, <1>5, <1>6, OneView

LEMMA OpenedHas ==
    ASSUME NEW kind, NEW len \in Nat, NEW place, NEW status
    PROVE  LET o == Opened(kind, len, place, status)
           IN  /\ o.kind = kind /\ o.status = status /\ o.len = len /\ o.freed = 0
               /\ o.place = IF len = 0 THEN "none" ELSE place
<1> DEFINE q == IF len = 0 THEN "none" ELSE place
<1>1. Opened(kind, len, place, status) =
        [kind |-> kind, status |-> status, place |-> q, len |-> len,
         offset |-> 0, data |-> <<>>, reads |-> 0, freed |-> 0]
  <2> DEFINE e == <<>>
  <2>1. NoView = [kind |-> "slice", status |-> "none", place |-> "none", len |-> 0,
                  offset |-> 0, data |-> e, reads |-> 0, freed |-> 0]
    BY DEF NoView
  <2>2. Opened(kind, len, place, status) =
          [NoView EXCEPT !.kind = kind, !.status = status, !.len = len, !.place = q]
    BY DEF Opened
  <2> HIDE DEF q, e
  <2>3. Opened(kind, len, place, status) =
          [kind |-> kind, status |-> status, place |-> q, len |-> len,
           offset |-> 0, data |-> e, reads |-> 0, freed |-> 0]
    BY <2>1, <2>2
  <2> QED
    BY <2>3 DEF e
<1> QED
  BY <1>1

\* There is a frame for what is allocated: the stack cannot be full by then.
LEMMA BeginStore ==
    ASSUME StoreInv, DataInv, NEW v \in Views, NEW kind \in Kinds(allocator),
           NEW len \in Lengths, NEW place \in Places(allocator), Begin(v, kind, len, place)
    PROVE  StoreInv'
<1> DEFINE status == IF kind = "one_pass" THEN "open" ELSE "filling"
           new == Opened(kind, len, place, status)
           g == FramesWith(place, len)
<1>1. /\ mode = "run" /\ ~Filling /\ views[v].status = "none"
      /\ Allocate(place, len)
      /\ UNCHANGED <<allocator, base, destroys, body>>
      /\ views' = [views EXCEPT ![v] = new]
      /\ Room(Required(kind))
      /\ len \in Nat
  BY ConversionAssumption DEF Begin, Requested, Runs
<1>2. /\ new.kind = kind /\ new.status = status /\ new.len = len /\ new.freed = 0
      /\ new.place = IF len = 0 THEN "none" ELSE place
      /\ views'[v] = new
  BY <1>1, OpenedHas DEF DataInv, ViewsTyped
<1>3. /\ Len(frames) \in Nat /\ base \in Nat /\ MAX_NESTING \in Nat /\ body.mark \in Nat
      /\ base + Len(frames) + 2 <= MAX_NESTING
      /\ kind = "repeated" => base + Len(frames) + 3 <= MAX_NESTING
  BY <1>1, FrameFacts, ConversionAssumption DEF StoreInv, StoreTypes, Room, Required
<1>4. ~Held(v) /\ (body.active => v \in body.fresh) /\ v \in Owners /\ v # "arena"
  BY <1>1, NotMade, ConversionAssumption DEF Owners
<1>5. /\ IF base + Len(g) < MAX_NESTING
         THEN frames' = Append(g, Armed(v)) /\ UNCHANGED mode
         ELSE frames' = SubSeq(g, 1, MAX_NESTING - base) /\ Jump
      /\ Len(g) \in Nat /\ Len(g) <= Len(frames) + 1
  <2>1. CASE Spills(place, len)
    <3>1. g = Append(frames, Armed("arena"))
      BY <2>1 DEF FramesWith
    <3>2. Len(g) = Len(frames) + 1
      BY <3>1, PushFrame DEF StoreInv, StoreTypes, Owners
    <3> QED
      BY <1>3, <3>2 DEF Begin
  <2>2. CASE ~Spills(place, len)
    BY <1>3, <2>2 DEF Begin, FramesWith
  <2> QED
    BY <2>1, <2>2
<1> HIDE DEF new, g, status
<1>6. frames' = Append(g, Armed(v)) /\ mode' = mode
  BY <1>3, <1>5
<1>7. /\ FramesFit(g)
      /\ \A u \in Views : HeldIn(g, u) <=> Held(u)
      /\ spill' = spill \/ (spill = "none" /\ spill' = "live")
      /\ place = "spill" /\ len > 0 => spill' # "none"
      /\ arena' \in BOOLEAN /\ inner' \in BOOLEAN
      /\ ArenaFits(g, inner')
      /\ (HeldIn(frames', "arena") <=> HeldIn(g, "arena")) => ArenaOK'
  BY <1>1, <1>6, AllocateFits DEF g
<1>8. /\ FramesFit(frames') /\ Len(frames') = Len(g) + 1
      /\ \A y : HeldIn(frames', y) <=> HeldIn(g, y) \/ y = v
      /\ \A i, y : ArmedAt(frames', i, y) <=> ArmedAt(g, i, y) \/ (i = Len(g) + 1 /\ y = v)
  BY <1>3, <1>4, <1>6, <1>7, PushFits
<1>9. ArenaOK' /\ ArenaFits(frames', inner')
  <2>1. ArenaOK'
    BY <1>4, <1>7, <1>8
  <2>2. ArenaFits(frames', inner')
    BY <1>1, <1>4, <1>7, <1>8 DEF ArenaFits, ArmedAt
  <2> QED
    BY <2>1, <2>2
<1>10. /\ base + Len(frames') <= MAX_NESTING
       /\ kind = "repeated" => base + Len(frames') < MAX_NESTING
  BY <1>3, <1>5, <1>8
<1>11. ViewOK(v)'
  <2>1. /\ place = "heap" => allocator = "heap" /\ kind # "slice"
        /\ allocator = "heap" => place = "heap"
        /\ status \in {"filling", "open"}
    BY DEF Places, Kinds, status, DataInv, ViewsTyped
  <2>2. HeldIn(frames', v)
    BY <1>8
  <2> QED
    BY <1>1, <1>2, <1>7, <2>1, <2>2 DEF ViewOK, Held
<1>12. /\ \A u \in Views \ {v} : views[u].status # "filling"
       /\ \A u \in Views \ {v} : HeldIn(frames', u) <=> Held(u)
       /\ new.status # "none"
  BY <1>1, <1>2, <1>7, <1>8 DEF Filling, status
<1> QED
  BY <1>1, <1>2, <1>6, <1>7, <1>8, <1>9, <1>10, <1>11, <1>12, OneView
-----------------------------------------------------------------------------
(***************************************************************************)
(* The unwinder.                                                           *)
(***************************************************************************)
\* A fired frame frees what it guards, and it is the only one that does.
LEMMA FireStore == StoreInv /\ DataInv /\ Fire => StoreInv'
<1> SUFFICES ASSUME StoreInv, DataInv, Fire PROVE StoreInv'
  OBVIOUS
<1> DEFINE top == frames[Len(frames)]
           n == Len(frames)
<1>1. /\ n \in Nat /\ body.mark \in Nat /\ base \in Nat /\ frames \in Seq(Frame)
      /\ top.owner \in Owners \/ n = 0
      /\ base + n <= MAX_NESTING
  BY FrameFacts DEF StoreInv, StoreTypes
<1>2. /\ mode = "unwind" /\ n > 0 /\ (body.active => n > body.mark)
      /\ frames' = Front(frames)
      /\ UNCHANGED <<mode, allocator, base, arena, inner, body>>
  BY <1>1 DEF Fire, Goal
<1>3. /\ frames' \in Seq(Frame) /\ Len(frames') = n - 1 /\ Last(frames) = top
      /\ \A i \in 1 .. n - 1 : frames'[i] = frames[i]
      /\ \A i, y : ArmedAt(frames', i, y) <=> ArmedAt(frames, i, y) /\ i # n
  BY <1>1, <1>2, DropFrame
<1>4. /\ top.owner \in Owners /\ top.armed \in BOOLEAN
      /\ \A y : ArmedAt(frames, n, y) <=> top.armed /\ top.owner = y
  <2>1. n \in 1 .. Len(frames)
    BY <1>1, <1>2
  <2> QED
    BY <1>1, <2>1, FrameFacts
<1>5. IF ~top.armed
      THEN UNCHANGED <<views, spill, destroys>>
      ELSE IF top.owner = "arena"
      THEN spill' = "destroyed" /\ destroys' = destroys + 1 /\ UNCHANGED views
      ELSE /\ views' = [views EXCEPT ![top.owner].freed = IF allocator = "heap" THEN @ + 1 ELSE @]
           /\ UNCHANGED <<spill, destroys>>
  BY <1>3 DEF Fire
<1> HIDE DEF top, n
<1>6. \A x \in Owners : HeldIn(frames', x) <=> Held(x) /\ ~(top.armed /\ top.owner = x)
  <2> TAKE x \in Owners
  <2>1. ASSUME HeldIn(frames', x) PROVE Held(x) /\ ~(top.armed /\ top.owner = x)
    <3>1. PICK i \in 1 .. Len(frames') : ArmedAt(frames', i, x)
      BY <2>1 DEF HeldIn
    <3>2. ArmedAt(frames, i, x) /\ i # n /\ i \in 1 .. Len(frames) /\ n \in 1 .. Len(frames)
      BY <1>1, <1>2, <1>3, <3>1 DEF n, ArmedAt
    <3>3. ~ArmedAt(frames, n, x)
      BY <3>2 DEF StoreInv, FramesOK
    <3> QED
      BY <1>4, <3>2, <3>3 DEF Held, HeldIn
  <2>2. ASSUME Held(x), ~(top.armed /\ top.owner = x) PROVE HeldIn(frames', x)
    <3>1. PICK i \in 1 .. Len(frames) : ArmedAt(frames, i, x)
      BY <2>2 DEF Held, HeldIn
    <3>2. ArmedAt(frames', i, x)
      BY <1>3, <1>4, <2>2, <3>1
    <3>3. i \in 1 .. Len(frames')
      BY <3>2 DEF ArmedAt
    <3> QED
      BY <3>2, <3>3 DEF HeldIn
  <2> QED
    BY <2>1, <2>2
<1>7. \A x \in Owners : top.armed /\ top.owner = x => Held(x)
  BY <1>1, <1>2, <1>4 DEF n, Held, HeldIn
<1>8. FramesOK'
  BY <1>1, <1>2, <1>3 DEF StoreInv, FramesOK, n
<1>9. StoreTypes'
  <2>1. spill' \in {"none", "live", "destroyed"}
    BY <1>5 DEF StoreInv, StoreTypes
  <2>2. base + Len(frames') <= MAX_NESTING
    BY <1>1, <1>3, ConversionAssumption
  <2> QED
    BY <1>2, <1>3, <2>1, <2>2 DEF StoreInv, StoreTypes
<1>10. spill' = spill \/ (spill # "none" /\ spill' = "destroyed")
  <2>1. top.armed /\ top.owner = "arena" => spill # "none"
    BY <1>4, <1>7 DEF StoreInv, ArenaOK
  <2> QED
    BY <1>5, <2>1
<1>11. (\A v \in Views : ViewOK(v))'
  <2> SUFFICES ASSUME NEW v \in Views PROVE ViewOK(v)'
    OBVIOUS
  <2>1. ViewOK(v) /\ v \in Owners
    BY DEF StoreInv, Owners
  <2>2. CASE top.armed /\ top.owner = v
    <3>1. /\ Held(v) /\ ~HeldIn(frames', v) /\ v # "arena"
          /\ views[v].status \in {"filling", "open"} /\ views[v].freed = 0
          /\ views[v] \in View
      BY <1>6, <1>7, <2>1, <2>2, ConversionAssumption DEF ViewOK, DataInv, ViewsTyped
    <3>2. body.active => v \in body.fresh
      <4>1. n \in 1 .. Len(frames) /\ ArmedAt(frames, n, v)
        BY <1>1, <1>2, <1>4, <2>2 DEF n
      <4> QED
        BY <1>2, <4>1 DEF StoreInv, BodyOK
    <3>3. /\ views'[v].status = views[v].status /\ views'[v].kind = views[v].kind
          /\ views'[v].place = views[v].place /\ views'[v].len = views[v].len
          /\ views'[v].freed = IF allocator = "heap" THEN 1 ELSE 0
      <4> DEFINE k == IF allocator = "heap" THEN views[v].freed + 1 ELSE views[v].freed
      <4>1. views' = [views EXCEPT ![v] = [views[v] EXCEPT !.freed = k]]
        BY <1>5, <2>2, <3>1 DEF DataInv, ViewsTyped
      <4>2. k = IF allocator = "heap" THEN 1 ELSE 0
        BY <3>1
      <4> HIDE DEF k
      <4>3. views'[v] = [views[v] EXCEPT !.freed = k]
        BY <4>1 DEF DataInv, ViewsTyped
      <4> QED
        BY <3>1, <4>2, <4>3 DEF View
    <3>4. spill' = spill
      BY <1>5, <2>2, <3>1
    <3> QED
      BY <1>2, <2>1, <3>1, <3>2, <3>3, <3>4 DEF ViewOK, Held
  <2>3. CASE ~(top.armed /\ top.owner = v)
    <3>1. views'[v] = views[v]
      BY <1>5, <2>3 DEF DataInv, ViewsTyped
    <3>2. HeldIn(frames', v) <=> Held(v)
      BY <1>6, <2>1, <2>3
    <3> QED
      BY <1>2, <1>10, <2>1, <3>1, <3>2 DEF ViewOK, Held
  <2> QED
    BY <2>2, <2>3
<1>12. ReadingOK'
  BY <1>2 DEF ReadingOK
<1>13. BodyOK'
  <2> SUFFICES ASSUME body.active PROVE BodyOK'
    BY <1>2 DEF BodyOK
  <2>1. \A v \in Views : views'[v].status = views[v].status
    <3> SUFFICES ASSUME NEW v \in Views PROVE views'[v].status = views[v].status
      OBVIOUS
    <3>1. views[v] \in View /\ views \in [Views -> View]
      BY DEF DataInv, ViewsTyped
    <3>2. CASE views' = views
      BY <3>2
    <3>3. CASE views' # views
      <4> DEFINE k == IF allocator = "heap" THEN views[v].freed + 1 ELSE views[v].freed
      <4>1. views' = [views EXCEPT ![top.owner].freed = IF allocator = "heap" THEN @ + 1 ELSE @]
        BY <1>5, <3>3
      <4>2. views'[v] = views[v] \/ views'[v] = [views[v] EXCEPT !.freed = k]
        <5>1. CASE top.owner = v
          BY <3>1, <4>1, <5>1
        <5>2. CASE top.owner # v
          BY <3>1, <4>1, <5>2
        <5> QED
          BY <5>1, <5>2
      <4> HIDE DEF k
      <4>3. [views[v] EXCEPT !.freed = k].status = views[v].status
        BY <3>1 DEF View
      <4> QED
        BY <4>2, <4>3
    <3> QED
      BY <3>2, <3>3
  <2>2. /\ body.mark <= n
        /\ body.mark > 0 => frames[body.mark].armed /\ frames[body.mark].owner \notin body.fresh
        /\ \A v \in Views : views[v].status \in {"none", "filling"} => v \in body.fresh
        /\ \A i \in 1..n :
              /\ \A v \in Views : ArmedAt(frames, i, v) => (i > body.mark <=> v \in body.fresh)
              /\ ArmedAt(frames, i, "arena") => (i > body.mark <=> inner)
    BY DEF StoreInv, BodyOK, n
  <2>3. body.mark <= n - 1 /\ (body.mark > 0 => body.mark \in 1 .. n - 1)
    BY <1>1, <1>2
  <2>4. \A i \in 1 .. n - 1 : i \in 1..n
    BY <1>1
  <2>5. \A i \in 1 .. n - 1 :
           /\ \A v \in Views : ArmedAt(frames', i, v) => (i > body.mark <=> v \in body.fresh)
           /\ ArmedAt(frames', i, "arena") => (i > body.mark <=> inner)
    BY <1>3, <2>2, <2>4
  <2>6. body.mark > 0 => frames'[body.mark] = frames[body.mark]
    BY <1>3, <2>3
  <2>7. body' = body /\ inner' = inner /\ Len(frames') = n - 1
    BY <1>2, <1>3
  <2> QED
    BY <2>1, <2>2, <2>3, <2>5, <2>6, <2>7 DEF BodyOK
<1>14. ArenaOK'
  <2>0. "arena" \in Owners
    BY DEF Owners
  <2>1. CASE top.armed /\ top.owner = "arena"
    <3>1. Held("arena") /\ ~HeldIn(frames', "arena")
      BY <1>6, <1>7, <2>0, <2>1
    <3>2. spill' = "destroyed" /\ destroys' = destroys + 1
      BY <1>5, <2>1
    <3>3. body.active => inner
      <4>1. n \in 1 .. Len(frames) /\ ArmedAt(frames, n, "arena")
        BY <1>1, <1>2, <1>4, <2>1 DEF n
      <4> QED
        BY <1>2, <4>1 DEF StoreInv, BodyOK
    <3> QED
      BY <1>2, <3>1, <3>2, <3>3 DEF StoreInv, ArenaOK, Held
  <2>2. CASE ~(top.armed /\ top.owner = "arena")
    <3>1. UNCHANGED <<spill, destroys>> /\ (HeldIn(frames', "arena") <=> Held("arena"))
      BY <1>5, <1>6, <2>0, <2>2
    <3> QED
      BY <1>2, <3>1, ArenaKept
  <2> QED
    BY <2>1, <2>2
<1> QED
  BY <1>8, <1>9, <1>11, <1>12, <1>13, <1>14 DEF StoreInv

\* What is left belongs to those the jump returns to.
LEMMA UnwoundStore == StoreInv /\ DataInv /\ Unwound => StoreInv'
<1> SUFFICES ASSUME StoreInv, DataInv, Unwound PROVE StoreInv'
  OBVIOUS
<1> DEFINE gone(v) == /\ views[v].status \in {"filling", "open"}
                      /\ body.active => v \in body.fresh
<1>1. /\ Len(frames) \in Nat /\ body.mark \in Nat /\ body.active \in BOOLEAN
  BY FrameFacts DEF StoreInv, StoreTypes
<1>2. /\ mode = "unwind" /\ mode' = (IF body.active THEN "run" ELSE "idle")
      /\ body' = NoBody
      /\ UNCHANGED <<allocator, base, frames, arena, spill, destroys, inner>>
      /\ IF body.active THEN Len(frames) <= body.mark ELSE Len(frames) <= 0
  BY DEF Unwound, Goal
<1>3. \A v \in Views :
        /\ views'[v].kind = views[v].kind /\ views'[v].place = views[v].place
        /\ views'[v].len = views[v].len /\ views'[v].freed = views[v].freed
        /\ views'[v].status = IF gone(v) THEN "stale" ELSE views[v].status
  <2> SUFFICES ASSUME NEW v \in Views
               PROVE  /\ views'[v].kind = views[v].kind /\ views'[v].place = views[v].place
                      /\ views'[v].len = views[v].len /\ views'[v].freed = views[v].freed
                      /\ views'[v].status = IF gone(v) THEN "stale" ELSE views[v].status
    OBVIOUS
  <2>1. views'[v] = IF gone(v) THEN [views[v] EXCEPT !.status = "stale"] ELSE views[v]
    BY DEF Unwound
  <2>2. views[v] \in View
    BY DEF DataInv, ViewsTyped
  <2> QED
    BY <2>1, <2>2 DEF View
<1> HIDE DEF gone
<1>4. body.active => Len(frames) = body.mark
  BY <1>1, <1>2 DEF StoreInv, BodyOK
<1>5. \A v \in Views : Held(v) => body.active /\ v \notin body.fresh /\ ~gone(v)
  <2> SUFFICES ASSUME NEW v \in Views, Held(v)
               PROVE  body.active /\ v \notin body.fresh /\ ~gone(v)
    OBVIOUS
  <2>1. PICK i \in 1 .. Len(frames) : ArmedAt(frames, i, v)
    BY DEF Held, HeldIn
  <2>2. body.active
    BY <1>1, <1>2, <2>1
  <2>3. ~(i > body.mark)
    BY <1>1, <1>4, <2>1, <2>2
  <2> QED
    BY <2>1, <2>2, <2>3 DEF StoreInv, BodyOK, gone
<1>6. StoreTypes'
  BY <1>2, NoBodyTyped DEF StoreInv, StoreTypes
<1>7. FramesOK'
  <2>1. mode' = "run" /\ Len(frames) > 0 => frames[Len(frames)].armed
    BY <1>1, <1>2, <1>4 DEF StoreInv, BodyOK
  <2>2. mode' = "idle" => Len(frames) = 0
    BY <1>1, <1>2
  <2> QED
    BY <1>2, <2>1, <2>2, NoBodyTyped DEF StoreInv, FramesOK
<1>8. (\A v \in Views : ViewOK(v))'
  <2> SUFFICES ASSUME NEW v \in Views PROVE ViewOK(v)'
    OBVIOUS
  <2>1. ViewOK(v) /\ (HeldIn(frames', v) <=> Held(v))
    BY <1>2 DEF StoreInv, Held
  <2>2. views'[v].status \in {"filling", "open"} =>
          views[v].status \in {"filling", "open"} /\ body.active /\ v \notin body.fresh
    BY <1>3 DEF gone
  <2> QED
    BY <1>2, <1>3, <1>5, <2>1, <2>2 DEF ViewOK, Held
<1>9. ReadingOK'
  <2>1. \A v \in Views : views'[v].status # "filling"
    <3> SUFFICES ASSUME NEW v \in Views PROVE views'[v].status # "filling"
      OBVIOUS
    <3>1. views[v].status = "filling" => (body.active => v \in body.fresh)
      BY DEF StoreInv, BodyOK
    <3> QED
      BY <1>3, <3>1 DEF gone
  <2> QED
    BY <2>1 DEF ReadingOK
<1>10. BodyOK'
  BY <1>2, NoBodyTyped DEF BodyOK
<1>11. ArenaOK'
  <2>1. HeldIn(frames', "arena") <=> Held("arena")
    BY <1>2 DEF Held
  <2>2. body.active /\ inner => ~Held("arena")
    <3> SUFFICES ASSUME body.active, inner, Held("arena") PROVE FALSE
      OBVIOUS
    <3>1. PICK i \in 1 .. Len(frames) : ArmedAt(frames, i, "arena")
      BY DEF Held, HeldIn
    <3>2. i > body.mark
      BY <3>1 DEF StoreInv, BodyOK
    <3> QED
      BY <1>1, <1>4, <3>2
  <2> QED
    BY <1>2, <2>1, <2>2, NoBodyTyped DEF StoreInv, ArenaOK, Held
<1> QED
  BY <1>6, <1>7, <1>8, <1>9, <1>10, <1>11 DEF StoreInv

-----------------------------------------------------------------------------
LEMMA NextStore == StoreInv /\ DataInv /\ [Next]_vars => StoreInv'
<1> SUFFICES ASSUME StoreInv, DataInv, [Next]_vars PROVE StoreInv'
  OBVIOUS
<1>1. ASSUME NEW a \in Allocators, NEW n \in 0..MAX_NESTING, Enter(a, n) PROVE StoreInv'
  BY <1>1, EnterStore
<1>2. CASE Return \/ EnterRecovery \/ LeaveRecovery
  BY <1>2, ReturnStore, EnterRecoveryStore, LeaveRecoveryStore
<1>3. CASE Raise
  BY <1>3, JumpStore DEF Raise
<1>4. CASE Fire \/ Unwound
  BY <1>4, FireStore, UnwoundStore
<1>5. ASSUME NEW k, Refuse(k) PROVE StoreInv'
  BY <1>5, JumpStore DEF Refuse, Runs
<1>6. ASSUME NEW v \in Views, NEW k \in Kinds(allocator), NEW len \in Lengths,
             NEW p \in Places(allocator), OutOfMemory(v, k, len, p) \/ Begin(v, k, len, p)
      PROVE  StoreInv'
  BY <1>6, OutOfMemoryStore, BeginStore
<1>7. ASSUME NEW v \in Views, NEW got \in -1 .. views[v].len + 1,
             ReadRegion(v, got) \/ ReadFails(v, got) \/ NextRegion(v, got)
      PROVE  StoreInv'
  BY <1>7, ReadsStore, ReadFailsStore
<1>8. ASSUME NEW v \in Views, ReadElement(v) \/ Finish(v) \/ Deinit(v) PROVE StoreInv'
  BY <1>8, ReadsStore, FinishStore, DeinitStore
<1>9. CASE UNCHANGED vars
  <2>1. UNCHANGED <<mode, allocator, base, frames, views, arena, spill, destroys, inner, body>>
    BY <1>9 DEF vars
  <2> QED
    BY <2>1 DEF StoreInv, StoreTypes, FramesOK, ViewOK, Held, ReadingOK, BodyOK, ArenaOK
<1> QED
  BY <1>1, <1>2, <1>3, <1>4, <1>5, <1>6, <1>7, <1>8, <1>9 DEF Next

\* StoreInv holds throughout every call.
THEOREM StoreAlways == Spec => []StoreInv
BY InitStore, NextStore, DataAlways, PTL DEF Spec

\* What a filled or open view refers to has not been freed, however frames are
\* fired and recoveries nest: its storage goes early only with an arena whose first
\* allocation was made in the body of a recovery.
THEOREM StorageIsLiveAlways == Spec => []StorageIsLive
<1>1. StoreInv => StorageIsLive
  BY DEF StoreInv, StorageIsLive, StoreTypes, ViewOK, ArenaOK
<1> QED
  BY <1>1, StoreAlways, PTL

\* No memory is lost, whatever fails and wherever R jumps: each block on the heap,
\* and the arena, has an armed frame while the call runs, and none is left when the
\* call has ended.
THEOREM NothingLostAlways == Spec => []NothingLost
<1>1. StoreInv /\ DataInv => NothingLost
  <2> SUFFICES ASSUME StoreInv, DataInv PROVE NothingLost
    OBVIOUS
  <2>1. TypeOK
    <3>1. \A v \in Views : views[v].offset <= views[v].len
      BY DEF DataInv, GivenPrefix
    <3>2. destroys \in Nat
      BY DEF StoreInv, ArenaOK
    <3> QED
      BY <3>1, <3>2 DEF StoreInv, StoreTypes, DataInv, ViewsTyped, TypeOK
  <2>2. Guarded
    BY ActiveIsHeld DEF StoreInv, ViewOK, ArenaOK, Guarded
  <2>3. ASSUME mode = "idle"
        PROVE  /\ \A v \in Views : views[v].place = "heap" => views[v].freed = 1
               /\ spill # "live"
    <3>1. Len(frames) = 0
      BY <2>3 DEF StoreInv, FramesOK
    <3>2. \A x : ~Held(x)
      BY <3>1, NothingHeld DEF Held
    <3> QED
      BY <3>2 DEF StoreInv, ViewOK, ArenaOK
  <2> QED
    BY <2>1, <2>2, <2>3 DEF NothingLost
<1> QED
  BY <1>1, StoreAlways, DataAlways, PTL

\* No block is freed twice, nor freed though it was never allocated.  With empty
\* vectors it is false: a view of one has a frame, and nothing to free.
THEOREM FreedOnceAlways ==
    ASSUME 0 \notin Lengths
    PROVE  Spec => []FreedOnce
<1>1. StoreInv /\ DataInv => FreedOnce
  <2> SUFFICES ASSUME StoreInv, DataInv PROVE FreedOnce
    OBVIOUS
  <2>1. ASSUME NEW v \in Views
        PROVE  views[v].freed <= IF views[v].place = "heap" THEN 1 ELSE 0
    <3>1. /\ views[v].freed \in {0, 1}
          /\ views[v].freed = 1 =>
                views[v].len \in Lengths /\ (views[v].len > 0 => views[v].place = "heap")
      BY DEF StoreInv, ViewOK
    <3>2. views[v].len \in Lengths => views[v].len > 0
      BY ConversionAssumption
    <3> QED
      BY <3>1, <3>2
  <2>2. destroys <= IF spill = "none" THEN 0 ELSE 1
    BY DEF StoreInv, StoreTypes, ArenaOK
  <2> QED
    BY <2>1, <2>2 DEF FreedOnce
<1> QED
  BY <1>1, StoreAlways, DataAlways, PTL
=============================================================================
