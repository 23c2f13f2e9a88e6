-------------------------- MODULE DebouncerProofs --------------------------
(***************************************************************************)
(* Proofs about Debouncer for every debounce count and any number of       *)
(* results: the few fields of debounce.go stand for the whole history.     *)
(***************************************************************************)
EXTENDS Debouncer, TLAPS

StableSet == {i \in 1..Len(seen) : Stable(i)}

HasMax == StableSet # {} => \E m \in StableSet : \A i \in StableSet : i <= m

\* Everything StreakInv says but for the committed Status.
Window ==
    LET len == Len(seen)
    IN  /\ deb \in Debouncers(Nat \ {0}) /\ start \in Status /\ seen \in Seq(Derived)
        /\ deb.streak <= deb.n /\ deb.streak <= len /\ (seen # <<>> => deb.streak >= 1)
        /\ deb.candidate = IF seen = <<>> THEN "UNKNOWN" ELSE seen[len]
        /\ \A j \in (len - deb.streak + 1)..len : seen[j] = deb.candidate
        /\ deb.streak < deb.n /\ deb.streak < len => seen[len - deb.streak] # deb.candidate

LEMMA StreakParts == StreakInv <=> Window /\ HasMax /\ CommittedIsLastStable
  BY DEF StreakInv, Window, HasMax, StableSet

\* A new debouncer has seen nothing, and holds the Status it was given.
Fresh ==
    \E n \in DebounceNs, s \in Status :
        deb = NewDebouncerWithStatus(n, s) /\ start = s /\ seen = <<>>

LEMMA FreshDebouncer == Fresh => StreakInv
<1> SUFFICES ASSUME NEW n \in DebounceNs, NEW s \in Status,
                    deb = NewDebouncerWithStatus(n, s), start = s, seen = <<>>
             PROVE  StreakInv
  BY DEF Fresh
<1>1. n \in Nat
  BY DebounceNsAssumption
<1>2. /\ deb \in Debouncers(Nat \ {0}) /\ deb.streak = 0 /\ deb.candidate = "UNKNOWN"
      /\ deb.committed = s /\ deb.n \in Nat \ {0}
  BY <1>1 DEF NewDebouncerWithStatus, Debouncers, Status, Derived
<1>3. Len(seen) = 0 /\ seen \in Seq(Derived)
  OBVIOUS
<1>4. Window
  BY <1>2, <1>3 DEF Window
<1>5. StableSet = {}
  BY <1>3 DEF StableSet
<1> QED
  BY <1>2, <1>4, <1>5, StreakParts DEF HasMax, CommittedIsLastStable, StableSet

(***************************************************************************)
(* One more result.                                                        *)
(***************************************************************************)
\* The fields Observe changes.
LEMMA ObserveFields ==
    ASSUME NEW d \in Debouncers(Nat \ {0}), NEW s \in Derived
    PROVE  LET e == Observe(d, s)
           IN  /\ e \in Debouncers(Nat \ {0}) /\ e.n = d.n /\ e.candidate = s
               /\ e.streak = IF s # d.candidate THEN 1 ELSE IF d.streak < d.n THEN d.streak + 1 ELSE d.n
               /\ e.committed = IF e.streak >= d.n THEN s ELSE d.committed
<1> DEFINE k == IF s # d.candidate THEN 1 ELSE IF d.streak < d.n THEN d.streak + 1 ELSE d.n
           c == IF k >= d.n THEN s ELSE d.committed
<1>1. k \in Nat /\ c \in Status /\ s \in Status
  BY DEF Debouncers, Status
<1>2. Observe(d, s) = [d EXCEPT !.candidate = s, !.streak = k, !.committed = c]
  BY DEF Observe, Debouncers
<1> HIDE DEF k, c
<1>3. /\ Observe(d, s) \in Debouncers(Nat \ {0}) /\ Observe(d, s).n = d.n
      /\ Observe(d, s).candidate = s /\ Observe(d, s).streak = k /\ Observe(d, s).committed = c
  BY <1>1, <1>2 DEF Debouncers
<1> QED
  BY <1>3 DEF k, c

LEMMA ProbeWindow ==
    ASSUME Window, NEW s \in Derived, Probe(s)
    PROVE  /\ Window'
           /\ Len(seen') = Len(seen) + 1 /\ seen'[Len(seen')] = s /\ deb'.n = deb.n
           /\ \A i \in 1..Len(seen) : seen'[i] = seen[i]
           /\ deb'.streak >= deb.n <=> (Stable(Len(seen)))'
           /\ deb'.committed = IF deb'.streak >= deb.n THEN s ELSE deb.committed
<1>l. PICK len \in Nat : len = Len(seen)
  BY DEF Window
<1>0. /\ len = Len(seen)
      /\ len \in Nat /\ seen \in Seq(Derived) /\ deb \in Debouncers(Nat \ {0}) /\ start \in Status
      /\ deb.n \in Nat \ {0} /\ deb.streak \in Nat
  BY <1>l DEF Window, Debouncers
<1>1. /\ seen' \in Seq(Derived) /\ Len(seen') = len + 1 /\ seen'[len + 1] = s /\ seen' # <<>>
      /\ \A i \in 1..len : seen'[i] = seen[i]
  BY <1>0 DEF Probe
<1>2. /\ deb' \in Debouncers(Nat \ {0}) /\ deb'.n = deb.n /\ deb'.candidate = s
      /\ deb'.streak = IF s # deb.candidate THEN 1 ELSE IF deb.streak < deb.n THEN deb.streak + 1 ELSE deb.n
      /\ deb'.committed = IF deb'.streak >= deb.n THEN s ELSE deb.committed
  BY <1>0, ObserveFields DEF Probe
<1>3. s = deb.candidate => len # 0 /\ deb.streak >= 1 /\ seen[len] = s
  <2>1. s # "UNKNOWN"
    BY DEF Derived
  <2> QED
    BY <1>0, <2>1 DEF Window
<1>3a. seen # <<>> => len # 0
  BY <1>0
<1>4. deb'.streak \in Nat /\ 1 <= deb'.streak /\ deb'.streak <= deb.n /\ deb'.streak <= len + 1
  BY <1>0, <1>2, <1>3 DEF Window
<1>5. ASSUME NEW j \in (len + 1 - deb'.streak + 1)..(len + 1)
      PROVE  seen'[j] = s
  <2>1. CASE s # deb.candidate
    BY <1>0, <1>1, <1>2, <2>1
  <2>2. CASE s = deb.candidate /\ j # len + 1
    <3>1. j \in (len - deb.streak + 1)..len /\ j \in 1..len
      BY <1>0, <1>2, <1>4, <2>2 DEF Window
    <3> QED
      BY <1>0, <1>1, <2>2, <3>1 DEF Window
  <2> QED
    BY <1>1, <2>1, <2>2
<1>6. ASSUME deb'.streak < deb.n, deb'.streak < len + 1
      PROVE  seen'[len + 1 - deb'.streak] # s
  <2>1. CASE s # deb.candidate
    <3>1. deb'.streak = 1 /\ len # 0
      BY <1>0, <1>2, <1>6, <2>1
    <3>2. seen[len] = deb.candidate
      BY <3>1, <1>0 DEF Window
    <3> QED
      BY <1>0, <1>1, <2>1, <3>1, <3>2
  <2>2. CASE s = deb.candidate
    <3>1. deb'.streak = deb.streak + 1 /\ deb.streak < deb.n /\ deb.streak < len
      BY <1>0, <1>2, <1>6, <2>2
    <3>2. seen[len - deb.streak] # s
      BY <1>0, <2>2, <3>1 DEF Window
    <3> QED
      BY <1>0, <1>1, <3>1, <3>2
  <2> QED
    BY <2>1, <2>2
<1>7. Window'
  <2>1. start' \in Status
    BY <1>0 DEF Probe
  <2>2. deb'.candidate = IF seen' = <<>> THEN "UNKNOWN" ELSE seen'[len + 1]
    BY <1>1, <1>2
  <2>3. deb'.streak < deb'.n /\ deb'.streak < len + 1 => seen'[len + 1 - deb'.streak] # deb'.candidate
    BY <1>2, <1>6
  <2>4. \A j \in (len + 1 - deb'.streak + 1)..(len + 1) : seen'[j] = deb'.candidate
    BY <1>2, <1>5
  <2> QED
    BY <1>1, <1>2, <1>4, <2>1, <2>2, <2>3, <2>4 DEF Window
<1>8. deb'.streak >= deb.n <=> Stable(len + 1)'
  <2>1. Stable(len + 1)' <=> len + 1 >= deb.n /\ \A j \in (len + 1 - deb.n + 1)..(len + 1) : seen'[j] = s
    BY <1>0, <1>1, <1>2 DEF Stable
  <2>2. ASSUME deb'.streak >= deb.n
        PROVE  Stable(len + 1)'
    <3>1. deb'.streak = deb.n
      BY <1>0, <1>4, <2>2
    <3> QED
      BY <1>0, <1>4, <1>5, <2>1, <3>1
  <2>3. ASSUME deb'.streak < deb.n, Stable(len + 1)'
        PROVE  FALSE
    <3>1. len + 1 >= deb.n /\ deb'.streak < len + 1
      BY <1>0, <1>4, <2>1, <2>3
    <3>2. len + 1 - deb'.streak \in (len + 1 - deb.n + 1)..(len + 1)
      BY <1>0, <1>4, <2>3
    <3> QED
      BY <1>6, <2>1, <2>3, <3>1, <3>2
  <2> QED
    BY <1>0, <1>4, <2>2, <2>3
<1>9. (Stable(Len(seen)))' <=> Stable(len + 1)'
  BY <1>1 DEF Stable
<1> QED
  BY <1>0, <1>1, <1>2, <1>7, <1>8, <1>9

LEMMA ProbeStep ==
    ASSUME StreakInv, NEW s \in Derived, Probe(s)
    PROVE  StreakInv'
<1>0. Window /\ HasMax /\ CommittedIsLastStable
  BY StreakParts
<1>l. PICK len \in Nat : len = Len(seen)
  BY <1>0 DEF Window
<1>1. len = Len(seen) /\ deb.n \in Nat \ {0} /\ deb'.streak \in Nat
  BY <1>0, <1>l, ProbeWindow DEF Window, Debouncers
<1>2. /\ Window' /\ Len(seen') = len + 1 /\ seen'[len + 1] = s /\ deb'.n = deb.n
      /\ \A i \in 1..len : seen'[i] = seen[i]
      /\ deb'.streak >= deb.n <=> Stable(len + 1)'
      /\ deb'.committed = IF deb'.streak >= deb.n THEN s ELSE deb.committed
  <2>1. Window' /\ Len(seen') = len + 1
    BY <1>0, <1>1, ProbeWindow
  <2>2. (Stable(Len(seen)))' <=> Stable(len + 1)'
    BY <2>1 DEF Stable
  <2> QED
    BY <1>0, <1>1, <2>1, <2>2, ProbeWindow
<1>3. ASSUME NEW i \in 1..len
      PROVE  Stable(i)' <=> Stable(i)
  <2>1. i >= deb.n => \A j \in (i - deb.n + 1)..i : j \in 1..len
    BY <1>1
  <2> QED
    BY <1>2, <2>1 DEF Stable
<1>4. StableSet' = StableSet \cup (IF deb'.streak >= deb.n THEN {len + 1} ELSE {})
  BY <1>1, <1>2, <1>3 DEF StableSet
<1>5. StableSet \subseteq 1..len
  BY <1>1 DEF StableSet
<1>6. CASE deb'.streak >= deb.n
  <2>1. len + 1 \in StableSet' /\ \A i \in StableSet' : i <= len + 1 /\ i \in Nat
    BY <1>1, <1>4, <1>5, <1>6
  <2>2. Max(StableSet') = len + 1
    BY <1>1, <2>1 DEF Max
  <2> QED
    BY <1>2, <1>6, <2>1, <2>2, StreakParts DEF StreakInv, Window, HasMax, StableSet, CommittedIsLastStable
<1>7. CASE ~(deb'.streak >= deb.n)
  <2>1. StableSet' = StableSet /\ deb'.committed = deb.committed /\ start' = start
    BY <1>2, <1>4, <1>7 DEF Probe
  <2>2. StableSet # {} => Max(StableSet) \in StableSet
    <3>1. ASSUME NEW m \in StableSet, \A i \in StableSet : i <= m
          PROVE  \A i \in StableSet : m >= i
      BY <1>1, <1>5, <3>1
    <3> QED
      BY <1>0, <3>1 DEF HasMax, Max
  <2>3. CommittedIsLastStable'
    BY <1>0, <1>2, <1>5, <2>1, <2>2 DEF CommittedIsLastStable, StableSet
  <2> QED
    BY <1>0, <1>2, <2>1, <2>3 DEF StreakInv, Window, HasMax, StableSet
<1> QED
  BY <1>6, <1>7

(***************************************************************************)
(* The theorems.                                                           *)
(***************************************************************************)
\* However the results flap and however often the debouncer is replaced,
\* candidate and streak describe the end of the history (debounce.go Observe).
THEOREM StreakInvariant == Spec => []StreakInv
<1>1. Init => StreakInv
  BY FreshDebouncer DEF Init, NewDebouncer, Status, Fresh
<1>2. StreakInv /\ [Next]_vars => StreakInv'
  <2> SUFFICES ASSUME StreakInv, [Next]_vars
               PROVE  StreakInv'
    OBVIOUS
  <2>1. CASE \E s \in Derived : Probe(s)
    BY <2>1, ProbeStep
  <2>2. CASE \E n \in DebounceNs : Replace(n)
    <3>1. PICK n \in DebounceNs : Replace(n)
      BY <2>2
    <3>2. deb.committed \in Status
      BY DEF StreakInv, Debouncers
    <3>3. Fresh'
      BY <3>1, <3>2 DEF Replace, Fresh
    <3>4. Fresh' => StreakInv'
      BY FreshDebouncer, PTL
    <3> QED
      BY <3>3, <3>4
  <2>3. CASE UNCHANGED vars
    BY <2>3 DEF vars, StreakInv, Stable, CommittedIsLastStable
  <2> QED
    BY <2>1, <2>2, <2>3 DEF Next
<1> QED
  BY <1>1, <1>2, PTL DEF Spec

\* The committed Status is that of the last n equal results in a row, for every
\* n and every history: two fields are enough to debounce (debounce.go Observe).
THEOREM CommitIsTheLastStable == Spec => []CommittedIsLastStable
<1>1. StreakInv => CommittedIsLastStable
  BY DEF StreakInv
<1> QED
  BY <1>1, StreakInvariant, PTL
=============================================================================
