---------------------------- MODULE TrustProofs ----------------------------
(***************************************************************************)
(* Theorems about Trust: what the context holds, that a revocation is not  *)
(* outvoted, that trust rests on pins, and that the verdicts do not depend *)
(* on the order of what was supplied.                                      *)
(***************************************************************************)
EXTENDS Trust, NatLemmas, SequenceTheorems, FiniteSetTheorems, TLAPS

-----------------------------------------------------------------------------
(* Lists. *)

\* The elements of a sequence.
LEMMA Elements ==
  ASSUME NEW S, NEW s \in Seq(S)
  PROVE  /\ Range(s) = {s[n] : n \in 1..Len(s)}
         /\ Range(s) \subseteq S
         /\ (s = << >>) <=> (Range(s) = {})
<1>1. DOMAIN s = 1..Len(s) /\ Len(s) \in Nat
  BY LenProperties
<1>2. Range(s) = {s[n] : n \in 1..Len(s)}
  BY <1>1 DEF Range
<1>3. Range(s) \subseteq S
  BY <1>1, <1>2
<1>4. s # << >> => Range(s) # {}
  <2>1. s # << >> => 1 \in 1..Len(s)
    BY <1>1, EmptySeq
  <2> QED BY <1>2, <2>1
<1>5. s = << >> => Range(s) = {}
  BY <1>1, <1>2, EmptySeq
<1> QED BY <1>2, <1>3, <1>4, <1>5

LEMMA RangeOfAppend ==
  ASSUME NEW S, NEW s \in Seq(S), NEW e \in S
  PROVE  /\ Append(s, e) \in Seq(S)
         /\ Range(Append(s, e)) = Range(s) \cup {e}
<1>1. /\ Append(s, e) \in Seq(S) /\ Len(s) \in Nat /\ Len(Append(s, e)) = Len(s) + 1
      /\ Append(s, e)[Len(s) + 1] = e
      /\ \A n \in 1..Len(s) : Append(s, e)[n] = s[n]
  OBVIOUS
<1>2. Range(s) = {s[n] : n \in 1..Len(s)}
  BY Elements
<1>3. Range(Append(s, e)) = {Append(s, e)[n] : n \in 1..(Len(s) + 1)}
  <2>1. PICK t : t = Append(s, e)
    OBVIOUS
  <2>2. t \in Seq(S) /\ Len(t) = Len(s) + 1
    BY <1>1, <2>1
  <2>3. Range(t) = {t[n] : n \in 1..Len(t)}
    BY <2>2, Elements
  <2> QED BY <2>1, <2>2, <2>3
<1>4. \A n \in 1..(Len(s) + 1) : n \in 1..Len(s) \/ n = Len(s) + 1
  BY <1>1
<1>5. \A n \in 1..Len(s) : n \in 1..(Len(s) + 1)
  BY <1>1
<1>6. Len(s) + 1 \in 1..(Len(s) + 1)
  BY <1>1
<1> QED BY <1>1, <1>2, <1>3, <1>4, <1>5, <1>6

LEMMA AppendNewRange ==
  ASSUME NEW S, NEW s \in Seq(S), NEW e \in S
  PROVE  AppendNew(s, e) \in Seq(S) /\ Range(AppendNew(s, e)) = Range(s) \cup {e}
BY RangeOfAppend DEF AppendNew

-----------------------------------------------------------------------------
(* Types of what evaluate computes. *)

EntrySet == [principal : {p.principal : p \in Pins}, scope : {p.scope : p \in Pins},
             trust_path : Seq(Keys), pinned : BOOLEAN]
Lists == Seq(EntrySet)
States == [Keys -> Lists]

LEMMA EntryOfPin ==
  ASSUME NEW p \in Pins
  PROVE  Entry(p, <<p.key>>, TRUE) \in EntrySet
<1>1. <<p.key>> \in Seq(Keys)
  BY TrustAssumption
<1> QED BY <1>1 DEF Entry, EntrySet

LEMMA EntryOfEntry ==
  ASSUME NEW e \in EntrySet, NEW k \in Keys
  PROVE  /\ Entry(e, Append(e.trust_path, k), FALSE) \in EntrySet
         /\ Entry(e, Append(e.trust_path, k), FALSE).principal = e.principal
         /\ Entry(e, Append(e.trust_path, k), FALSE).scope = e.scope
         /\ Entry(e, Append(e.trust_path, k), FALSE).trust_path = Append(e.trust_path, k)
<1>1. e.trust_path \in Seq(Keys)
  BY DEF EntrySet
<1>2. Append(e.trust_path, k) \in Seq(Keys)
  BY <1>1
<1> QED BY <1>2 DEF Entry, EntrySet

\* The entries of the pins: the unfolding of PinEntries.
LEMMA PinEntriesDef ==
  ASSUME NEW ps \in Seq(Pins), NEW k \in Keys
  PROVE  /\ PinEntries(ps, k)[0] = << >>
         /\ \A n \in 1..Len(ps) :
              PinEntries(ps, k)[n] = IF ps[n].key # k THEN PinEntries(ps, k)[n-1]
                ELSE AppendNew(PinEntries(ps, k)[n-1], Entry(ps[n], <<k>>, TRUE))
         /\ \A n \in 0..Len(ps) : PinEntries(ps, k)[n] \in Lists
<1> DEFINE N == Len(ps)
           Step(n, s) == IF ps[n].key # k THEN s ELSE AppendNew(s, Entry(ps[n], <<k>>, TRUE))
           F(f) == f = [n \in 0..N |-> IF n = 0 THEN << >> ELSE Step(n, f[n-1])]
           step == [x \in (1..N) \X Lists |-> Step(x[1], x[2])]
<1>0. N \in Nat /\ << >> \in Lists
  BY LenProperties, EmptySeq DEF Lists
<1>1. ASSUME NEW n \in 1..N, NEW s \in Lists PROVE Step(n, s) \in Lists
  <2>1. ps[n] \in Pins
    BY ElementOfSeq
  <2>2. ps[n].key = k => Entry(ps[n], <<k>>, TRUE) \in EntrySet
    BY <2>1, EntryOfPin
  <2> QED BY <2>2, AppendNewRange DEF Lists
<1>2. step \in [(1..N) \X Lists -> Lists]
  <2> HIDE DEF Step
  <2> QED BY <1>1
<1>3. PICK f : Follows(f, N, Lists, << >>, step)
  <2> HIDE DEF step, N
  <2> QED BY <1>0, <1>2, Recursion
<1>4. ASSUME NEW n \in 1..N PROVE f[n] = Step(n, f[n-1])
  <2>1. f[n] = step[<<n, f[n-1]>>] /\ f[n-1] \in Lists
    <3> HIDE DEF step, N
    <3> QED BY <1>0, <1>3, FollowsStep
  <2> HIDE DEF Step
  <2> QED BY <2>1
<1>5. F(f)
  <2>1. f \in [0..N -> Lists] /\ f[0] = << >>
    BY <1>3 DEF Follows
  <2> HIDE DEF Step
  <2> QED BY <1>4, <2>1
<1>6. PinEntries(ps, k) = CHOOSE g : F(g)
  BY DEF PinEntries
<1>7. F(PinEntries(ps, k))
  <2> HIDE DEF F
  <2> QED BY <1>5, <1>6
<1>8. /\ PinEntries(ps, k)[0] = << >>
      /\ \A n \in 1..N : PinEntries(ps, k)[n] = Step(n, PinEntries(ps, k)[n-1])
  <2> HIDE DEF Step
  <2> QED BY <1>0, <1>7
<1>9. \A n \in 0..N : PinEntries(ps, k)[n] \in Lists
  <2>1. \A n \in 1..N : PinEntries(ps, k)[n-1] \in Lists => PinEntries(ps, k)[n] \in Lists
    <3> HIDE DEF Step
    <3> QED BY <1>1, <1>8
  <2> HIDE DEF Step, N
  <2> QED BY <1>0, <1>8, <2>1, RecursionKeeps
<1> QED BY <1>8, <1>9

\* The transitions of a key.
LEMMA FromKeyDef ==
  ASSUME NEW ts \in Seq(Transitions), NEW k \in Keys
  PROVE  /\ FromKey(ts, k)[0] = << >>
         /\ \A n \in 1..Len(ts) :
              FromKey(ts, k)[n] = IF ts[n].old # k THEN FromKey(ts, k)[n-1]
                                  ELSE AppendNew(FromKey(ts, k)[n-1], ts[n])
         /\ \A n \in 0..Len(ts) : FromKey(ts, k)[n] \in Seq(Transitions)
<1> DEFINE N == Len(ts)
           Step(n, s) == IF ts[n].old # k THEN s ELSE AppendNew(s, ts[n])
           F(f) == f = [n \in 0..N |-> IF n = 0 THEN << >> ELSE Step(n, f[n-1])]
           step == [x \in (1..N) \X Seq(Transitions) |-> Step(x[1], x[2])]
<1>0. N \in Nat /\ << >> \in Seq(Transitions)
  BY LenProperties, EmptySeq
<1>1. ASSUME NEW n \in 1..N, NEW s \in Seq(Transitions) PROVE Step(n, s) \in Seq(Transitions)
  <2>1. ts[n] \in Transitions
    BY ElementOfSeq
  <2> QED BY <2>1, AppendNewRange
<1>2. step \in [(1..N) \X Seq(Transitions) -> Seq(Transitions)]
  <2> HIDE DEF Step
  <2> QED BY <1>1
<1>3. PICK f : Follows(f, N, Seq(Transitions), << >>, step)
  <2> HIDE DEF step, N
  <2> QED BY <1>0, <1>2, Recursion
<1>4. ASSUME NEW n \in 1..N PROVE f[n] = Step(n, f[n-1])
  <2>1. f[n] = step[<<n, f[n-1]>>] /\ f[n-1] \in Seq(Transitions)
    <3> HIDE DEF step, N
    <3> QED BY <1>0, <1>3, FollowsStep
  <2> HIDE DEF Step
  <2> QED BY <2>1
<1>5. F(f)
  <2>1. f \in [0..N -> Seq(Transitions)] /\ f[0] = << >>
    BY <1>3 DEF Follows
  <2> HIDE DEF Step
  <2> QED BY <1>4, <2>1
<1>6. FromKey(ts, k) = CHOOSE g : F(g)
  BY DEF FromKey
<1>7. F(FromKey(ts, k))
  <2> HIDE DEF F
  <2> QED BY <1>5, <1>6
<1>8. /\ FromKey(ts, k)[0] = << >>
      /\ \A n \in 1..N : FromKey(ts, k)[n] = Step(n, FromKey(ts, k)[n-1])
  <2> HIDE DEF Step
  <2> QED BY <1>0, <1>7
<1>9. \A n \in 0..N : FromKey(ts, k)[n] \in Seq(Transitions)
  <2>1. \A n \in 1..N : FromKey(ts, k)[n-1] \in Seq(Transitions) => FromKey(ts, k)[n] \in Seq(Transitions)
    <3> HIDE DEF Step
    <3> QED BY <1>1, <1>8
  <2> HIDE DEF Step, N
  <2> QED BY <1>0, <1>8, <2>1, RecursionKeeps
<1> QED BY <1>8, <1>9

\* Whether Handed leaves out the entry e when the list is s.
Passed(e, s) == "transition" \notin e.scope \/ \E x \in Range(s) : x.principal = e.principal

\* What Handed makes of the entry e of another key.
Successor(e, k) == Entry(e, Append(e.trust_path, k), FALSE)

\* The entries that one key hands to another.
LEMMA HandedDef ==
  ASSUME NEW old \in Lists, NEW new \in Lists, NEW k \in Keys
  PROVE  /\ Handed(old, new, k)[0] = new
         /\ \A n \in 1..Len(old) :
              Handed(old, new, k)[n] =
                IF Passed(old[n], Handed(old, new, k)[n-1]) THEN Handed(old, new, k)[n-1]
                ELSE Append(Handed(old, new, k)[n-1], Successor(old[n], k))
         /\ \A n \in 0..Len(old) : Handed(old, new, k)[n] \in Lists
<1> DEFINE N == Len(old)
           Step(n, s) == IF Passed(old[n], s) THEN s ELSE Append(s, Successor(old[n], k))
           F(f) == f = [n \in 0..N |-> IF n = 0 THEN new ELSE Step(n, f[n-1])]
           step == [x \in (1..N) \X Lists |-> Step(x[1], x[2])]
<1>0. N \in Nat /\ new \in Lists
  BY LenProperties DEF Lists
<1>1. ASSUME NEW n \in 1..N, NEW s \in Lists PROVE Step(n, s) \in Lists
  <2>1. old[n] \in EntrySet
    BY ElementOfSeq DEF Lists
  <2>2. Successor(old[n], k) \in EntrySet
    BY <2>1, EntryOfEntry DEF Successor
  <2> QED BY <2>2, RangeOfAppend DEF Lists
<1>2. step \in [(1..N) \X Lists -> Lists]
  <2> HIDE DEF Step
  <2> QED BY <1>1
<1>3. PICK f : Follows(f, N, Lists, new, step)
  <2> HIDE DEF step, N
  <2> QED BY <1>0, <1>2, Recursion
<1>4. ASSUME NEW n \in 1..N PROVE f[n] = Step(n, f[n-1])
  <2>1. f[n] = step[<<n, f[n-1]>>] /\ f[n-1] \in Lists
    <3> HIDE DEF step, N
    <3> QED BY <1>0, <1>3, FollowsStep
  <2> HIDE DEF Step
  <2> QED BY <2>1
<1>5. F(f)
  <2>1. f \in [0..N -> Lists] /\ f[0] = new
    BY <1>3 DEF Follows
  <2> HIDE DEF Step
  <2> QED BY <1>4, <2>1
<1>6. Handed(old, new, k) = CHOOSE g : F(g)
  BY DEF Handed, Passed, Successor
<1>7. F(Handed(old, new, k))
  <2> HIDE DEF F
  <2> QED BY <1>5, <1>6
<1>8. /\ Handed(old, new, k)[0] = new
      /\ \A n \in 1..N : Handed(old, new, k)[n] = Step(n, Handed(old, new, k)[n-1])
  <2> HIDE DEF Step
  <2> QED BY <1>0, <1>7
<1>9. \A n \in 0..N : Handed(old, new, k)[n] \in Lists
  <2>1. \A n \in 1..N : Handed(old, new, k)[n-1] \in Lists => Handed(old, new, k)[n] \in Lists
    <3> HIDE DEF Step
    <3> QED BY <1>1, <1>8
  <2> HIDE DEF Step, N
  <2> QED BY <1>0, <1>8, <2>1, RecursionKeeps
<1> QED BY <1>8, <1>9

LEMMA FollowType ==
  ASSUME NEW E \in States, NEW t \in Transitions
  PROVE  /\ t.old \in Keys /\ t.new \in Keys
         /\ Follow(E, t) \in States
         /\ Follow(E, t)[t.new] = Handed(E[t.old], E[t.new], t.new)[Len(E[t.old])]
         /\ \A k \in Keys : k # t.new => Follow(E, t)[k] = E[k]
<1>1. t.old \in Keys /\ t.new \in Keys
  BY TrustAssumption
<1>2. E[t.old] \in Lists /\ E[t.new] \in Lists
  BY <1>1 DEF States
<1>3. Len(E[t.old]) \in 0..Len(E[t.old])
  BY <1>2, LenProperties DEF Lists
<1>4. Handed(E[t.old], E[t.new], t.new)[Len(E[t.old])] \in Lists
  BY <1>1, <1>2, <1>3, HandedDef
<1> QED BY <1>1, <1>4 DEF Follow, States

\* The transitions of a list, followed.
LEMMA FollowListDef ==
  ASSUME NEW E \in States, NEW list \in Seq(Transitions), NEW may
  PROVE  /\ FollowList(E, list, may)[0] = E
         /\ \A n \in 1..Len(list) :
              FollowList(E, list, may)[n] =
                IF list[n] \notin may THEN FollowList(E, list, may)[n-1]
                ELSE Follow(FollowList(E, list, may)[n-1], list[n])
         /\ \A n \in 0..Len(list) : FollowList(E, list, may)[n] \in States
<1> DEFINE N == Len(list)
           Step(n, s) == IF list[n] \notin may THEN s ELSE Follow(s, list[n])
           F(f) == f = [n \in 0..N |-> IF n = 0 THEN E ELSE Step(n, f[n-1])]
           step == [x \in (1..N) \X States |-> Step(x[1], x[2])]
<1>0. N \in Nat /\ E \in States
  BY LenProperties
<1>1. ASSUME NEW n \in 1..N, NEW s \in States PROVE Step(n, s) \in States
  <2>1. list[n] \in Transitions
    BY ElementOfSeq
  <2> QED BY <2>1, FollowType
<1>2. step \in [(1..N) \X States -> States]
  <2> HIDE DEF Step
  <2> QED BY <1>1
<1>3. PICK f : Follows(f, N, States, E, step)
  <2> HIDE DEF step, N
  <2> QED BY <1>0, <1>2, Recursion
<1>4. ASSUME NEW n \in 1..N PROVE f[n] = Step(n, f[n-1])
  <2>1. f[n] = step[<<n, f[n-1]>>] /\ f[n-1] \in States
    <3> HIDE DEF step, N
    <3> QED BY <1>0, <1>3, FollowsStep
  <2> HIDE DEF Step
  <2> QED BY <2>1
<1>5. F(f)
  <2>1. f \in [0..N -> States] /\ f[0] = E
    BY <1>3 DEF Follows
  <2> HIDE DEF Step
  <2> QED BY <1>4, <2>1
<1>6. FollowList(E, list, may) = CHOOSE g : F(g)
  BY DEF FollowList
<1>7. F(FollowList(E, list, may))
  <2> HIDE DEF F
  <2> QED BY <1>5, <1>6
<1>8. /\ FollowList(E, list, may)[0] = E
      /\ \A n \in 1..N : FollowList(E, list, may)[n] = Step(n, FollowList(E, list, may)[n-1])
  <2> HIDE DEF Step
  <2> QED BY <1>0, <1>7
<1>9. \A n \in 0..N : FollowList(E, list, may)[n] \in States
  <2>1. \A n \in 1..N : FollowList(E, list, may)[n-1] \in States => FollowList(E, list, may)[n] \in States
    <3> HIDE DEF Step
    <3> QED BY <1>1, <1>8
  <2> HIDE DEF Step, N
  <2> QED BY <1>0, <1>8, <2>1, RecursionKeeps
<1> QED BY <1>8, <1>9

\* The transitions of all keys, followed.
LEMMA FollowKeysDef ==
  ASSUME NEW E \in States, NEW by \in [Keys -> Seq(Transitions)], NEW may
  PROVE  /\ FollowKeys(E, by, may)[0] = E
         /\ \A n \in 1..NumKeys :
              FollowKeys(E, by, may)[n] =
                FollowList(FollowKeys(E, by, may)[n-1], by[n], may)[Len(by[n])]
         /\ \A n \in 0..NumKeys : FollowKeys(E, by, may)[n] \in States
<1> DEFINE N == NumKeys
           Step(n, s) == FollowList(s, by[n], may)[Len(by[n])]
           F(f) == f = [n \in 0..N |-> IF n = 0 THEN E ELSE Step(n, f[n-1])]
           step == [x \in (1..N) \X States |-> Step(x[1], x[2])]
<1>0. N \in Nat /\ E \in States
  BY TrustAssumption
<1>1. ASSUME NEW n \in 1..N, NEW s \in States PROVE Step(n, s) \in States
  <2>1. by[n] \in Seq(Transitions)
    BY DEF Keys
  <2>2. Len(by[n]) \in 0..Len(by[n])
    BY <2>1, LenProperties
  <2> QED BY <2>1, <2>2, FollowListDef
<1>2. step \in [(1..N) \X States -> States]
  <2> HIDE DEF Step
  <2> QED BY <1>1
<1>3. PICK f : Follows(f, N, States, E, step)
  <2> HIDE DEF step, N
  <2> QED BY <1>0, <1>2, Recursion
<1>4. ASSUME NEW n \in 1..N PROVE f[n] = Step(n, f[n-1])
  <2>1. f[n] = step[<<n, f[n-1]>>] /\ f[n-1] \in States
    <3> HIDE DEF step, N
    <3> QED BY <1>0, <1>3, FollowsStep
  <2> HIDE DEF Step
  <2> QED BY <2>1
<1>5. F(f)
  <2>1. f \in [0..N -> States] /\ f[0] = E
    BY <1>3 DEF Follows
  <2> HIDE DEF Step
  <2> QED BY <1>4, <2>1
<1>6. FollowKeys(E, by, may) = CHOOSE g : F(g)
  BY DEF FollowKeys
<1>7. F(FollowKeys(E, by, may))
  <2> HIDE DEF F
  <2> QED BY <1>5, <1>6
<1>8. /\ FollowKeys(E, by, may)[0] = E
      /\ \A n \in 1..N : FollowKeys(E, by, may)[n] = Step(n, FollowKeys(E, by, may)[n-1])
  <2> HIDE DEF Step
  <2> QED BY <1>0, <1>7
<1>9. \A n \in 0..N : FollowKeys(E, by, may)[n] \in States
  <2>1. \A n \in 1..N : FollowKeys(E, by, may)[n-1] \in States => FollowKeys(E, by, may)[n] \in States
    <3> HIDE DEF Step
    <3> QED BY <1>1, <1>8
  <2> HIDE DEF Step, N
  <2> QED BY <1>0, <1>8, <2>1, RecursionKeeps
<1> QED BY <1>8, <1>9

\* The n-th key, by name, so that the provers unfold it once.
KeyStep(E, by, may, n) ==
  FollowKeys(E, by, may)[n] = FollowList(FollowKeys(E, by, may)[n-1], by[n], may)[Len(by[n])]

LEMMA FollowKeysStep ==
  ASSUME NEW E \in States, NEW by \in [Keys -> Seq(Transitions)], NEW may, NEW n \in 1..NumKeys
  PROVE  KeyStep(E, by, may, n)
BY FollowKeysDef DEF KeyStep

\* The passes of extend.
LEMMA PassesDef ==
  ASSUME NEW E \in States, NEW by \in [Keys -> Seq(Transitions)], NEW may
  PROVE  /\ Passes(E, by, may)[0] = E
         /\ \A n \in 1..NumKeys :
              Passes(E, by, may)[n] = FollowKeys(Passes(E, by, may)[n-1], by, may)[NumKeys]
         /\ \A n \in 0..NumKeys : Passes(E, by, may)[n] \in States
<1> DEFINE N == NumKeys
           Step(n, s) == FollowKeys(s, by, may)[NumKeys]
           F(f) == f = [n \in 0..N |-> IF n = 0 THEN E ELSE Step(n, f[n-1])]
           step == [x \in (1..N) \X States |-> Step(x[1], x[2])]
<1>0. N \in Nat /\ E \in States
  BY TrustAssumption
<1>1. ASSUME NEW n \in 1..N, NEW s \in States PROVE Step(n, s) \in States
  <2>1. NumKeys \in 0..NumKeys
    BY TrustAssumption
  <2> QED BY <2>1, FollowKeysDef
<1>2. step \in [(1..N) \X States -> States]
  <2> HIDE DEF Step
  <2> QED BY <1>1
<1>3. PICK f : Follows(f, N, States, E, step)
  <2> HIDE DEF step, N
  <2> QED BY <1>0, <1>2, Recursion
<1>4. ASSUME NEW n \in 1..N PROVE f[n] = Step(n, f[n-1])
  <2>1. f[n] = step[<<n, f[n-1]>>] /\ f[n-1] \in States
    <3> HIDE DEF step, N
    <3> QED BY <1>0, <1>3, FollowsStep
  <2> HIDE DEF Step
  <2> QED BY <2>1
<1>5. F(f)
  <2>1. f \in [0..N -> States] /\ f[0] = E
    BY <1>3 DEF Follows
  <2> HIDE DEF Step
  <2> QED BY <1>4, <2>1
<1>6. Passes(E, by, may) = CHOOSE g : F(g)
  BY DEF Passes
<1>7. F(Passes(E, by, may))
  <2> HIDE DEF F
  <2> QED BY <1>5, <1>6
<1>8. /\ Passes(E, by, may)[0] = E
      /\ \A n \in 1..N : Passes(E, by, may)[n] = Step(n, Passes(E, by, may)[n-1])
  <2> HIDE DEF Step
  <2> QED BY <1>0, <1>7
<1>9. \A n \in 0..N : Passes(E, by, may)[n] \in States
  <2>1. \A n \in 1..N : Passes(E, by, may)[n-1] \in States => Passes(E, by, may)[n] \in States
    <3> HIDE DEF Step
    <3> QED BY <1>1, <1>8
  <2> HIDE DEF Step, N
  <2> QED BY <1>0, <1>8, <2>1, RecursionKeeps
<1> QED BY <1>8, <1>9

-----------------------------------------------------------------------------
(* What a fold keeps. *)

LEMMA HandedKeeps ==
  ASSUME NEW old \in Lists, NEW new \in Lists, NEW k \in Keys, NEW P, new \in P,
         \A n \in 1..Len(old), s \in Lists :
           s \in P /\ ~Passed(old[n], s) => Append(s, Successor(old[n], k)) \in P
  PROVE  Handed(old, new, k)[Len(old)] \in P
<1>0. Len(old) \in Nat
  BY LenProperties DEF Lists
<1>1. Handed(old, new, k)[0] \in P
  BY HandedDef
<1>2. ASSUME NEW n \in 1..Len(old), Handed(old, new, k)[n-1] \in P
      PROVE  Handed(old, new, k)[n] \in P
  <2>1. PICK s : s = Handed(old, new, k)[n-1]
    OBVIOUS
  <2>2. n - 1 \in 0..Len(old)
    BY <1>0
  <2>3. s \in Lists
    BY <2>1, <2>2, HandedDef
  <2>4. Handed(old, new, k)[n] = IF Passed(old[n], s) THEN s ELSE Append(s, Successor(old[n], k))
    BY <2>1, HandedDef
  <2> QED BY <1>2, <2>1, <2>3, <2>4
<1>3. \A n \in 0..Len(old) : Handed(old, new, k)[n] \in P
  BY <1>0, <1>1, <1>2, RecursionKeeps
<1> QED BY <1>0, <1>3

LEMMA ExtendKeeps ==
  ASSUME NEW base \in States, NEW by \in [Keys -> Seq(Transitions)], NEW may,
         NEW P, base \in P,
         \A E \in States, t \in Transitions : E \in P /\ t \in may => Follow(E, t) \in P
  PROVE  Extend(base, by, may) \in P /\ Extend(base, by, may) \in States
<1>0. NumKeys \in Nat /\ NumKeys \in 0..NumKeys
  BY TrustAssumption
<1>1. ASSUME NEW E \in States, E \in P, NEW list \in Seq(Transitions)
      PROVE  FollowList(E, list, may)[Len(list)] \in P
  <2>0. Len(list) \in Nat
    BY LenProperties
  <2>1. FollowList(E, list, may)[0] \in P
    BY <1>1, FollowListDef
  <2>2. ASSUME NEW n \in 1..Len(list), FollowList(E, list, may)[n-1] \in P
        PROVE  FollowList(E, list, may)[n] \in P
    <3>1. PICK D : D = FollowList(E, list, may)[n-1]
      OBVIOUS
    <3>2. n - 1 \in 0..Len(list)
      BY <2>0
    <3>3. D \in States
      BY <3>1, <3>2, FollowListDef
    <3>4. FollowList(E, list, may)[n] = IF list[n] \notin may THEN D ELSE Follow(D, list[n])
      BY <3>1, FollowListDef
    <3>5. list[n] \in Transitions
      BY ElementOfSeq
    <3> QED BY <2>2, <3>1, <3>3, <3>4, <3>5
  <2>3. \A n \in 0..Len(list) : FollowList(E, list, may)[n] \in P
    BY <2>0, <2>1, <2>2, RecursionKeeps
  <2> QED BY <2>0, <2>3
<1>2. ASSUME NEW E \in States, E \in P
      PROVE  FollowKeys(E, by, may)[NumKeys] \in P
  <2>1. FollowKeys(E, by, may)[0] \in P
    BY <1>2, FollowKeysDef
  <2>2. ASSUME NEW n \in 1..NumKeys, FollowKeys(E, by, may)[n-1] \in P
        PROVE  FollowKeys(E, by, may)[n] \in P
    <3>1. PICK D : D = FollowKeys(E, by, may)[n-1]
      OBVIOUS
    <3>2. n - 1 \in 0..NumKeys
      BY <1>0
    <3>3. D \in States
      BY <3>1, <3>2, FollowKeysDef
    <3>4. FollowKeys(E, by, may)[n] = FollowList(D, by[n], may)[Len(by[n])]
      BY <3>1, FollowKeysDef
    <3>5. by[n] \in Seq(Transitions)
      BY DEF Keys
    <3> QED BY <1>1, <2>2, <3>1, <3>3, <3>4, <3>5
  <2>3. \A n \in 0..NumKeys : FollowKeys(E, by, may)[n] \in P
    BY <1>0, <2>1, <2>2, RecursionKeeps
  <2> QED BY <1>0, <2>3
<1>3. Passes(base, by, may)[0] \in P
  BY PassesDef
<1>4. ASSUME NEW n \in 1..NumKeys, Passes(base, by, may)[n-1] \in P
      PROVE  Passes(base, by, may)[n] \in P
  <2>1. n - 1 \in 0..NumKeys
    BY <1>0
  <2>2. Passes(base, by, may)[n-1] \in States
    BY <2>1, PassesDef
  <2>3. Passes(base, by, may)[n] = FollowKeys(Passes(base, by, may)[n-1], by, may)[NumKeys]
    BY PassesDef
  <2> QED BY <1>2, <1>4, <2>2, <2>3
<1>5. \A n \in 0..NumKeys : Passes(base, by, may)[n] \in P
  BY <1>0, <1>3, <1>4, RecursionKeeps
<1>6. Passes(base, by, may)[NumKeys] \in States
  BY <1>0, PassesDef
<1> QED BY <1>0, <1>5, <1>6 DEF Extend

\* The entries the pins create are those of the pins of the key.
LEMMA PinEntriesRange ==
  ASSUME NEW ps \in Seq(Pins), NEW k \in Keys
  PROVE  \A n \in 0..Len(ps) :
           Range(PinEntries(ps, k)[n]) =
             {Entry(ps[m], <<k>>, TRUE) : m \in {j \in 1..n : ps[j].key = k}}
<1> DEFINE En(m) == Entry(ps[m], <<k>>, TRUE)
           R(n) == {En(m) : m \in {j \in 1..n : ps[j].key = k}}
           T == {n \in Nat : Range(PinEntries(ps, k)[n]) = R(n)}
<1>0. Len(ps) \in Nat
  BY LenProperties
<1>1. 0 \in T
  <2>1. PinEntries(ps, k)[0] = << >>
    BY PinEntriesDef
  <2>2. Range(<< >>) = {}
    BY EmptySeq, Elements
  <2>3. R(0) = {}
    OBVIOUS
  <2> QED BY <2>1, <2>2, <2>3
<1>2. ASSUME NEW n \in 0..(Len(ps)-1), n \in T PROVE n + 1 \in T
  <2>1. PICK q, s : q = n + 1 /\ s = PinEntries(ps, k)[n]
    OBVIOUS
  <2>2. q \in 1..Len(ps) /\ q - 1 = n /\ n \in 0..Len(ps)
    BY <1>0, <2>1
  <2>3. s \in Lists /\ Range(s) = R(n)
    BY <1>2, <2>1, <2>2, PinEntriesDef
  <2>4. /\ ps[q].key # k => PinEntries(ps, k)[q] = s
        /\ ps[q].key = k => PinEntries(ps, k)[q] = AppendNew(s, En(q))
    <3>1. PinEntries(ps, k)[q] = IF ps[q].key # k THEN PinEntries(ps, k)[q-1]
                                 ELSE AppendNew(PinEntries(ps, k)[q-1], En(q))
      BY <2>2, PinEntriesDef
    <3> HIDE DEF En
    <3> QED BY <2>1, <2>2, <3>1
  <2>5. 1..q = 1..n \cup {q}
    BY <2>1, <2>2
  <2>6. Range(PinEntries(ps, k)[q]) = R(q)
    <3>1. CASE ps[q].key # k
      <4>1. R(q) = R(n)
        <5> HIDE DEF En
        <5> QED BY <2>5, <3>1
      <4> QED BY <2>3, <2>4, <3>1, <4>1
    <3>2. CASE ps[q].key = k
      <4>1. R(q) = R(n) \cup {En(q)}
        <5> HIDE DEF En
        <5> QED BY <2>5, <3>2
      <4>2. En(q) \in EntrySet
        BY <2>2, <3>2, ElementOfSeq, EntryOfPin
      <4>3. Range(AppendNew(s, En(q))) = Range(s) \cup {En(q)}
        <5> HIDE DEF En, R
        <5>1. s \in Seq(EntrySet)
          BY <2>3 DEF Lists
        <5> QED BY <4>2, <5>1, AppendNewRange
      <4> HIDE DEF En
      <4> QED BY <2>3, <2>4, <3>2, <4>1, <4>3
    <3> QED BY <3>1, <3>2
  <2> HIDE DEF R
  <2> QED BY <2>1, <2>2, <2>6
<1>3. \A n \in 0..Len(ps) : n \in T
  <2> HIDE DEF T
  <2> QED BY <1>0, <1>1, <1>2, UpTo
<1> QED BY <1>3

\* The list of a key holds its transitions.
LEMMA FromKeyRange ==
  ASSUME NEW ts \in Seq(Transitions), NEW k \in Keys
  PROVE  \A n \in 0..Len(ts) :
           Range(FromKey(ts, k)[n]) = {ts[m] : m \in {j \in 1..n : ts[j].old = k}}
<1> DEFINE R(n) == {ts[m] : m \in {j \in 1..n : ts[j].old = k}}
           T == {n \in Nat : Range(FromKey(ts, k)[n]) = R(n)}
<1>0. Len(ts) \in Nat
  BY LenProperties
<1>1. 0 \in T
  <2>1. FromKey(ts, k)[0] = << >>
    BY FromKeyDef
  <2>2. Range(<< >>) = {}
    BY EmptySeq, Elements
  <2>3. R(0) = {}
    OBVIOUS
  <2> QED BY <2>1, <2>2, <2>3
<1>2. ASSUME NEW n \in 0..(Len(ts)-1), n \in T PROVE n + 1 \in T
  <2>1. PICK q, s : q = n + 1 /\ s = FromKey(ts, k)[n]
    OBVIOUS
  <2>2. q \in 1..Len(ts) /\ q - 1 = n /\ n \in 0..Len(ts)
    BY <1>0, <2>1
  <2>3. s \in Seq(Transitions) /\ Range(s) = R(n)
    BY <1>2, <2>1, <2>2, FromKeyDef
  <2>4. FromKey(ts, k)[q] = IF ts[q].old # k THEN s ELSE AppendNew(s, ts[q])
    BY <2>1, <2>2, FromKeyDef
  <2>5. 1..q = 1..n \cup {q}
    BY <2>1, <2>2
  <2>6. Range(FromKey(ts, k)[q]) = R(q)
    <3>1. CASE ts[q].old # k
      <4>1. R(q) = R(n)
        BY <2>5, <3>1
      <4> QED BY <2>3, <2>4, <3>1, <4>1
    <3>2. CASE ts[q].old = k
      <4>1. R(q) = R(n) \cup {ts[q]}
        BY <2>5, <3>2
      <4>2. Range(AppendNew(s, ts[q])) = Range(s) \cup {ts[q]}
        <5>1. PICK t : t = ts[q]
          OBVIOUS
        <5>2. s \in Seq(Transitions) /\ t \in Transitions
          BY <2>2, <2>3, <5>1, ElementOfSeq
        <5>3. Range(AppendNew(s, t)) = Range(s) \cup {t}
          BY <5>2, AppendNewRange
        <5> QED BY <5>1, <5>3
      <4> QED BY <2>3, <2>4, <3>2, <4>1, <4>2
    <3> QED BY <3>1, <3>2
  <2> HIDE DEF R
  <2> QED BY <2>1, <2>2, <2>6
<1>3. \A n \in 0..Len(ts) : n \in T
  <2> HIDE DEF T
  <2> QED BY <1>0, <1>1, <1>2, UpTo
<1> QED BY <1>3

-----------------------------------------------------------------------------
(* What the context holds. *)

Loaded == [statement : {r \in Revocations : r.valid}, source : Sources]

\* The inductive invariant: statements that verified, the operator's revocations
\* before a bundle's.
TrustInd ==
  /\ pins \in Seq(Pins)
  /\ transitions \in Seq({t \in Transitions : t.valid})
  /\ revocations \in Seq(Loaded)
  /\ statements_seen \in Nat
  /\ Len(transitions) + Len(revocations) <= statements_seen
  /\ \A m, n \in 1..Len(revocations) :
       m < n /\ revocations[n].source = "operator" => revocations[m].source = "operator"

LEMMA TrustInitInd == TrustInit => TrustInd
<1> SUFFICES ASSUME TrustInit PROVE TrustInd
  OBVIOUS
<1>1. /\ pins \in Seq(Pins)
      /\ transitions \in Seq({t \in Transitions : t.valid})
      /\ revocations \in Seq(Loaded)
      /\ Len(transitions) = 0 /\ Len(revocations) = 0
  BY EmptySeq DEF TrustInit
<1> QED BY <1>1 DEF TrustInit, TrustInd

LEMMA TrustStepInd ==
  ASSUME TrustInd, [TrustNext]_vars
  PROVE  TrustInd'
<1> USE DEF TrustInd
<1>1. ASSUME NEW p \in Pins, AddPin(p) PROVE TrustInd'
  BY <1>1 DEF AddPin
<1>2. ASSUME NEW t \in Transitions, AddTransition(t) PROVE TrustInd'
  <2>1. CASE transitions' = transitions
    <3>1. Len(transitions) \in Nat /\ Len(revocations) \in Nat
      BY LenProperties
    <3> QED BY <1>2, <2>1, <3>1 DEF AddTransition
  <2>2. CASE transitions' = Append(transitions, t) /\ t.valid
    <3>1. /\ Len(transitions) \in Nat /\ Len(revocations) \in Nat
          /\ Len(transitions') = Len(transitions) + 1
          /\ transitions' \in Seq({x \in Transitions : x.valid})
      BY <2>2, LenProperties
    <3> QED BY <1>2, <3>1 DEF AddTransition
  <2> QED BY <1>2, <2>1, <2>2 DEF AddTransition, Verifies
<1>3. ASSUME NEW r \in Revocations, NEW source \in Sources, AddRevocation(r, source)
      PROVE  TrustInd'
  <2>0. Len(transitions) \in Nat /\ Len(revocations) \in Nat
    BY LenProperties
  <2>1. CASE revocations' = revocations
    BY <1>3, <2>0, <2>1 DEF AddRevocation
  <2>2. CASE revocations' = Append(revocations, [statement |-> r, source |-> source]) /\ r.valid
    <3>1. PICK x : x = [statement |-> r, source |-> source]
      OBVIOUS
    <3>2. x \in Loaded /\ x.source = source
      BY <2>2, <3>1 DEF Loaded
    <3>3. /\ revocations' \in Seq(Loaded)
          /\ Len(revocations') = Len(revocations) + 1
          /\ revocations'[Len(revocations) + 1] = x
          /\ \A n \in 1..Len(revocations) : revocations'[n] = revocations[n]
      BY <2>0, <2>2, <3>1, <3>2
    <3>4. source = "operator" => \A n \in 1..Len(revocations) : revocations[n].source = "operator"
      <4>1. Range(revocations) = {revocations[n] : n \in 1..Len(revocations)}
        BY Elements
      <4> QED BY <1>3, <4>1 DEF AddRevocation, InTurn
    <3>5. ASSUME NEW m \in 1..Len(revocations'), NEW n \in 1..Len(revocations'),
                 m < n, revocations'[n].source = "operator"
          PROVE  revocations'[m].source = "operator"
      <4>1. m \in 1..Len(revocations)
        BY <2>0, <3>3, <3>5
      <4>2. CASE n \in 1..Len(revocations)
        BY <3>3, <3>5, <4>1, <4>2
      <4>3. CASE n = Len(revocations) + 1
        BY <3>2, <3>3, <3>4, <3>5, <4>1, <4>3
      <4> QED BY <2>0, <3>3, <4>2, <4>3
    <3> QED BY <1>3, <2>0, <3>3, <3>5 DEF AddRevocation
  <2> QED BY <1>3, <2>1, <2>2 DEF AddRevocation, Verifies
<1>4. ASSUME UNCHANGED vars PROVE TrustInd'
  BY <1>4 DEF vars
<1> QED BY <1>1, <1>2, <1>3, <1>4 DEF TrustNext

LEMMA TrustIndHolds == TrustSpec => []TrustInd
<1>1. TrustInd /\ [TrustNext]_vars => TrustInd'
  BY TrustStepInd
<1> QED BY <1>1, TrustInitInd, PTL DEF TrustSpec

LEMMA IndType == TrustInd => TrustTypeOK
<1> SUFFICES ASSUME TrustInd PROVE TrustTypeOK
  OBVIOUS
<1>1. Range(revocations) \subseteq Loaded
  BY Elements DEF TrustInd
<1> QED BY <1>1 DEF TrustInd, TrustTypeOK, Loaded

\* The context holds the statements that verified, and no more than were read
\* (push_pin, add_statement_file).
THEOREM TrustTypeCorrect == TrustSpec => []TrustTypeOK
BY TrustIndHolds, IndType, PTL

-----------------------------------------------------------------------------
(* Evaluation of any context. *)

ContextOK(ctx) ==
  /\ ctx.pins \in Seq(Pins)
  /\ ctx.transitions \in Seq(Transitions)
  /\ ctx.revocations \in Seq(Loaded)

LEMMA ContextOfInd == TrustInd => ContextOK(Context)
<1> SUFFICES ASSUME TrustInd PROVE ContextOK(Context)
  OBVIOUS
<1>1. transitions \in Seq(Transitions)
  <2>1. transitions \in Seq({t \in Transitions : t.valid})
    BY DEF TrustInd
  <2> QED BY <2>1
<1> QED BY <1>1 DEF TrustInd, ContextOK, Context

LEMMA BaseFacts ==
  ASSUME NEW ctx, ContextOK(ctx)
  PROVE  /\ Base(ctx) \in States
         /\ \A k \in Keys : Range(Base(ctx)[k]) =
              {Entry(p, <<k>>, TRUE) : p \in {q \in Range(ctx.pins) : q.key = k}}
<1>1. PICK ps : ps = ctx.pins
  OBVIOUS
<1>2. ps \in Seq(Pins) /\ Len(ps) \in Nat /\ Len(ps) \in 0..Len(ps)
  BY <1>1, LenProperties DEF ContextOK
<1>3. ASSUME NEW k \in Keys PROVE Base(ctx)[k] \in Lists
  <2>1. PinEntries(ps, k)[Len(ps)] \in Lists
    BY <1>2, PinEntriesDef
  <2> QED BY <1>1, <2>1 DEF Base
<1>4. ASSUME NEW k \in Keys
      PROVE  Range(Base(ctx)[k]) = {Entry(p, <<k>>, TRUE) : p \in {q \in Range(ps) : q.key = k}}
  <2>1. Range(PinEntries(ps, k)[Len(ps)]) =
          {Entry(ps[m], <<k>>, TRUE) : m \in {j \in 1..Len(ps) : ps[j].key = k}}
    BY <1>2, PinEntriesRange
  <2>2. Range(ps) = {ps[n] : n \in 1..Len(ps)}
    BY <1>2, Elements
  <2>3. Base(ctx)[k] = PinEntries(ps, k)[Len(ps)]
    BY <1>1 DEF Base
  <2> QED BY <2>1, <2>2, <2>3
<1>5. Base(ctx) \in States
  BY <1>3 DEF Base, States
<1> QED BY <1>1, <1>4, <1>5

LEMMA ByOldFacts ==
  ASSUME NEW ctx, ContextOK(ctx)
  PROVE  /\ ByOld(ctx) \in [Keys -> Seq(Transitions)]
         /\ \A k \in Keys : Range(ByOld(ctx)[k]) = {t \in Range(ctx.transitions) : t.old = k}
<1>1. PICK ts : ts = ctx.transitions
  OBVIOUS
<1>2. ts \in Seq(Transitions) /\ Len(ts) \in Nat /\ Len(ts) \in 0..Len(ts)
  BY <1>1, LenProperties DEF ContextOK
<1>3. ASSUME NEW k \in Keys PROVE ByOld(ctx)[k] \in Seq(Transitions)
  <2>1. FromKey(ts, k)[Len(ts)] \in Seq(Transitions)
    BY <1>2, FromKeyDef
  <2> QED BY <1>1, <2>1 DEF ByOld
<1>4. ASSUME NEW k \in Keys
      PROVE  Range(ByOld(ctx)[k]) = {t \in Range(ts) : t.old = k}
  <2>1. Range(FromKey(ts, k)[Len(ts)]) = {ts[m] : m \in {j \in 1..Len(ts) : ts[j].old = k}}
    BY <1>2, FromKeyRange
  <2>2. Range(ts) = {ts[n] : n \in 1..Len(ts)}
    BY <1>2, Elements
  <2>3. ByOld(ctx)[k] = FromKey(ts, k)[Len(ts)]
    BY <1>1 DEF ByOld
  <2> QED BY <2>1, <2>2, <2>3
<1>5. ByOld(ctx) \in [Keys -> Seq(Transitions)]
  BY <1>3 DEF ByOld
<1> QED BY <1>1, <1>4, <1>5

\* Trust is only added.
LEMMA FollowGrows ==
  ASSUME NEW E \in States, NEW t \in Transitions, NEW k \in Keys
  PROVE  Range(E[k]) \subseteq Range(Follow(E, t)[k])
<1>1. CASE k # t.new
  BY <1>1, FollowType
<1>2. CASE k = t.new
  <2>1. PICK old, new : old = E[t.old] /\ new = E[k]
    OBVIOUS
  <2>2. old \in Lists /\ new \in Lists
    BY <2>1, FollowType DEF States
  <2> DEFINE P == {s \in Lists : Range(new) \subseteq Range(s)}
  <2>3. ASSUME NEW n \in 1..Len(old), NEW s \in Lists, s \in P
        PROVE  Append(s, Successor(old[n], k)) \in P
    <3>1. PICK e : e = Successor(old[n], k)
      OBVIOUS
    <3>2. e \in EntrySet
      BY <2>2, <3>1, ElementOfSeq, EntryOfEntry DEF Lists, Successor
    <3>3. Append(s, e) \in Lists /\ Range(Append(s, e)) = Range(s) \cup {e}
      BY <3>2, RangeOfAppend DEF Lists
    <3> QED BY <2>3, <3>1, <3>3
  <2>4. new \in P
    BY <2>2
  <2>5. Handed(old, new, k)[Len(old)] \in P
    <3> HIDE DEF P
    <3> QED BY <2>2, <2>3, <2>4, HandedKeeps
  <2>6. Follow(E, t)[k] = Handed(old, new, k)[Len(old)]
    BY <1>2, <2>1, FollowType
  <2> QED BY <2>1, <2>5, <2>6
<1> QED BY <1>1, <1>2

LEMMA ExtendGrows ==
  ASSUME NEW base \in States, NEW by \in [Keys -> Seq(Transitions)], NEW may, NEW k \in Keys
  PROVE  Range(base[k]) \subseteq Range(Extend(base, by, may)[k])
<1> DEFINE P == {E \in States : Range(base[k]) \subseteq Range(E[k])}
<1>1. base \in P
  OBVIOUS
<1>2. ASSUME NEW E \in States, NEW t \in Transitions, E \in P PROVE Follow(E, t) \in P
  BY <1>2, FollowType, FollowGrows
<1>3. Extend(base, by, may) \in P
  <2> HIDE DEF P
  <2> QED BY <1>1, <1>2, ExtendKeeps
<1> QED BY <1>3

LEMMA PrincipalOfPin ==
  ASSUME NEW ctx, ContextOK(ctx), NEW p \in Range(ctx.pins)
  PROVE  p.key \in Keys /\ p.principal \in Principals(ctx)[p.key]
<1>1. p \in Pins
  BY Elements DEF ContextOK
<1>2. PICK k : k = p.key
  OBVIOUS
<1>3. k \in Keys
  BY <1>1, <1>2, TrustAssumption
<1>4. PICK e : e = Entry(p, <<k>>, TRUE)
  OBVIOUS
<1>5. e \in Range(Base(ctx)[k]) /\ e.principal = p.principal
  <2>1. e \in {Entry(x, <<k>>, TRUE) : x \in {q \in Range(ctx.pins) : q.key = k}}
    BY <1>2, <1>4
  <2>2. e.principal = p.principal
    BY <1>4 DEF Entry
  <2> QED BY <1>3, <2>1, <2>2, BaseFacts
<1>6. PICK may : Principals(ctx) =
        [x \in Keys |-> {y.principal : y \in Range(Extend(Base(ctx), ByOld(ctx), may)[x])}]
  BY DEF Principals
<1>7. e \in Range(Extend(Base(ctx), ByOld(ctx), may)[k])
  BY <1>3, <1>5, BaseFacts, ByOldFacts, ExtendGrows
<1> QED BY <1>2, <1>3, <1>5, <1>6, <1>7

-----------------------------------------------------------------------------
(* Revocations. *)

\* What a set's common part allows, each of them allows.
LEMMA CutsAllow ==
  ASSUME NEW by, NEW obj, NEW r \in by, NEW c,
         c = [heads      |-> Common({x.heads : x \in by}),
              releases   |-> Common({x.releases : x \in by}),
              successors |-> Common({x.successors : x \in by})],
         RevocationAllows(c, obj)
  PROVE  RevocationAllows(r, obj)
<1>1. c.heads \subseteq r.heads /\ c.releases \subseteq r.releases /\ c.successors \subseteq r.successors
  BY DEF Common
<1>2. Covered(c.heads, obj.id) => Covered(r.heads, obj.id)
  BY <1>1 DEF Covered
<1> QED BY <1>1, <1>2 DEF RevocationAllows

\* The common part of no sets allows nothing.
LEMMA CutsOfNone ==
  ASSUME NEW obj, NEW c,
         c = [heads      |-> Common({x.heads : x \in {}}),
              releases   |-> Common({x.releases : x \in {}}),
              successors |-> Common({x.successors : x \in {}})]
  PROVE  ~RevocationAllows(c, obj)
<1>1. c.heads = {} /\ c.releases = {} /\ c.successors = {}
  BY DEF Common
<1> QED BY <1>1 DEF RevocationAllows, Covered

LEMMA AcceptedIfAllowed ==
  ASSUME NEW ctx, NEW k \in Keys, NEW obj, Accept(Evaluate(ctx), k, obj) = "ok",
         k \in RevokedKeys(ctx)
  PROVE  RevocationAllows(Cuts(ctx)[k], obj)
<1>1. Evaluate(ctx).revoked = Cuts(ctx)
  BY DEF Evaluate
<1>2. DOMAIN Cuts(ctx) = RevokedKeys(ctx)
  BY DEF Cuts
<1> QED BY <1>1, <1>2 DEF Accept

\* A pin of a principal that the key is pinned for has authority over it.
LEMMA PinnedIsAuthority ==
  ASSUME TrustInd, NEW k \in Keys
  PROVE  PinnedAuthority(k) \subseteq AuthorityOver(Context, k)
<1>1. PICK ctx : ctx = Context
  OBVIOUS
<1>2. ContextOK(ctx) /\ ctx.pins = pins /\ ctx.revocations = revocations
  BY <1>1, ContextOfInd DEF Context
<1> SUFFICES ASSUME NEW r \in PinnedAuthority(k) PROVE r \in AuthorityOver(ctx, k)
  BY <1>1
<1>3. PICK p \in Range(pins), q \in Range(pins) :
        /\ p.key = k /\ q.key = r.revoker /\ p.principal = q.principal
        /\ "revocation" \in q.scope
  BY DEF PinnedAuthority
<1>4. p.principal \in Principals(ctx)[k]
  BY <1>2, <1>3, PrincipalOfPin
<1>5. HasAuthority(ctx, r.revoker, Principals(ctx)[k])
  BY <1>2, <1>3, <1>4 DEF HasAuthority
<1> QED BY <1>2, <1>5 DEF PinnedAuthority, AuthorityOver, Statements

LEMMA IndRevocation == TrustInd => RevocationHolds
<1> SUFFICES ASSUME TrustInd, NEW k \in Keys, NEW obj \in Objects,
                    Accept(Evaluate(Context), k, obj) = "ok"
             PROVE  /\ \A r \in PinnedAuthority(k) : RevocationAllows(r, obj)
                    /\ (\E x \in Range(revocations) :
                          x.statement.revoked = k /\ x.statement.revoker = k)
                         => \E x \in Range(revocations) :
                              /\ x.statement.revoked = k /\ x.statement.revoker # k
                              /\ RevocationAllows(x.statement, obj)
  BY DEF RevocationHolds
<1>1. PICK ctx : ctx = Context
  OBVIOUS
<1>2. ContextOK(ctx) /\ ctx.pins = pins /\ ctx.revocations = revocations
  BY <1>1, ContextOfInd DEF Context
<1>3. PICK by : by = AuthorityOver(ctx, k)
  OBVIOUS
<1>4. k \in RevokedKeys(ctx) =>
        /\ RevocationAllows(Cuts(ctx)[k], obj)
        /\ Cuts(ctx)[k] = [heads      |-> Common({x.heads : x \in by}),
                           releases   |-> Common({x.releases : x \in by}),
                           successors |-> Common({x.successors : x \in by})]
  BY <1>1, <1>3, AcceptedIfAllowed DEF Cuts
<1>5. ASSUME NEW r \in by PROVE RevocationAllows(r, obj)
  <2>1. k \in RevokedKeys(ctx)
    BY <1>3 DEF RevokedKeys
  <2> QED BY <1>4, <2>1, CutsAllow
<1>6. PinnedAuthority(k) \subseteq by
  BY <1>1, <1>3, PinnedIsAuthority
<1>7. ASSUME NEW x \in Range(revocations), x.statement.revoked = k, x.statement.revoker = k
      PROVE  \E y \in Range(revocations) :
               /\ y.statement.revoked = k /\ y.statement.revoker # k
               /\ RevocationAllows(y.statement, obj)
  <2>1. k \in RevokedKeys(ctx)
    BY <1>2, <1>7 DEF RevokedKeys, Statements
  <2>2. by # {}
    BY <1>4, <2>1, CutsOfNone
  <2>3. PICK r \in by : TRUE
    BY <2>2
  <2>4. r \in Statements(ctx) /\ r.revoked = k /\ r.revoker # k
    BY <1>3, <2>3 DEF AuthorityOver
  <2>5. PICK y \in Range(revocations) : y.statement = r
    BY <1>2, <2>4 DEF Statements
  <2> QED BY <1>5, <2>3, <2>4, <2>5
<1> QED BY <1>5, <1>6, <1>7

\* A revocation by an authority over a pinned key is not outvoted, and a key that
\* revoked itself is not trusted again without one (evaluate, RevocationCut::allows).
THEOREM RevocationCorrect == TrustSpec => []RevocationHolds
BY TrustIndHolds, IndRevocation, PTL

-----------------------------------------------------------------------------
(* Trust paths. *)

\* A transition that may be followed is a sound link.
LEMMA FollowedIsSound ==
  ASSUME TrustInd, NEW t \in Range(transitions), MayFollow(Context, Cuts(Context), t)
  PROVE  SoundLink(t.old, t.new)
<1>1. PICK ctx : ctx = Context
  OBVIOUS
<1>2. ContextOK(ctx) /\ ctx.transitions = transitions /\ ctx.revocations = revocations
  BY <1>1, ContextOfInd DEF Context
<1>3. t \in Transitions /\ t.old \in Keys
  <2>1. t \in {x \in Transitions : x.valid}
    BY Elements DEF TrustInd
  <2> QED BY <2>1, TrustAssumption
<1>4. PICK by : by = AuthorityOver(ctx, t.old)
  OBVIOUS
<1>5. PinnedAuthority(t.old) \subseteq by
  BY <1>1, <1>3, <1>4, PinnedIsAuthority
<1>6. by \subseteq {x.statement : x \in {y \in Range(revocations) : y.statement.revoked = t.old}}
  BY <1>2, <1>4 DEF AuthorityOver, Statements
<1>7. DOMAIN Cuts(ctx) = RevokedKeys(ctx)
  BY DEF Cuts
<1>8. CASE t.old \in RevokedKeys(ctx)
  <2>1. t.new \in Cuts(ctx)[t.old].successors
    BY <1>1, <1>7, <1>8 DEF MayFollow
  <2>2. Cuts(ctx)[t.old].successors = Common({x.successors : x \in by})
    BY <1>4, <1>8 DEF Cuts
  <2>3. /\ \A r \in by : t.new \in r.successors
        /\ \E r \in by : t.new \in r.successors
    BY <2>1, <2>2 DEF Common
  <2>4. \A r \in by : r.revoker # t.old
    BY <1>4 DEF AuthorityOver
  <2> QED BY <1>5, <1>6, <2>3, <2>4 DEF SoundLink
<1>9. CASE t.old \notin RevokedKeys(ctx)
  <2>1. by = {}
    BY <1>3, <1>4, <1>9 DEF RevokedKeys
  <2>2. ASSUME NEW x \in Range(revocations), x.statement.revoked = t.old
        PROVE  x.statement.revoker # t.old
    BY <1>2, <1>3, <1>9, <2>2 DEF RevokedKeys, Statements
  <2>3. t.old \notin Equivocating(ctx)
    BY <1>1, <1>7, <1>9 DEF MayFollow
  <2>4. ASSUME NEW u \in Range(transitions), u.old = t.old PROVE u = t
    BY <1>2, <2>3, <2>4 DEF Equivocating
  <2> QED BY <1>5, <2>1, <2>2, <2>4 DEF SoundLink
<1> QED BY <1>8, <1>9

\* The entry e of key k rests on a pin.
RootedEntry(e, k) ==
  LET path == e.trust_path IN
  /\ path \in Seq(Keys) /\ Len(path) >= 1 /\ path[Len(path)] = k
  /\ Len(path) > 1 => "transition" \in e.scope
  /\ \A n \in 1..(Len(path) - 1) : SoundLink(path[n], path[n+1])
  /\ \E p \in Range(pins) : p.scope = e.scope /\ path[1] = p.key

LEMMA RootedPin ==
  ASSUME NEW p \in Range(pins), p.key \in Keys
  PROVE  RootedEntry(Entry(p, <<p.key>>, TRUE), p.key)
<1>1. PICK path : path = <<p.key>>
  OBVIOUS
<1>2. path \in Seq(Keys) /\ Len(path) = 1 /\ path[1] = p.key
  BY <1>1
<1> QED BY <1>1, <1>2 DEF RootedEntry, Entry

LEMMA RootedSuccessor ==
  ASSUME NEW e \in EntrySet, NEW j \in Keys, NEW k \in Keys, RootedEntry(e, j),
         SoundLink(j, k), "transition" \in e.scope
  PROVE  RootedEntry(Successor(e, k), k)
<1>1. PICK path, new, f : path = e.trust_path /\ new = Append(path, k) /\ f = Successor(e, k)
  OBVIOUS
<1>2. /\ path \in Seq(Keys) /\ Len(path) >= 1 /\ path[Len(path)] = j
      /\ \A n \in 1..(Len(path) - 1) : SoundLink(path[n], path[n+1])
  BY <1>1 DEF RootedEntry
<1>3. PICK p \in Range(pins) : p.scope = e.scope /\ path[1] = p.key
  BY <1>1 DEF RootedEntry
<1>4. /\ new \in Seq(Keys) /\ Len(path) \in Nat /\ Len(new) = Len(path) + 1
      /\ new[Len(path) + 1] = k
      /\ \A n \in 1..Len(path) : new[n] = path[n]
  BY <1>1, <1>2
<1>5. f.trust_path = new /\ f.scope = e.scope
  BY <1>1, EntryOfEntry DEF Successor
<1>6. ASSUME NEW n \in 1..(Len(new) - 1) PROVE SoundLink(new[n], new[n+1])
  <2>1. CASE n = Len(path)
    <3>1. new[n] = j /\ new[n+1] = k
      BY <1>2, <1>4, <2>1
    <3> QED BY <3>1
  <2>2. CASE n \in 1..(Len(path) - 1)
    <3>1. new[n] = path[n] /\ new[n+1] = path[n+1]
      BY <1>4, <2>2
    <3> QED BY <1>2, <2>2, <3>1
  <2> QED BY <1>4, <2>1, <2>2
<1>7. new[1] = path[1] /\ Len(new) >= 1 /\ new[Len(new)] = k
  BY <1>2, <1>4
<1>8. RootedEntry(f, k)
  BY <1>3, <1>4, <1>5, <1>6, <1>7 DEF RootedEntry
<1> QED BY <1>1, <1>8

RootedStates == {E \in States : \A k \in Keys : \A e \in Range(E[k]) : RootedEntry(e, k)}

LEMMA RootedFollow ==
  ASSUME NEW E \in RootedStates, NEW t \in Transitions, SoundLink(t.old, t.new)
  PROVE  Follow(E, t) \in RootedStates
<1>1. PICK j, k, old, new : j = t.old /\ k = t.new /\ old = E[j] /\ new = E[k]
  OBVIOUS
<1>2. E \in States /\ j \in Keys /\ k \in Keys /\ SoundLink(j, k)
  BY <1>1, FollowType DEF RootedStates
<1>3. old \in Lists /\ new \in Lists
  BY <1>1, <1>2 DEF States
<1> DEFINE P == {s \in Lists : \A e \in Range(s) : RootedEntry(e, k)}
<1>4. new \in P
  BY <1>1, <1>2, <1>3 DEF RootedStates
<1>5. ASSUME NEW n \in 1..Len(old), NEW s \in Lists, s \in P, ~Passed(old[n], s)
      PROVE  Append(s, Successor(old[n], k)) \in P
  <2>1. PICK e, f : e = old[n] /\ f = Successor(e, k)
    OBVIOUS
  <2>2. e \in EntrySet /\ e \in Range(old)
    BY <1>3, <2>1, ElementOfSeq, Elements DEF Lists
  <2>3. RootedEntry(e, j)
    BY <1>1, <1>2, <2>2 DEF RootedStates
  <2>4. "transition" \in e.scope
    BY <1>5, <2>1 DEF Passed
  <2>5. RootedEntry(f, k)
    BY <1>2, <2>1, <2>2, <2>3, <2>4, RootedSuccessor
  <2>6. f \in EntrySet
    BY <1>2, <2>1, <2>2, EntryOfEntry DEF Successor
  <2>7. Append(s, f) \in Lists /\ Range(Append(s, f)) = Range(s) \cup {f}
    BY <2>6, RangeOfAppend DEF Lists
  <2> QED BY <1>5, <2>1, <2>5, <2>7
<1>6. Handed(old, new, k)[Len(old)] \in P
  <2> HIDE DEF P
  <2> QED BY <1>2, <1>3, <1>4, <1>5, HandedKeeps
<1>7. /\ Follow(E, t) \in States
      /\ Follow(E, t)[k] = Handed(old, new, k)[Len(old)]
      /\ \A x \in Keys : x # k => Follow(E, t)[x] = E[x]
  BY <1>1, <1>2, FollowType
<1>8. ASSUME NEW x \in Keys, NEW e \in Range(Follow(E, t)[x]) PROVE RootedEntry(e, x)
  <2>1. CASE x = k
    BY <1>6, <1>7, <1>8, <2>1
  <2>2. CASE x # k
    BY <1>7, <1>8, <2>2 DEF RootedStates
  <2> QED BY <2>1, <2>2
<1> QED BY <1>7, <1>8 DEF RootedStates

LEMMA RootedEvaluation ==
  ASSUME TrustInd
  PROVE  Evaluate(Context).entries \in RootedStates
<1>1. PICK ctx : ctx = Context
  OBVIOUS
<1>2. ContextOK(ctx) /\ ctx.transitions = transitions /\ ctx.pins = pins
  BY <1>1, ContextOfInd DEF Context
<1>3. PICK base, by, may : /\ base = Base(ctx) /\ by = ByOld(ctx)
                           /\ may = {t \in Range(ctx.transitions) : MayFollow(ctx, Cuts(ctx), t)}
  OBVIOUS
<1>4. base \in States /\ by \in [Keys -> Seq(Transitions)]
  BY <1>2, <1>3, BaseFacts, ByOldFacts
<1>5. base \in RootedStates
  <2>1. ASSUME NEW k \in Keys, NEW e \in Range(base[k]) PROVE RootedEntry(e, k)
    <3>1. Range(base[k]) = {Entry(p, <<k>>, TRUE) : p \in {q \in Range(pins) : q.key = k}}
      BY <1>2, <1>3, BaseFacts
    <3>2. PICK p \in Range(pins) : p.key = k /\ e = Entry(p, <<k>>, TRUE)
      BY <2>1, <3>1
    <3> QED BY <3>2, RootedPin
  <2> QED BY <1>4, <2>1 DEF RootedStates
<1>6. ASSUME NEW E \in States, NEW t \in Transitions, E \in RootedStates, t \in may
      PROVE  Follow(E, t) \in RootedStates
  <2>1. SoundLink(t.old, t.new)
    BY <1>1, <1>2, <1>3, <1>6, FollowedIsSound
  <2> QED BY <1>6, <2>1, RootedFollow
<1>7. Extend(base, by, may) \in RootedStates
  BY <1>4, <1>5, <1>6, ExtendKeeps
<1> QED BY <1>1, <1>3, <1>7 DEF Evaluate

LEMMA IndRooted == TrustInd => TrustIsRooted
<1> SUFFICES ASSUME TrustInd, NEW k \in Keys, NEW obj \in Objects,
                    Accept(Evaluate(Context), k, obj) = "ok"
             PROVE  \E e \in Range(Evaluate(Context).entries[k]), p \in Range(pins) :
                      LET path == e.trust_path IN
                      /\ obj.kind \in p.scope
                      /\ path[1] = p.key /\ path[Len(path)] = k
                      /\ Len(path) > 1 => "transition" \in p.scope
                      /\ \A n \in 1..(Len(path) - 1) : SoundLink(path[n], path[n+1])
  BY DEF TrustIsRooted
<1>1. PICK E : E = Evaluate(Context).entries
  OBVIOUS
<1>2. PICK e \in Range(E[k]) : obj.kind \in e.scope
  BY <1>1 DEF Accept
<1>3. RootedEntry(e, k)
  BY <1>1, <1>2, RootedEvaluation DEF RootedStates
<1>4. PICK p \in Range(pins) : p.scope = e.scope /\ e.trust_path[1] = p.key
  BY <1>3 DEF RootedEntry
<1> QED BY <1>1, <1>2, <1>3, <1>4 DEF RootedEntry

\* What is accepted is signed by a pinned key, or by one that sound transitions
\* lead to from it (evaluate, extend, accept).
THEOREM RootedCorrect == TrustSpec => []TrustIsRooted
BY TrustIndHolds, IndRooted, PTL

-----------------------------------------------------------------------------
(* Order.  What trust is handed on from a list of entries depends on which   *)
(* entries it has and on which of those that may sign transitions come first *)
(* for their principal, not on the rest of their order.                      *)

\* Entry n of s is the one its principal's trust is handed on from.
IsFirst(s, n) ==
  /\ "transition" \in s[n].scope
  /\ \A m \in 1..(n-1) : s[m].principal = s[n].principal => "transition" \notin s[m].scope

Firsts(s) == {s[n] : n \in {m \in 1..Len(s) : IsFirst(s, m)}}

\* The list s has no entry for the principal.
NoneFor(s, principal) == \A x \in Range(s) : x.principal # principal

LEMMA FirstsInRange ==
  ASSUME NEW s \in Lists
  PROVE  Firsts(s) \subseteq Range(s)
BY Elements DEF Firsts, Lists

LEMMA FirstsOfAppend ==
  ASSUME NEW s \in Lists, NEW e \in EntrySet, "transition" \in e.scope, NoneFor(s, e.principal)
  PROVE  Firsts(Append(s, e)) = Firsts(s) \cup {e}
<1>1. PICK t, q : t = Append(s, e) /\ q = Len(s) + 1
  OBVIOUS
<1>2. /\ Len(s) \in Nat /\ q \in Nat /\ Len(t) = q /\ t[q] = e
      /\ \A n \in 1..Len(s) : t[n] = s[n]
      /\ 1..q = 1..Len(s) \cup {q} /\ 1..(q-1) = 1..Len(s)
  BY <1>1 DEF Lists
<1>3. ASSUME NEW n \in 1..Len(s) PROVE IsFirst(t, n) <=> IsFirst(s, n)
  <2>1. \A m \in 1..(n-1) : m \in 1..Len(s)
    BY <1>2
  <2> QED BY <1>2, <2>1 DEF IsFirst
<1>4. IsFirst(t, q)
  <2>1. \A m \in 1..Len(s) : s[m] \in Range(s)
    BY Elements DEF Lists
  <2> QED BY <1>2, <2>1 DEF IsFirst, NoneFor
<1>5. {m \in 1..q : IsFirst(t, m)} = {m \in 1..Len(s) : IsFirst(s, m)} \cup {q}
  BY <1>2, <1>3, <1>4
<1>6. PICK X : X = {m \in 1..Len(s) : IsFirst(s, m)}
  OBVIOUS
<1>7. Firsts(s) = {s[n] : n \in X} /\ Firsts(t) = {t[n] : n \in X \cup {q}}
  BY <1>2, <1>5, <1>6 DEF Firsts
<1>8. \A n \in X : t[n] = s[n]
  BY <1>2, <1>6
<1>9. Firsts(t) = {s[n] : n \in X} \cup {e}
  BY <1>2, <1>7, <1>8
<1> QED BY <1>1, <1>7, <1>9

\* What the entries of one key add to those of key k.
Added(old, new, k) == {Successor(e, k) : e \in {x \in Firsts(old) : NoneFor(new, x.principal)}}

\* Before the first entry of its principal that may sign transitions there is none.
LEMMA FirstOfPrincipal ==
  ASSUME NEW s \in Lists, NEW q \in 1..Len(s), "transition" \in s[q].scope
  PROVE  \E n \in 1..q : IsFirst(s, n) /\ s[n].principal = s[q].principal
<1> DEFINE T == {n \in 1..q : "transition" \in s[n].scope /\ s[n].principal = s[q].principal}
<1>0. q \in Nat /\ q >= 1
  BY LenProperties DEF Lists
<1>1. T \in SUBSET Nat /\ q \in T
  BY <1>0
<1>2. PICK n \in T : \A m \in T : n <= m
  <2> HIDE DEF T
  <2> QED BY <1>1, LeastNat
<1>3. ASSUME NEW m \in 1..(n-1), s[m].principal = s[n].principal, "transition" \in s[m].scope
      PROVE  FALSE
  <2>1. m \in T
    BY <1>0, <1>3
  <2> QED BY <1>2, <1>3, <2>1
<1> QED BY <1>2, <1>3 DEF IsFirst

LEMMA HandedAdds ==
  ASSUME NEW old \in Lists, NEW new \in Lists, NEW k \in Keys
  PROVE  /\ Range(Handed(old, new, k)[Len(old)]) = Range(new) \cup Added(old, new, k)
         /\ Firsts(Handed(old, new, k)[Len(old)]) = Firsts(new) \cup Added(old, new, k)
<1> DEFINE H(n) == Handed(old, new, k)[n]
           Q(m) == IsFirst(old, m) /\ NoneFor(new, old[m].principal)
           A(n) == {Successor(old[m], k) : m \in {j \in 1..n : Q(j)}}
           T == {n \in Nat : Range(H(n)) = Range(new) \cup A(n) /\ Firsts(H(n)) = Firsts(new) \cup A(n)}
<1>0. Len(old) \in Nat
  BY LenProperties DEF Lists
<1>1. 0 \in T
  <2>1. H(0) = new
    BY HandedDef
  <2>2. A(0) = {}
    OBVIOUS
  <2> HIDE DEF H, A
  <2> QED BY <2>1, <2>2
<1>2. ASSUME NEW n \in 0..(Len(old)-1), n \in T PROVE n + 1 \in T
  <2>1. PICK q, s, e, f : q = n + 1 /\ s = H(n) /\ e = old[q] /\ f = Successor(e, k)
    OBVIOUS
  <2>2. q \in 1..Len(old) /\ q - 1 = n /\ n \in 0..Len(old) /\ q \in Nat /\ 1..q = 1..n \cup {q}
    BY <1>0, <2>1
  <2>3. s \in Lists /\ Range(s) = Range(new) \cup A(n) /\ Firsts(s) = Firsts(new) \cup A(n)
    <3>1. H(n) \in Lists
      BY <2>2, HandedDef
    <3> HIDE DEF H, A
    <3> QED BY <1>2, <2>1, <3>1
  <2>4. e \in EntrySet /\ f \in EntrySet /\ f.principal = e.principal /\ f.scope = e.scope
    <3>1. e \in EntrySet
      BY <2>1, <2>2, ElementOfSeq DEF Lists
    <3> QED BY <2>1, <3>1, EntryOfEntry DEF Successor
  <2>5. H(q) = IF Passed(e, s) THEN s ELSE Append(s, f)
    <3>1. Handed(old, new, k)[q] =
            IF Passed(old[q], Handed(old, new, k)[q-1]) THEN Handed(old, new, k)[q-1]
            ELSE Append(Handed(old, new, k)[q-1], Successor(old[q], k))
      BY <2>2, HandedDef
    <3> QED BY <2>1, <2>2, <3>1
  <2>6. ASSUME NEW m \in 1..n
        PROVE  Successor(old[m], k).principal = old[m].principal
    <3>1. old[m] \in EntrySet
      BY <2>2, ElementOfSeq DEF Lists
    <3> QED BY <3>1, EntryOfEntry DEF Successor
  <2>7. Passed(e, s) <=> ~Q(q)
    <3>1. ASSUME Passed(e, s), Q(q) PROVE FALSE
      <4>1. PICK x \in Range(s) : x.principal = e.principal
        BY <2>1, <3>1 DEF Passed, IsFirst
      <4>2. x \in A(n)
        BY <2>1, <2>3, <3>1, <4>1 DEF NoneFor
      <4>3. PICK m \in 1..n : IsFirst(old, m) /\ x = Successor(old[m], k)
        BY <4>2
      <4>4. old[m].principal = e.principal /\ "transition" \in old[m].scope
        BY <2>6, <4>1, <4>3 DEF IsFirst
      <4> QED BY <2>1, <2>2, <3>1, <4>3, <4>4 DEF IsFirst
    <3>2. ASSUME ~Passed(e, s) PROVE Q(q)
      <4>1. "transition" \in e.scope /\ NoneFor(s, e.principal)
        BY <3>2 DEF Passed, NoneFor
      <4>2. NoneFor(new, e.principal)
        BY <2>3, <4>1 DEF NoneFor
      <4>3. PICK m \in 1..q : IsFirst(old, m) /\ old[m].principal = e.principal
        BY <2>1, <2>2, <4>1, FirstOfPrincipal
      <4>4. m \notin 1..n
        <5>1. ASSUME m \in 1..n PROVE FALSE
          <6>1. Q(m)
            BY <4>2, <4>3
          <6>2. Successor(old[m], k) \in A(n)
            BY <5>1, <6>1
          <6>3. Successor(old[m], k) \in Range(s)
            BY <2>3, <6>2
          <6> QED BY <2>6, <4>1, <4>3, <5>1, <6>3 DEF NoneFor
        <5> QED BY <5>1
      <4>5. m = q
        BY <2>2, <4>3, <4>4
      <4> QED BY <2>1, <4>2, <4>3, <4>5
    <3> QED BY <3>1, <3>2
  <2>8. Range(H(q)) = Range(new) \cup A(q) /\ Firsts(H(q)) = Firsts(new) \cup A(q)
    <3>1. CASE Passed(e, s)
      <4>1. {j \in 1..q : Q(j)} = {j \in 1..n : Q(j)}
        <5> HIDE DEF Q
        <5> QED BY <2>2, <2>7, <3>1
      <4>2. A(q) = A(n)
        <5> HIDE DEF Q
        <5> QED BY <4>1
      <4> HIDE DEF A, H
      <4> QED BY <2>3, <2>5, <3>1, <4>2
    <3>2. CASE ~Passed(e, s)
      <4>1. {j \in 1..q : Q(j)} = {j \in 1..n : Q(j)} \cup {q}
        <5> HIDE DEF Q
        <5> QED BY <2>2, <2>7, <3>2
      <4>2. A(q) = A(n) \cup {f}
        <5> HIDE DEF Q
        <5> QED BY <2>1, <4>1
      <4>3. "transition" \in f.scope /\ NoneFor(s, f.principal)
        BY <2>4, <3>2 DEF Passed, NoneFor
      <4>4. Range(Append(s, f)) = Range(s) \cup {f}
        BY <2>3, <2>4, RangeOfAppend DEF Lists
      <4>5. Firsts(Append(s, f)) = Firsts(s) \cup {f}
        BY <2>3, <2>4, <4>3, FirstsOfAppend
      <4> HIDE DEF A, H
      <4> QED BY <2>3, <2>5, <3>2, <4>2, <4>4, <4>5
    <3> QED BY <3>1, <3>2
  <2> HIDE DEF H, A
  <2> QED BY <2>1, <2>2, <2>8
<1>3. \A n \in 0..Len(old) : n \in T
  <2> HIDE DEF T
  <2> QED BY <1>0, <1>1, <1>2, UpTo
<1>4. Len(old) \in T
  <2> HIDE DEF T
  <2> QED BY <1>0, <1>3
<1>5. A(Len(old)) = Added(old, new, k)
  BY DEF Added, Firsts
<1> QED BY <1>4, <1>5

\* Two states that hand on the same trust.
Alike(E, D) ==
  \A k \in Keys : Range(E[k]) = Range(D[k]) /\ Firsts(E[k]) = Firsts(D[k])

\* D is E after key k handed its trust to the keys in T.
HandedTo(E, D, k, T) ==
  \A x \in Keys :
    LET more == IF x \in T THEN Added(E[k], E[x], x) ELSE {} IN
    Range(D[x]) = Range(E[x]) \cup more /\ Firsts(D[x]) = Firsts(E[x]) \cup more

\* A key hands nothing to itself, and nothing twice.
LEMMA NothingAdded ==
  ASSUME NEW old \in Lists, NEW new \in Lists, NEW k \in Keys
  PROVE  /\ Added(old, old, k) = {}
         /\ Added(old, new, k) \subseteq Range(new) => Added(old, new, k) = {}
<1>1. Added(old, old, k) = {}
  BY FirstsInRange DEF Added, NoneFor
<1>2. ASSUME Added(old, new, k) \subseteq Range(new), NEW f \in Added(old, new, k) PROVE FALSE
  <2>1. PICK e \in Firsts(old) : NoneFor(new, e.principal) /\ f = Successor(e, k)
    BY <1>2 DEF Added
  <2>2. e \in EntrySet
    BY <2>1, FirstsInRange, Elements DEF Lists
  <2>3. f.principal = e.principal
    BY <2>1, <2>2, EntryOfEntry DEF Successor
  <2> QED BY <1>2, <2>1, <2>3 DEF NoneFor
<1> QED BY <1>1, <1>2

\* What is added depends on which entries there are.
LEMMA AddedOfAlike ==
  ASSUME NEW old, NEW old2, NEW new, NEW new2, NEW k,
         Firsts(old) = Firsts(old2), Range(new) = Range(new2)
  PROVE  Added(old, new, k) = Added(old2, new2, k)
BY DEF Added, NoneFor

\* One more transition of key k.
LEMMA HandOneMore ==
  ASSUME NEW E \in States, NEW D \in States, NEW k \in Keys, NEW T, HandedTo(E, D, k, T),
         NEW t \in Transitions, t.old = k
  PROVE  HandedTo(E, Follow(D, t), k, T \cup {t.new})
<1>1. PICK y, F : y = t.new /\ F = Follow(D, t)
  OBVIOUS
<1>2. /\ y \in Keys
      /\ F \in States
      /\ F[y] = Handed(D[k], D[y], y)[Len(D[k])]
      /\ \A x \in Keys : x # y => F[x] = D[x]
  BY <1>1, FollowType
<1>3. E[k] \in Lists /\ D[k] \in Lists /\ E[y] \in Lists /\ D[y] \in Lists
  BY <1>2 DEF States
<1>4. Range(F[y]) = Range(D[y]) \cup Added(D[k], D[y], y) /\ Firsts(F[y]) = Firsts(D[y]) \cup Added(D[k], D[y], y)
  BY <1>2, <1>3, HandedAdds
<1>5. Range(D[k]) = Range(E[k]) /\ Firsts(D[k]) = Firsts(E[k])
  <2>1. Added(E[k], E[k], k) = {}
    BY <1>3, NothingAdded
  <2> QED BY <2>1 DEF HandedTo
<1>6. /\ Range(F[y]) = Range(E[y]) \cup Added(E[k], E[y], y)
      /\ Firsts(F[y]) = Firsts(E[y]) \cup Added(E[k], E[y], y)
  <2>1. CASE y \in T
    <3>1. /\ Range(D[y]) = Range(E[y]) \cup Added(E[k], E[y], y)
          /\ Firsts(D[y]) = Firsts(E[y]) \cup Added(E[k], E[y], y)
      BY <1>2, <2>1 DEF HandedTo
    <3>2. Added(D[k], D[y], y) \subseteq Added(E[k], E[y], y)
      BY <1>5, <3>1 DEF Added, NoneFor
    <3>3. Added(D[k], D[y], y) = {}
      BY <1>2, <1>3, <3>1, <3>2, NothingAdded
    <3> QED BY <1>4, <3>1, <3>3
  <2>2. CASE y \notin T
    <3>1. Range(D[y]) = Range(E[y]) /\ Firsts(D[y]) = Firsts(E[y])
      BY <1>2, <2>2 DEF HandedTo
    <3>2. Added(D[k], D[y], y) = Added(E[k], E[y], y)
      BY <1>5, <3>1, AddedOfAlike
    <3> QED BY <1>4, <3>1, <3>2
  <2> QED BY <2>1, <2>2
<1>7. HandedTo(E, F, k, T \cup {y})
  <2> SUFFICES ASSUME NEW x \in Keys
               PROVE  LET more == IF x \in T \cup {y} THEN Added(E[k], E[x], x) ELSE {} IN
                      Range(F[x]) = Range(E[x]) \cup more /\ Firsts(F[x]) = Firsts(E[x]) \cup more
    BY DEF HandedTo
  <2>1. CASE x = y
    BY <1>6, <2>1
  <2>2. CASE x # y
    <3>1. F[x] = D[x] /\ (x \in T \cup {y} <=> x \in T)
      BY <1>2, <2>2
    <3> QED BY <3>1 DEF HandedTo
  <2> QED BY <2>1, <2>2
<1> QED BY <1>1, <1>7

\* The transitions of key k that may be followed, in any order.
LEMMA ListHands ==
  ASSUME NEW E \in States, NEW k \in Keys, NEW list \in Seq(Transitions), NEW may,
         \A t \in Range(list) : t.old = k
  PROVE  HandedTo(E, FollowList(E, list, may)[Len(list)], k, {t.new : t \in Range(list) \cap may})
<1> DEFINE L(n) == FollowList(E, list, may)[n]
           X(n) == {list[m].new : m \in {j \in 1..n : list[j] \in may}}
           S == {n \in Nat : HandedTo(E, L(n), k, X(n))}
<1>0. Len(list) \in Nat
  BY LenProperties
<1>1. 0 \in S
  <2>1. L(0) = E
    BY FollowListDef
  <2>2. X(0) = {}
    OBVIOUS
  <2>3. HandedTo(E, E, k, {})
    BY DEF HandedTo
  <2> HIDE DEF L, X
  <2> QED BY <2>1, <2>2, <2>3
<1>2. ASSUME NEW n \in 0..(Len(list)-1), n \in S PROVE n + 1 \in S
  <2>1. PICK q, D, t : q = n + 1 /\ D = L(n) /\ t = list[q]
    OBVIOUS
  <2>2. q \in 1..Len(list) /\ q - 1 = n /\ n \in 0..Len(list) /\ q \in Nat /\ 1..q = 1..n \cup {q}
    BY <1>0, <2>1
  <2>3. D \in States /\ HandedTo(E, D, k, X(n))
    <3>1. L(n) \in States
      BY <2>2, FollowListDef
    <3> HIDE DEF L, X
    <3> QED BY <1>2, <2>1, <3>1
  <2>4. t \in Transitions /\ t.old = k
    <3>1. t \in Range(list)
      BY <2>1, <2>2, Elements
    <3> QED BY <3>1, Elements
  <2>5. L(q) = IF t \notin may THEN D ELSE Follow(D, t)
    <3>1. FollowList(E, list, may)[q] =
            IF list[q] \notin may THEN FollowList(E, list, may)[q-1]
            ELSE Follow(FollowList(E, list, may)[q-1], list[q])
      BY <2>2, FollowListDef
    <3> QED BY <2>1, <2>2, <3>1
  <2>6. HandedTo(E, L(q), k, X(q))
    <3>1. CASE t \notin may
      <4>1. X(q) = X(n)
        BY <2>1, <2>2, <3>1
      <4> HIDE DEF X, L
      <4> QED BY <2>3, <2>5, <3>1, <4>1
    <3>2. CASE t \in may
      <4>1. X(q) = X(n) \cup {t.new}
        BY <2>1, <2>2, <3>2
      <4>2. PICK U : U = X(n)
        OBVIOUS
      <4>3. HandedTo(E, D, k, U)
        BY <2>3, <4>2
      <4>4. HandedTo(E, Follow(D, t), k, U \cup {t.new})
        BY <2>3, <2>4, <4>3, HandOneMore
      <4> HIDE DEF X, L
      <4> QED BY <2>5, <3>2, <4>1, <4>2, <4>4
    <3> QED BY <3>1, <3>2
  <2> HIDE DEF L, X
  <2> QED BY <2>1, <2>2, <2>6
<1>3. \A n \in 0..Len(list) : n \in S
  <2> HIDE DEF S
  <2> QED BY <1>0, <1>1, <1>2, UpTo
<1>4. Len(list) \in S
  <2> HIDE DEF S
  <2> QED BY <1>0, <1>3
<1>5. X(Len(list)) = {t.new : t \in Range(list) \cap may}
  <2>1. Range(list) = {list[n] : n \in 1..Len(list)}
    BY Elements
  <2> QED BY <2>1
<1> HIDE DEF X
<1> QED BY <1>4, <1>5

LEMMA ListsAlike ==
  ASSUME NEW E \in States, NEW D \in States, Alike(E, D), NEW k \in Keys,
         NEW list \in Seq(Transitions), NEW list2 \in Seq(Transitions), NEW may,
         Range(list) = Range(list2), \A t \in Range(list) : t.old = k
  PROVE  Alike(FollowList(E, list, may)[Len(list)], FollowList(D, list2, may)[Len(list2)])
<1>1. PICK F, G, T : /\ F = FollowList(E, list, may)[Len(list)]
                     /\ G = FollowList(D, list2, may)[Len(list2)]
                     /\ T = {t.new : t \in Range(list) \cap may}
  OBVIOUS
<1>2. HandedTo(E, F, k, T) /\ HandedTo(D, G, k, T)
  BY <1>1, ListHands
<1>3. ASSUME NEW x \in Keys PROVE Range(F[x]) = Range(G[x]) /\ Firsts(F[x]) = Firsts(G[x])
  <2>1. Range(E[x]) = Range(D[x]) /\ Firsts(E[x]) = Firsts(D[x]) /\ Firsts(E[k]) = Firsts(D[k])
    BY DEF Alike
  <2>2. Added(E[k], E[x], x) = Added(D[k], D[x], x)
    BY <2>1, AddedOfAlike
  <2> QED BY <1>2, <2>1, <2>2 DEF HandedTo
<1> QED BY <1>1, <1>3 DEF Alike

\* The lists of two contexts with the same transitions.
SameLists(by, by2) ==
  \A k \in Keys : Range(by[k]) = Range(by2[k]) /\ \A t \in Range(by[k]) : t.old = k

LEMMA KeysAlike ==
  ASSUME NEW E \in States, NEW D \in States, Alike(E, D), NEW may,
         NEW by \in [Keys -> Seq(Transitions)], NEW by2 \in [Keys -> Seq(Transitions)],
         SameLists(by, by2)
  PROVE  Alike(FollowKeys(E, by, may)[NumKeys], FollowKeys(D, by2, may)[NumKeys])
<1> DEFINE A(n) == FollowKeys(E, by, may)[n]
           B(n) == FollowKeys(D, by2, may)[n]
           S == {n \in Nat : Alike(A(n), B(n))}
<1>0. NumKeys \in Nat
  BY TrustAssumption
<1>1. 0 \in S
  BY FollowKeysDef
<1>2. ASSUME NEW q \in 1..NumKeys, Alike(A(q-1), B(q-1)) PROVE Alike(A(q), B(q))
  <2>1. PICK F, G : F = FollowKeys(E, by, may)[q-1] /\ G = FollowKeys(D, by2, may)[q-1]
    OBVIOUS
  <2>2. q - 1 \in 0..NumKeys /\ q \in Keys
    BY <1>0 DEF Keys
  <2>3. F \in States /\ G \in States /\ Alike(F, G)
    BY <1>2, <2>1, <2>2, FollowKeysDef
  <2>4. FollowKeys(E, by, may)[q] = FollowList(F, by[q], may)[Len(by[q])]
    <3>1. KeyStep(E, by, may, q)
      BY FollowKeysStep
    <3> QED BY <2>1, <3>1 DEF KeyStep
  <2>5. FollowKeys(D, by2, may)[q] = FollowList(G, by2[q], may)[Len(by2[q])]
    <3>1. KeyStep(D, by2, may, q)
      BY FollowKeysStep
    <3> QED BY <2>1, <3>1 DEF KeyStep
  <2>6. PICK l, l2 : l = by[q] /\ l2 = by2[q]
    OBVIOUS
  <2>7. /\ l \in Seq(Transitions) /\ l2 \in Seq(Transitions)
        /\ Range(l) = Range(l2) /\ \A t \in Range(l) : t.old = q
    BY <2>2, <2>6 DEF SameLists
  <2>8. Alike(FollowList(F, l, may)[Len(l)], FollowList(G, l2, may)[Len(l2)])
    BY <2>2, <2>3, <2>7, ListsAlike
  <2> QED BY <2>4, <2>5, <2>6, <2>8
<1>3. ASSUME NEW n \in 0..(NumKeys-1), n \in S PROVE n + 1 \in S
  <2>1. n + 1 \in 1..NumKeys /\ (n + 1) - 1 = n
    BY <1>0
  <2> HIDE DEF A, B
  <2>2. Alike(A((n + 1) - 1), B((n + 1) - 1))
    BY <1>3, <2>1
  <2> QED BY <1>2, <2>1, <2>2
<1>4. \A n \in 0..NumKeys : n \in S
  <2> HIDE DEF S
  <2> QED BY <1>0, <1>1, <1>3, UpTo
<1> QED BY <1>0, <1>4

LEMMA ExtendAlike ==
  ASSUME NEW E \in States, NEW D \in States, Alike(E, D), NEW may,
         NEW by \in [Keys -> Seq(Transitions)], NEW by2 \in [Keys -> Seq(Transitions)],
         SameLists(by, by2)
  PROVE  /\ Alike(Extend(E, by, may), Extend(D, by2, may))
         /\ Extend(E, by, may) \in States /\ Extend(D, by2, may) \in States
<1> DEFINE A(n) == Passes(E, by, may)[n]
           B(n) == Passes(D, by2, may)[n]
           S == {n \in Nat : Alike(A(n), B(n))}
<1>0. NumKeys \in Nat
  BY TrustAssumption
<1>1. 0 \in S
  BY PassesDef
<1>2. ASSUME NEW n \in 0..(NumKeys-1), n \in S PROVE n + 1 \in S
  <2>1. PICK q, F, G : q = n + 1 /\ F = A(n) /\ G = B(n)
    OBVIOUS
  <2>2. q \in 1..NumKeys /\ q - 1 = n /\ n \in 0..NumKeys /\ q \in Nat
    BY <1>0, <2>1
  <2>3. F \in States /\ G \in States /\ Alike(F, G)
    BY <1>2, <2>1, <2>2, PassesDef
  <2>4. A(q) = FollowKeys(F, by, may)[NumKeys] /\ B(q) = FollowKeys(G, by2, may)[NumKeys]
    BY <2>1, <2>2, PassesDef
  <2>5. Alike(FollowKeys(F, by, may)[NumKeys], FollowKeys(G, by2, may)[NumKeys])
    BY <2>3, KeysAlike
  <2> HIDE DEF A, B
  <2> QED BY <2>1, <2>2, <2>4, <2>5
<1>3. \A n \in 0..NumKeys : n \in S
  <2> HIDE DEF S
  <2> QED BY <1>0, <1>1, <1>2, UpTo
<1>4. Alike(A(NumKeys), B(NumKeys)) /\ A(NumKeys) \in States /\ B(NumKeys) \in States
  <2>1. NumKeys \in S
    <3> HIDE DEF S
    <3> QED BY <1>0, <1>3
  <2> QED BY <1>0, <2>1, PassesDef
<1> QED BY <1>4 DEF Extend

-----------------------------------------------------------------------------
(* Two contexts with the same pins and statements. *)

\* The operator's revocations come first.
OperatorFirst(rs) ==
  \A m, n \in 1..Len(rs) : m < n /\ rs[n].source = "operator" => rs[m].source = "operator"

\* No key is pinned twice for one principal.
Distinct(ps) ==
  \A p, q \in Range(ps) : p.key = q.key /\ p.principal = q.principal => p = q

SameInputs(c, d) ==
  /\ ContextOK(c) /\ ContextOK(d)
  /\ Range(c.pins) = Range(d.pins) /\ (Distinct(c.pins) \/ c.pins = d.pins)
  /\ Range(c.transitions) = Range(d.transitions)
  /\ Range(c.revocations) = Range(d.revocations)
  /\ OperatorFirst(c.revocations) /\ OperatorFirst(d.revocations)

\* With one entry for each principal, all that may sign transitions are first.
LEMMA FirstsOfDistinct ==
  ASSUME NEW s \in Lists,
         \A n \in 1..Len(s), m \in 1..Len(s) : s[n].principal = s[m].principal => s[n] = s[m]
  PROVE  {e \in Range(s) : "transition" \in e.scope} = Firsts(s)
<1>0. Len(s) \in Nat /\ Range(s) = {s[n] : n \in 1..Len(s)}
  BY LenProperties, Elements DEF Lists
<1>1. ASSUME NEW e \in Firsts(s) PROVE e \in Range(s) /\ "transition" \in e.scope
  BY <1>0 DEF Firsts, IsFirst
<1>2. ASSUME NEW e \in Range(s), "transition" \in e.scope PROVE e \in Firsts(s)
  <2>1. PICK q \in 1..Len(s) : e = s[q]
    BY <1>0
  <2>2. PICK n \in 1..q : IsFirst(s, n) /\ s[n].principal = s[q].principal
    BY <1>2, <2>1, FirstOfPrincipal
  <2>3. n \in 1..Len(s)
    BY <1>0
  <2>4. s[n] = e
    BY <2>1, <2>2, <2>3
  <2> QED BY <2>2, <2>3, <2>4 DEF Firsts
<1> QED BY <1>1, <1>2

LEMMA BaseFirsts ==
  ASSUME NEW c, ContextOK(c), Distinct(c.pins), NEW k \in Keys
  PROVE  {e \in Range(Base(c)[k]) : "transition" \in e.scope} = Firsts(Base(c)[k])
<1>1. PICK s : s = Base(c)[k]
  OBVIOUS
<1>2. /\ s \in Lists
      /\ Range(s) = {Entry(p, <<k>>, TRUE) : p \in {q \in Range(c.pins) : q.key = k}}
  BY <1>1, BaseFacts DEF States
<1>3. ASSUME NEW n \in 1..Len(s), NEW m \in 1..Len(s), s[n].principal = s[m].principal
      PROVE  s[n] = s[m]
  <2>1. s[n] \in Range(s) /\ s[m] \in Range(s)
    <3>1. Range(s) = {s[i] : i \in 1..Len(s)}
      BY <1>2, Elements DEF Lists
    <3> QED BY <3>1
  <2>2. PICK p \in Range(c.pins) : p.key = k /\ s[n] = Entry(p, <<k>>, TRUE)
    BY <1>2, <2>1
  <2>3. PICK q \in Range(c.pins) : q.key = k /\ s[m] = Entry(q, <<k>>, TRUE)
    BY <1>2, <2>1
  <2>4. p.principal = q.principal
    BY <1>3, <2>2, <2>3 DEF Entry
  <2> QED BY <2>2, <2>3, <2>4 DEF Distinct
<1> QED BY <1>1, <1>2, <1>3, FirstsOfDistinct

LEMMA BaseAlike ==
  ASSUME NEW c, NEW d, SameInputs(c, d)
  PROVE  Alike(Base(c), Base(d))
<1>1. CASE c.pins = d.pins
  BY <1>1 DEF Base, Alike
<1>2. CASE Distinct(c.pins)
  <2>0. Distinct(d.pins)
    BY <1>2 DEF SameInputs, Distinct
  <2>1. ASSUME NEW k \in Keys
        PROVE  Range(Base(c)[k]) = Range(Base(d)[k]) /\ Firsts(Base(c)[k]) = Firsts(Base(d)[k])
    <3>1. Range(Base(c)[k]) = Range(Base(d)[k])
      BY BaseFacts DEF SameInputs
    <3>2. {e \in Range(Base(c)[k]) : "transition" \in e.scope} = Firsts(Base(c)[k])
      BY <1>2, BaseFirsts DEF SameInputs
    <3>3. {e \in Range(Base(d)[k]) : "transition" \in e.scope} = Firsts(Base(d)[k])
      BY <2>0, BaseFirsts DEF SameInputs
    <3> QED BY <3>1, <3>2, <3>3
  <2> QED BY <2>1 DEF Alike
<1> QED BY <1>1, <1>2 DEF SameInputs

LEMMA EntriesAlike ==
  ASSUME NEW c, NEW d, SameInputs(c, d), NEW may
  PROVE  /\ Alike(Extend(Base(c), ByOld(c), may), Extend(Base(d), ByOld(d), may))
         /\ Extend(Base(c), ByOld(c), may) \in States /\ Extend(Base(d), ByOld(d), may) \in States
<1>1. Base(c) \in States /\ Base(d) \in States
  BY BaseFacts DEF SameInputs
<1>2. ByOld(c) \in [Keys -> Seq(Transitions)] /\ ByOld(d) \in [Keys -> Seq(Transitions)]
  BY ByOldFacts DEF SameInputs
<1>3. SameLists(ByOld(c), ByOld(d))
  <2>1. ASSUME NEW k \in Keys
        PROVE  Range(ByOld(c)[k]) = Range(ByOld(d)[k]) /\ \A t \in Range(ByOld(c)[k]) : t.old = k
    <3>1. Range(ByOld(c)[k]) = {t \in Range(c.transitions) : t.old = k}
      BY ByOldFacts DEF SameInputs
    <3>2. Range(ByOld(d)[k]) = {t \in Range(d.transitions) : t.old = k}
      BY ByOldFacts DEF SameInputs
    <3> QED BY <3>1, <3>2 DEF SameInputs
  <2> QED BY <2>1 DEF SameLists
<1> QED BY <1>1, <1>2, <1>3, BaseAlike, ExtendAlike

LEMMA EquivocatingSame ==
  ASSUME NEW c, NEW d, SameInputs(c, d)
  PROVE  Equivocating(c) = Equivocating(d)
BY DEF SameInputs, Equivocating

LEMMA PrincipalsSame ==
  ASSUME NEW c, NEW d, SameInputs(c, d)
  PROVE  Principals(c) = Principals(d)
<1>1. PICK may : may = {t \in Range(c.transitions) : t.old \notin Equivocating(c)}
  OBVIOUS
<1>2. may = {t \in Range(d.transitions) : t.old \notin Equivocating(d)}
  BY <1>1, EquivocatingSame DEF SameInputs
<1>3. PICK E, D : E = Extend(Base(c), ByOld(c), may) /\ D = Extend(Base(d), ByOld(d), may)
  OBVIOUS
<1>4. Alike(E, D)
  BY <1>3, EntriesAlike
<1>5. Principals(c) = [k \in Keys |-> {e.principal : e \in Range(E[k])}]
  BY <1>1, <1>3 DEF Principals
<1>6. Principals(d) = [k \in Keys |-> {e.principal : e \in Range(D[k])}]
  BY <1>2, <1>3 DEF Principals
<1> QED BY <1>4, <1>5, <1>6 DEF Alike

LEMMA CutsSame ==
  ASSUME NEW c, NEW d, SameInputs(c, d)
  PROVE  Cuts(c) = Cuts(d)
<1>1. PICK P : P = Principals(c) /\ P = Principals(d)
  BY PrincipalsSame
<1>2. \A r, x : HasAuthority(c, r, x) = HasAuthority(d, r, x)
  BY DEF HasAuthority, SameInputs
<1>3. Statements(c) = Statements(d)
  BY DEF Statements, SameInputs
<1>4. \A k : AuthorityOver(c, k) = AuthorityOver(d, k)
  BY <1>1, <1>2, <1>3 DEF AuthorityOver
<1>5. RevokedKeys(c) = RevokedKeys(d)
  BY <1>3, <1>4 DEF RevokedKeys
<1> QED BY <1>4, <1>5 DEF Cuts

\* With the operator's copies first, an operator's copy decides.
LEMMA NoAuthoritySet ==
  ASSUME NEW c, ContextOK(c), OperatorFirst(c.revocations)
  PROVE  NoAuthority(c) <=>
           \E x \in Range(c.revocations) :
             /\ x.source = "operator"
             /\ x.statement.revoker # x.statement.revoked
             /\ ~HasAuthority(c, x.statement.revoker, Principals(c)[x.statement.revoked])
<1>1. PICK rs : rs = c.revocations
  OBVIOUS
<1>2. rs \in Seq(Loaded) /\ Len(rs) \in Nat /\ Range(rs) = {rs[n] : n \in 1..Len(rs)}
  BY <1>1, LenProperties, Elements DEF ContextOK
<1> DEFINE Bad(r) == r.revoker # r.revoked /\ ~HasAuthority(c, r.revoker, Principals(c)[r.revoked])
<1>3. NoAuthority(c) <=>
        \E n \in 1..Len(rs) : /\ \A m \in 1..(n-1) : rs[m].statement # rs[n].statement
                              /\ rs[n].source = "operator" /\ Bad(rs[n].statement)
  BY <1>1 DEF NoAuthority
<1> HIDE DEF Bad
<1>4. ASSUME NEW x \in Range(rs), x.source = "operator", Bad(x.statement)
      PROVE  \E n \in 1..Len(rs) : /\ \A m \in 1..(n-1) : rs[m].statement # rs[n].statement
                                   /\ rs[n].source = "operator" /\ Bad(rs[n].statement)
  <2>1. PICK q \in 1..Len(rs) : rs[q] = x
    BY <1>2, <1>4
  <2> DEFINE T == {n \in 1..Len(rs) : rs[n].statement = x.statement}
  <2>2. T \in SUBSET Nat /\ q \in T
    BY <1>2, <2>1
  <2>3. PICK n \in T : \A m \in T : n <= m
    <3> HIDE DEF T
    <3> QED BY <2>2, LeastNat
  <2>4. ASSUME NEW m \in 1..(n-1), rs[m].statement = rs[n].statement PROVE FALSE
    <3>1. m \in 1..Len(rs)
      BY <1>2, <2>3
    <3>2. m \in T
      BY <2>3, <2>4, <3>1
    <3> QED BY <1>2, <2>3, <3>2
  <2>5. n <= q /\ n \in 1..Len(rs)
    BY <2>2, <2>3
  <2>6. rs[n].source = "operator"
    <3>1. CASE n = q
      BY <1>4, <2>1, <3>1
    <3>2. CASE n < q
      BY <1>1, <1>4, <2>1, <2>5, <3>2 DEF OperatorFirst
    <3> QED BY <1>2, <2>5, <3>1, <3>2
  <2> QED BY <1>4, <2>3, <2>4, <2>6
<1>5. NoAuthority(c) => \E x \in Range(rs) : x.source = "operator" /\ Bad(x.statement)
  BY <1>2, <1>3
<1>6. NoAuthority(c) <=> \E x \in Range(rs) : x.source = "operator" /\ Bad(x.statement)
  BY <1>3, <1>4, <1>5
<1> QED BY <1>1, <1>6 DEF Bad

LEMMA NoAuthoritySame ==
  ASSUME NEW c, NEW d, SameInputs(c, d)
  PROVE  NoAuthority(c) = NoAuthority(d)
<1>1. PICK P : P = Principals(c) /\ P = Principals(d)
  BY PrincipalsSame
<1>2. \A r, x : HasAuthority(c, r, x) <=> HasAuthority(d, r, x)
  BY DEF HasAuthority, SameInputs
<1>3. NoAuthority(c) <=>
        \E x \in Range(c.revocations) :
             /\ x.source = "operator"
             /\ x.statement.revoker # x.statement.revoked
             /\ ~HasAuthority(c, x.statement.revoker, P[x.statement.revoked])
  BY <1>1, NoAuthoritySet DEF SameInputs
<1>4. NoAuthority(d) <=>
        \E x \in Range(d.revocations) :
             /\ x.source = "operator"
             /\ x.statement.revoker # x.statement.revoked
             /\ ~HasAuthority(d, x.statement.revoker, P[x.statement.revoked])
  BY <1>1, NoAuthoritySet DEF SameInputs
<1>5. NoAuthority(c) <=> NoAuthority(d)
  BY <1>2, <1>3, <1>4 DEF SameInputs
<1> QED BY <1>5 DEF NoAuthority

\* The verdicts of two contexts with the same pins and statements.
LEMMA VerdictsSame ==
  ASSUME NEW c, NEW d, SameInputs(c, d)
  PROVE  Verdicts(c) = Verdicts(d)
<1>1. PICK cuts : cuts = Cuts(c) /\ cuts = Cuts(d)
  BY CutsSame
<1>2. \A t : MayFollow(c, cuts, t) <=> MayFollow(d, cuts, t)
  BY EquivocatingSame DEF MayFollow
<1>3. PICK may : may = {t \in Range(c.transitions) : MayFollow(c, cuts, t)}
  OBVIOUS
<1>4. may = {t \in Range(d.transitions) : MayFollow(d, cuts, t)}
  BY <1>2, <1>3 DEF SameInputs
<1>5. PICK E, D : E = Extend(Base(c), ByOld(c), may) /\ D = Extend(Base(d), ByOld(d), may)
  OBVIOUS
<1>6. Alike(E, D) /\ E \in States /\ D \in States
  BY <1>5, EntriesAlike
<1>7. Retired(c, E, may) = Retired(d, D, may)
  <2>1. PICK X : X = {t \in may : /\ t.old \notin Equivocating(c)
                                  /\ \E e \in Range(E[t.old]) : "transition" \in e.scope}
    OBVIOUS
  <2>2. ASSUME NEW t \in may PROVE t.old \in Keys
    <3>1. t \in Transitions
      BY <1>3, Elements DEF SameInputs, ContextOK
    <3> QED BY <3>1, TrustAssumption
  <2>3. X = {t \in may : /\ t.old \notin Equivocating(d)
                         /\ \E e \in Range(D[t.old]) : "transition" \in e.scope}
    <3>1. \A t \in may : Range(E[t.old]) = Range(D[t.old])
      BY <1>6, <2>2 DEF Alike
    <3>2. Equivocating(c) = Equivocating(d)
      BY EquivocatingSame
    <3> QED BY <2>1, <3>1, <3>2
  <2>4. Retired(c, E, may) =
          [k \in {t.old : t \in X} |->
            LET t == CHOOSE x \in X : x.old = k IN [heads |-> t.heads, releases |-> t.releases]]
    BY <2>1 DEF Retired
  <2>5. Retired(d, D, may) =
          [k \in {t.old : t \in X} |->
            LET t == CHOOSE x \in X : x.old = k IN [heads |-> t.heads, releases |-> t.releases]]
    BY <2>3 DEF Retired
  <2> QED BY <2>4, <2>5
<1>8. PICK R : R = Retired(c, E, may) /\ R = Retired(d, D, may)
  BY <1>7
<1>9. PICK ev, ew : ev = Evaluate(c) /\ ew = Evaluate(d)
  OBVIOUS
<1>10. /\ ev.entries = E /\ ev.revoked = cuts /\ ev.retired = R
       /\ ew.entries = D /\ ew.revoked = cuts /\ ew.retired = R
  <2>1. Evaluate(c) = [entries |-> E, revoked |-> cuts, retired |-> R]
    BY <1>1, <1>3, <1>5, <1>8 DEF Evaluate
  <2>2. Evaluate(d) = [entries |-> D, revoked |-> cuts, retired |-> R]
    BY <1>1, <1>4, <1>5, <1>8 DEF Evaluate
  <2> QED BY <1>9, <2>1, <2>2
<1>11. ASSUME NEW k \in Keys, NEW obj PROVE Accept(ev, k, obj) = Accept(ew, k, obj)
  <2>1. Range(E[k]) = Range(D[k])
    BY <1>6 DEF Alike
  <2>2. E[k] = << >> <=> D[k] = << >>
    <3>1. E[k] \in Lists /\ D[k] \in Lists
      BY <1>6 DEF States
    <3>2. (E[k] = << >>) <=> (Range(E[k]) = {})
      BY <3>1, Elements DEF Lists
    <3>3. (D[k] = << >>) <=> (Range(D[k]) = {})
      BY <3>1, Elements DEF Lists
    <3> QED BY <2>1, <3>2, <3>3
  <2> QED BY <1>10, <2>1, <2>2 DEF Accept
<1>12. [k \in Keys |-> [obj \in Objects |-> Accept(ev, k, obj)]] =
       [k \in Keys |-> [obj \in Objects |-> Accept(ew, k, obj)]]
  BY <1>11
<1>13. NoAuthority(c) = NoAuthority(d)
  BY NoAuthoritySame
<1> QED BY <1>9, <1>12, <1>13 DEF Verdicts

-----------------------------------------------------------------------------
(* One listing of a set. *)

LEMMA ListingOfSet ==
  ASSUME NEW S, IsFiniteSet(S)
  PROVE  SetToSeq(S) \in Seq(S) /\ Range(SetToSeq(S)) = S
<1>1. PICK N : N = Cardinality(S)
  OBVIOUS
<1>2. N \in Nat /\ ExistsBijection(1..N, S)
  BY <1>1, FS_CardinalityType
<1>3. PICK g : g \in Bijection(1..N, S)
  BY <1>2 DEF ExistsBijection
<1>4. g \in [1..N -> S] /\ IsInjective(g)
  BY <1>3 DEF Bijection, Injection
<1>5. PICK f : f = SetToSeq(S)
  OBVIOUS
<1>6. f \in [1..N -> S] /\ IsInjective(f)
  BY <1>1, <1>4, <1>5 DEF SetToSeq
<1>7. f \in Injection(1..N, S)
  BY <1>6 DEF Injection
<1>8. Cardinality(1..N) = N
  BY <1>2, FS_Interval
<1>9. f \in Surjection(1..N, S)
  BY <1>1, <1>7, <1>8, FS_Injection
<1>10. f \in Seq(S)
  BY <1>2, <1>6
<1>11. Range(f) = S
  BY <1>6, <1>9 DEF Surjection, Range
<1> QED BY <1>5, <1>10, <1>11

LEMMA FiniteRange ==
  ASSUME NEW S, NEW s \in Seq(S)
  PROVE  IsFiniteSet(Range(s))
<1>1. Len(s) \in Nat /\ s \in [1..Len(s) -> S] /\ Range(s) = {s[n] : n \in 1..Len(s)}
  BY LenProperties, Elements
<1>2. s \in Surjection(1..Len(s), Range(s))
  BY <1>1 DEF Surjection
<1>3. IsFiniteSet(1..Len(s))
  BY <1>1, FS_Interval
<1> QED BY <1>2, <1>3, FS_Surjection

LEMMA ListingOfRange ==
  ASSUME NEW S, NEW s \in Seq(S)
  PROVE  SetToSeq(Range(s)) \in Seq(S) /\ Range(SetToSeq(Range(s))) = Range(s)
<1>1. PICK R : R = Range(s)
  OBVIOUS
<1>2. IsFiniteSet(R) /\ R \subseteq S
  BY <1>1, FiniteRange, Elements
<1>3. SetToSeq(R) \in Seq(R) /\ Range(SetToSeq(R)) = R
  BY <1>2, ListingOfSet
<1>4. SetToSeq(R) \in Seq(S)
  BY <1>2, <1>3
<1> QED BY <1>1, <1>3, <1>4

LEMMA RelistedFacts ==
  ASSUME NEW rs \in Seq(Loaded)
  PROVE  /\ Relisted(Range(rs)) \in Seq(Loaded)
         /\ Range(Relisted(Range(rs))) = Range(rs)
         /\ OperatorFirst(Relisted(Range(rs)))
<1>1. PICK R, A, B : /\ R = Range(rs) /\ A = {x \in R : x.source = "operator"}
                     /\ B = {x \in R : x.source # "operator"}
  OBVIOUS
<1>2. IsFiniteSet(R) /\ R \subseteq Loaded
  BY <1>1, FiniteRange, Elements
<1>3. IsFiniteSet(A) /\ IsFiniteSet(B) /\ A \subseteq Loaded /\ B \subseteq Loaded /\ R = A \cup B
  BY <1>1, <1>2, FS_Subset
<1>4. PICK s, t : s = SetToSeq(A) /\ t = SetToSeq(B)
  OBVIOUS
<1>5. s \in Seq(A) /\ Range(s) = A /\ t \in Seq(B) /\ Range(t) = B
  BY <1>3, <1>4, ListingOfSet
<1>6. PICK u : u = s \o t
  OBVIOUS
<1>7. s \in Seq(Loaded) /\ t \in Seq(Loaded) /\ Len(s) \in Nat /\ Len(t) \in Nat
  BY <1>3, <1>5, LenProperties
<1>8. /\ u \in Seq(Loaded) /\ Len(u) = Len(s) + Len(t)
      /\ \A i \in 1..(Len(s) + Len(t)) : u[i] = IF i <= Len(s) THEN s[i] ELSE t[i - Len(s)]
  BY <1>6, <1>7, ConcatProperties
<1>9. /\ \A i \in 1..Len(s) : u[i] = s[i] /\ s[i] \in A
      /\ \A i \in 1..Len(t) : u[Len(s) + i] = t[i]
      /\ \A i \in 1..Len(u) : i > Len(s) => u[i] \in B
  <2>1. \A i \in 1..Len(s) : s[i] \in A
    BY <1>5, ElementOfSeq
  <2>2. \A i \in 1..Len(t) : t[i] \in B
    BY <1>5, ElementOfSeq
  <2>3. \A i \in 1..Len(t) : u[Len(s) + i] = t[i]
    <3> SUFFICES ASSUME NEW i \in 1..Len(t) PROVE u[Len(s) + i] = t[i]
      OBVIOUS
    <3>1. PICK j : j = Len(s) + i
      OBVIOUS
    <3>2. j \in 1..(Len(s) + Len(t)) /\ ~(j <= Len(s)) /\ j - Len(s) = i
      BY <1>7, <3>1
    <3> QED BY <1>8, <3>1, <3>2
  <2>4. ASSUME NEW i \in 1..Len(u), i > Len(s) PROVE u[i] \in B
    <3>1. i - Len(s) \in 1..Len(t) /\ i \in 1..(Len(s) + Len(t)) /\ ~(i <= Len(s))
      BY <1>7, <1>8, <2>4
    <3> QED BY <1>8, <2>2, <3>1
  <2> QED BY <1>7, <1>8, <2>1, <2>3, <2>4
<1>10. Range(u) = A \cup B
  <2>1. Range(u) = {u[n] : n \in 1..Len(u)} /\ Range(s) = {s[n] : n \in 1..Len(s)}
        /\ Range(t) = {t[n] : n \in 1..Len(t)}
    BY <1>7, <1>8, Elements
  <2>2. ASSUME NEW x \in A PROVE x \in Range(u)
    <3>1. PICK n \in 1..Len(s) : x = s[n]
      BY <1>5, <2>1
    <3> QED BY <1>7, <1>8, <1>9, <2>1, <3>1
  <2>3. ASSUME NEW x \in B PROVE x \in Range(u)
    <3>1. PICK n \in 1..Len(t) : x = t[n]
      BY <1>5, <2>1
    <3>2. Len(s) + n \in 1..Len(u)
      BY <1>7, <1>8
    <3> QED BY <1>9, <2>1, <3>1, <3>2
  <2>4. ASSUME NEW x \in Range(u) PROVE x \in A \cup B
    <3>1. PICK n \in 1..Len(u) : x = u[n]
      BY <2>1
    <3>2. n \in 1..Len(s) \/ n > Len(s)
      BY <1>7, <1>8
    <3> QED BY <1>9, <3>1, <3>2
  <2> QED BY <2>2, <2>3, <2>4
<1>11. OperatorFirst(u)
  <2> SUFFICES ASSUME NEW m \in 1..Len(u), NEW n \in 1..Len(u), m < n, u[n].source = "operator"
               PROVE  u[m].source = "operator"
    BY DEF OperatorFirst
  <2>1. n <= Len(s)
    BY <1>1, <1>7, <1>8, <1>9
  <2>2. m \in 1..Len(s)
    BY <1>7, <1>8, <2>1
  <2> QED BY <1>1, <1>9, <2>2
<1>12. Relisted(Range(rs)) = u
  BY <1>1, <1>4, <1>6 DEF Relisted
<1> QED BY <1>1, <1>3, <1>8, <1>10, <1>11, <1>12

LEMMA IndOrder == TrustInd => OrderFree
<1> SUFFICES ASSUME TrustInd PROVE OrderFree
  OBVIOUS
<1>1. PICK ps, ts, rs : /\ ps = IF Distinct(pins) THEN SetToSeq(Range(pins)) ELSE pins
                        /\ ts = SetToSeq(Range(transitions))
                        /\ rs = Relisted(Range(revocations))
  OBVIOUS
<1>2. PICK listed : listed = [pins |-> ps, transitions |-> ts, revocations |-> rs]
  OBVIOUS
<1>3. ContextOK(Context)
  BY ContextOfInd
<1>4. transitions \in Seq(Transitions) /\ pins \in Seq(Pins) /\ revocations \in Seq(Loaded)
  BY <1>3 DEF ContextOK, Context
<1>5. ps \in Seq(Pins) /\ Range(ps) = Range(pins) /\ (Distinct(ps) \/ ps = pins)
  <2>1. CASE Distinct(pins)
    <3>1. ps \in Seq(Pins) /\ Range(ps) = Range(pins)
      BY <1>1, <1>4, <2>1, ListingOfRange
    <3> QED BY <2>1, <3>1 DEF Distinct
  <2>2. CASE ~Distinct(pins)
    BY <1>1, <1>4, <2>2
  <2> QED BY <2>1, <2>2
<1>6. ts \in Seq(Transitions) /\ Range(ts) = Range(transitions)
  BY <1>1, <1>4, ListingOfRange
<1>7. rs \in Seq(Loaded) /\ Range(rs) = Range(revocations) /\ OperatorFirst(rs)
  BY <1>1, <1>4, RelistedFacts
<1>8. OperatorFirst(revocations)
  BY DEF TrustInd, OperatorFirst
<1>9. SameInputs(listed, Context)
  <2>1. listed.pins = ps /\ listed.transitions = ts /\ listed.revocations = rs
    BY <1>2
  <2>2. Context.pins = pins /\ Context.transitions = transitions /\ Context.revocations = revocations
    BY DEF Context
  <2> QED BY <1>3, <1>5, <1>6, <1>7, <1>8, <2>1, <2>2 DEF SameInputs, ContextOK
<1>10. Verdicts(listed) = Verdicts(Context)
  BY <1>9, VerdictsSame
<1> QED BY <1>1, <1>2, <1>10 DEF OrderFree, Distinct

\* "The result depends only on the set of inputs": the order and the repetitions of
\* the statements, and of pins that do not contradict each other, decide nothing
\* (evaluate, extend, accept).
THEOREM OrderCorrect == TrustSpec => []OrderFree
BY TrustIndHolds, IndOrder, PTL
=============================================================================
