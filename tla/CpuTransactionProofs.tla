-------------------------- MODULE CpuTransactionProofs --------------------------
(* Proofs about CpuTransaction for any policies, values and callers: the   *)
(* transaction is all or nothing for a caller that nobody disturbs, it     *)
(* never asks for an inverted range, and two that succeed agree.           *)
EXTENDS CpuTransaction, SequenceTheorems, TLAPS

Contents == Tokens \union Frequencies
Writes == [path : Endpoints, expected : Contents, value : Contents]

\* The two frequency limits of a policy, at positions i and j of a plan.
Pair(plan, i, j) ==
  plan[i].path[2] = "min" /\ plan[j].path = <<plan[i].path[1], "max">>

(* A plan writes a file once, what it may hold, and both limits of a       *)
(* policy or none, in an order that never inverts the range.               *)
PlanOK(plan) ==
  /\ plan \in Seq(Writes)
  /\ \A i \in DOMAIN plan : plan[i].value \in Values(plan[i].path)
  /\ \A i, j \in DOMAIN plan : plan[i].path = plan[j].path => i = j
  /\ \A i \in DOMAIN plan :
       /\ plan[i].path[2] = "min" => \E j \in DOMAIN plan : Pair(plan, i, j)
       /\ plan[i].path[2] = "max" => \E j \in DOMAIN plan : Pair(plan, j, i)
  /\ \A i, j \in DOMAIN plan : Pair(plan, i, j) =>
       /\ plan[i].value <= plan[j].value
       /\ plan[i].expected <= plan[j].expected
       /\ i < j => plan[i].value <= plan[j].expected
       /\ j < i => plan[i].expected <= plan[j].value

\* Files of the plan, in the order of the plan.
InOrder(plan, files) ==
  /\ files \in Seq(Endpoints)
  /\ \A i \in DOMAIN files : files[i] \in Touched(plan)
  /\ \A i, j \in DOMAIN files : i < j =>
       \A k, l \in DOMAIN plan :
         plan[k].path = files[i] /\ plan[l].path = files[j] => k < l

(* The snapshot found every file as the plan expects it.                   *)
Expected(plan, before) ==
  \A i \in DOMAIN plan : plan[i].expected = before[plan[i].path]

BeforeOK(plan, before) ==
  /\ before \in [Touched(plan) -> Contents]
  /\ \A e \in Touched(plan) : before[e] \in Values(e)

(* What holds of a transaction whoever writes its files.                   *)
PlannedOK(t) ==
  /\ t \in [phase : {"planned"}, req : Requests, plan : Seq(Writes)]
  /\ PlanOK(t.plan)
WritingOK(t) ==
  /\ t.phase = "writing"
  /\ t = [phase |-> "writing", req |-> t.req, plan |-> t.plan, before |-> t.before,
          at |-> t.at, attempted |-> t.attempted]
  /\ PlanOK(t.plan) /\ BeforeOK(t.plan, t.before) /\ Expected(t.plan, t.before)
  /\ t.at \in Nat \ {0} /\ InOrder(t.plan, t.attempted)
  /\ \A i \in DOMAIN t.attempted, k \in DOMAIN t.plan :
       t.plan[k].path = t.attempted[i] => k < t.at
VerifyingOK(t) ==
  /\ t.phase = "verifying"
  /\ t = [phase |-> "verifying", req |-> t.req, plan |-> t.plan, before |-> t.before,
          attempted |-> t.attempted, unread |-> t.unread]
  /\ PlanOK(t.plan) /\ BeforeOK(t.plan, t.before) /\ Expected(t.plan, t.before)
  /\ InOrder(t.plan, t.attempted)
RestoringOK(t) ==
  /\ t.phase = "restoring"
  /\ t = [phase |-> "restoring", plan |-> t.plan, before |-> t.before,
          left |-> t.left, broken |-> t.broken]
  /\ PlanOK(t.plan) /\ BeforeOK(t.plan, t.before) /\ Expected(t.plan, t.before)
  /\ InOrder(t.plan, t.left) /\ t.broken \in BOOLEAN
DoneOK(t) ==
  /\ t.phase = "done"
  /\ t = [phase |-> "done", plan |-> t.plan, before |-> t.before, result |-> t.result]
  /\ PlanOK(t.plan)
  /\ t.result \in {"ok", "refused", "failed", "broken", "unconfirmed"}

TxnOK(t) ==
  \/ t = Idle
  \/ PlannedOK(t) \/ WritingOK(t) \/ VerifyingOK(t) \/ RestoringOK(t) \/ DoneOK(t)

(* What the files v hold for a transaction that nobody disturbed.          *)
Untouched(t, files, v) ==
  \A e \in Touched(t.plan) \ ToSet(files) : v[e] = t.before[e]
Written(t, v) == \A i \in DOMAIN t.plan : v[t.plan[i].path] = t.plan[i].value

WritingCalm(t, v) ==
  /\ \A i \in DOMAIN t.plan :
       v[t.plan[i].path] = IF i < t.at THEN t.plan[i].value ELSE t.before[t.plan[i].path]
  /\ Untouched(t, t.attempted, v)
VerifyingCalm(t, v) == Written(t, v) /\ Untouched(t, t.attempted, v)
RestoringCalm(t, v) ==
  ~t.broken =>
    /\ Untouched(t, t.left, v)
    /\ \A i \in 1..(Len(t.left) - 1), k \in DOMAIN t.plan :
         t.plan[k].path = t.left[i] => v[t.left[i]] = t.plan[k].value
DoneCalm(t, v) ==
  /\ t.result = "ok" => Written(t, v)
  /\ t.result \in {"failed", "refused"} => Untouched(t, <<>>, v)

Calm(t, v) ==
  /\ t.phase = "writing" => WritingCalm(t, v)
  /\ t.phase = "verifying" => VerifyingCalm(t, v)
  /\ t.phase = "restoring" => RestoringCalm(t, v)
  /\ t.phase = "done" => DoneCalm(t, v)

ValuesOK(v) ==
  /\ v \in [Endpoints -> Contents]
  /\ \A e \in Endpoints : v[e] \in Values(e)
  /\ Ordered(v)

IInv ==
  /\ ValuesOK(value)
  /\ DOMAIN txn = Callers /\ disturbed \in [Callers -> BOOLEAN]
  /\ \A c \in Callers : TxnOK(txn[c])
  /\ \A c \in Callers : ~disturbed[c] => Calm(txn[c], value)

(* Of two that are past their writes, one still finds every shared file it *)
(* has read back as it wrote it.                                           *)
Unread(c) == IF txn[c].phase = "verifying" THEN txn[c].unread ELSE {}
PastWrites(c) == txn[c].phase = "verifying" \/ Ended(c, "ok")
ReadBack(c, files) == \A e \in files \ Unread(c) : Holds(txn[c].plan, e)

Shared(c, d) == Touched(txn[c].plan) \intersect Touched(txn[d].plan)
Agree(c, d) == ReadBack(c, Shared(c, d)) \/ ReadBack(d, Shared(c, d))

Agreement ==
  \A c, d \in Callers : c # d /\ PastWrites(c) /\ PastWrites(d) => Agree(c, d)
-----------------------------------------------------------------------------
LEMMA PlanElements ==
  ASSUME NEW plan \in Seq(Writes)
  PROVE  /\ Len(plan) \in Nat /\ DOMAIN plan = 1..Len(plan)
         /\ \A i \in DOMAIN plan : plan[i] \in Writes
BY LenProperties, ElementOfSeq

LEMMA TouchedExist ==
  ASSUME NEW plan, PlanOK(plan)
  PROVE  /\ Touched(plan) \subseteq Endpoints
         /\ \A i \in DOMAIN plan : plan[i].path \in Touched(plan)
<1>1. \A i \in DOMAIN plan : plan[i] \in Writes
  BY PlanElements DEF PlanOK
<1> QED BY <1>1 DEF Touched, Writes

(* What is calm stays so when the files of its plan do.                    *)
LEMMA CalmDependsOnItsFiles ==
  ASSUME NEW t, NEW v, NEW w, TxnOK(t), Calm(t, v),
         t.phase # "idle" => \A e \in Touched(t.plan) : w[e] = v[e]
  PROVE  Calm(t, w)
<1>1. \A i \in DOMAIN t.plan : t.plan[i].path \in Touched(t.plan)
  BY DEF Touched
<1>2. CASE t.phase = "writing"
  BY <1>1, <1>2 DEF Calm, WritingCalm, Untouched
<1>3. CASE t.phase = "verifying"
  BY <1>1, <1>3 DEF Calm, VerifyingCalm, Untouched, Written
<1>4. CASE t.phase = "restoring"
  <2>1. Untouched(t, t.left, v) => Untouched(t, t.left, w)
    BY <1>4 DEF Untouched
  <2>2. \A i \in 1..(Len(t.left) - 1) : t.left[i] \in Touched(t.plan)
    BY <1>4 DEF TxnOK, Idle, PlannedOK, WritingOK, VerifyingOK, RestoringOK, DoneOK, InOrder
  <2> QED BY <1>4, <2>1, <2>2 DEF Calm, RestoringCalm
<1>5. CASE t.phase = "done"
  BY <1>1, <1>5 DEF Calm, DoneCalm, Untouched, Written
<1> QED BY <1>2, <1>3, <1>4, <1>5 DEF Calm

LEMMA FilesOfEndpoints ==
  ASSUME NEW e \in Endpoints
  PROVE  /\ e = <<e[1], e[2]>> /\ e[2] \in {"governor", "epp", "min", "max"}
         /\ e[2] \in {"min", "max"} =>
              <<e[1], "min">> \in Endpoints /\ <<e[1], "max">> \in Endpoints
BY DEF Endpoints

LEMMA FrequenciesAreNumbers == Frequencies \subseteq Nat
BY CpuTransactionAssumption DEF Frequencies

LEMMA ValuesAreContents ==
  ASSUME NEW e PROVE Values(e) \subseteq Contents
BY DEF Values, Contents

(* A write of a limit keeps the range if the other limit allows it.        *)
LEMMA OrderedWrite ==
  ASSUME NEW v, ValuesOK(v), NEW e \in Endpoints, NEW x \in Values(e),
         e[2] = "min" => x <= v[<<e[1], "max">>],
         e[2] = "max" => v[<<e[1], "min">>] <= x
  PROVE  Ordered([v EXCEPT ![e] = x])
<1> DEFINE w == [v EXCEPT ![e] = x]
<1> SUFFICES ASSUME NEW f \in Endpoints, f[2] = "min"
             PROVE  w[f] <= w[<<f[1], "max">>]
  BY DEF Ordered
<1> DEFINE g == <<f[1], "max">>
<1>1. g \in Endpoints /\ f # g /\ f = <<f[1], "min">> /\ g[1] = f[1] /\ g[2] = "max"
  BY FilesOfEndpoints
<1>2. v[f] <= v[g] /\ v \in [Endpoints -> Contents]
  BY DEF ValuesOK, Ordered
<1>3. CASE e = f
  BY <1>1, <1>2, <1>3
<1>4. CASE e = g
  BY <1>1, <1>2, <1>4
<1>5. CASE e # f /\ e # g
  BY <1>1, <1>2, <1>5
<1> QED BY <1>3, <1>4, <1>5

LEMMA WriteKeepsValues ==
  ASSUME NEW v, ValuesOK(v), NEW e \in Endpoints, NEW x \in Values(e),
         Ordered([v EXCEPT ![e] = x])
  PROVE  ValuesOK([v EXCEPT ![e] = x])
BY ValuesAreContents DEF ValuesOK

(* A step of one caller leaves the others as they were, or disturbed.      *)
LEMMA OthersKept ==
  ASSUME IInv, NEW c \in Callers, NEW d \in Callers, c # d, txn'[d] = txn[d],
         \/ value' = value /\ disturbed'[d] = disturbed[d]
         \/ \E e \in Endpoints :
              Disturbs(c, e) /\ \A f \in Endpoints \ {e} : value'[f] = value[f]
  PROVE  /\ TxnOK(txn'[d])
         /\ ~disturbed'[d] => Calm(txn'[d], value')
<1>1. TxnOK(txn[d]) /\ (~disturbed[d] => Calm(txn[d], value))
  BY DEF IInv
<1>3. txn[d].phase # "idle" => PlanOK(txn[d].plan)
  BY <1>1 DEF TxnOK, Idle, PlannedOK, WritingOK, VerifyingOK, RestoringOK, DoneOK
<1>4. CASE value' = value /\ disturbed'[d] = disturbed[d]
  BY <1>1, <1>4
<1>5. ASSUME NEW e \in Endpoints, Disturbs(c, e),
             \A f \in Endpoints \ {e} : value'[f] = value[f], ~disturbed'[d]
      PROVE  Calm(txn[d], value')
  <2>1. ~disturbed[d] /\ (Active(d) => e \notin Touched(txn[d].plan))
    BY <1>5 DEF Disturbs
  <2>2. txn[d].phase # "idle" => \A f \in Touched(txn[d].plan) : value'[f] = value[f]
    BY <1>3, <1>5, <2>1, TouchedExist DEF Active
  <2> QED BY <1>1, <2>1, <2>2, CalmDependsOnItsFiles
<1> QED BY <1>1, <1>4, <1>5

-----------------------------------------------------------------------------
(* Plans.                                                                  *)
LEMMA OfferingIsASequence ==
  ASSUME NEW control \in {"governor", "epp", "limits"}
  PROVE  LET ps == Offering[control]
         IN /\ ps \in Seq(Policies) /\ Len(ps) \in Nat /\ DOMAIN ps = 1..Len(ps)
            /\ \A i, j \in 1..Len(ps) : ps[i] = ps[j] => i = j
            /\ \A i \in 1..Len(ps) : ps[i] \in ToSet(ps)
<1>1. Offering[control] \in Seq(Policies) /\ IsInjective(Offering[control])
  BY CpuTransactionAssumption
<1>2. Len(Offering[control]) \in Nat /\ DOMAIN Offering[control] = 1..Len(Offering[control])
  BY <1>1, LenProperties
<1> QED BY <1>1, <1>2 DEF IsInjective, ToSet

LEMMA ChoicePlan ==
  ASSUME ValuesOK(value), NEW leaf \in {"governor", "epp"}, NEW token \in Tokens
  PROVE  /\ ToEvery(leaf, token) \in Seq(Writes)
         /\ \A i \in DOMAIN ToEvery(leaf, token) :
              /\ ToEvery(leaf, token)[i].value = token
              /\ ToEvery(leaf, token)[i].path[2] = leaf
         /\ \A i, j \in DOMAIN ToEvery(leaf, token) :
              ToEvery(leaf, token)[i].path = ToEvery(leaf, token)[j].path => i = j
<1> DEFINE ps == Offering[leaf]
           plan == ToEvery(leaf, token)
<1>1. /\ Len(ps) \in Nat
      /\ \A i, j \in 1..Len(ps) : ps[i] = ps[j] => i = j
      /\ \A i \in 1..Len(ps) : ps[i] \in ToSet(ps)
  BY OfferingIsASequence
<1>2. plan = [i \in 1..Len(ps) |-> Write(<<ps[i], leaf>>, token)]
  BY DEF ToEvery
<1>3. \A i \in 1..Len(ps) : <<ps[i], leaf>> \in Endpoints
  BY <1>1 DEF Endpoints
<1>4. \A i \in 1..Len(ps) : Write(<<ps[i], leaf>>, token) \in Writes
  BY <1>3 DEF Write, Writes, ValuesOK, Contents
<1>5. plan \in [1..Len(ps) -> Writes]
  BY <1>2, <1>4
<1>6. plan \in Seq(Writes) /\ DOMAIN plan = 1..Len(ps)
  BY <1>1, <1>5
<1> HIDE DEF ps
<1>7. \A i \in DOMAIN plan : plan[i].path = <<ps[i], leaf>> /\ plan[i].value = token
  BY <1>2, <1>6 DEF Write
<1> HIDE DEF plan
<1> QED BY <1>1, <1>6, <1>7 DEF plan

LEMMA ChoicesAreOK ==
  ASSUME ValuesOK(value), NEW plan \in Seq(Writes),
         \A i \in DOMAIN plan :
           plan[i].value \in Tokens /\ plan[i].path[2] \in {"governor", "epp"},
         \A i, j \in DOMAIN plan : plan[i].path = plan[j].path => i = j
  PROVE  PlanOK(plan)
<1>1. \A i \in DOMAIN plan : plan[i].value \in Values(plan[i].path)
  BY DEF Values
<1>2. \A i, j \in DOMAIN plan : ~Pair(plan, i, j)
  BY DEF Pair
<1> QED BY <1>1, <1>2 DEF PlanOK

LEMMA ModePlanIsOK ==
  ASSUME ValuesOK(value), NEW governor \in Tokens, NEW epp \in Tokens
  PROVE  PlanOK(ToEvery("governor", governor) \o ToEvery("epp", epp))
<1> DEFINE a == ToEvery("governor", governor)
           b == ToEvery("epp", epp)
<1>1. /\ a \in Seq(Writes)
      /\ \A i \in DOMAIN a : a[i].value = governor /\ a[i].path[2] = "governor"
      /\ \A i, j \in DOMAIN a : a[i].path = a[j].path => i = j
  BY ChoicePlan
<1>2. /\ b \in Seq(Writes)
      /\ \A i \in DOMAIN b : b[i].value = epp /\ b[i].path[2] = "epp"
      /\ \A i, j \in DOMAIN b : b[i].path = b[j].path => i = j
  BY ChoicePlan
<1> HIDE DEF a, b
<1> DEFINE plan == a \o b
<1>3. /\ plan \in Seq(Writes) /\ Len(plan) = Len(a) + Len(b)
      /\ \A i \in 1..(Len(a) + Len(b)) :
           plan[i] = IF i <= Len(a) THEN a[i] ELSE b[i - Len(a)]
  BY <1>1, <1>2, ConcatProperties
<1>4. /\ Len(a) \in Nat /\ DOMAIN a = 1..Len(a)
      /\ Len(b) \in Nat /\ DOMAIN b = 1..Len(b)
      /\ DOMAIN plan = 1..(Len(a) + Len(b))
  BY <1>1, <1>2, <1>3, LenProperties
<1> HIDE DEF plan
<1>5. \A i \in DOMAIN plan :
        \/ i \in DOMAIN a /\ plan[i] = a[i]
        \/ i - Len(a) \in DOMAIN b /\ plan[i] = b[i - Len(a)]
  BY <1>3, <1>4
<1>6. \A i \in DOMAIN plan :
        plan[i].value \in Tokens /\ plan[i].path[2] \in {"governor", "epp"}
  BY <1>1, <1>2, <1>5
<1>7. ASSUME NEW i \in DOMAIN plan, NEW j \in DOMAIN plan, plan[i].path = plan[j].path
      PROVE  i = j
  <2>1. CASE i \in DOMAIN a /\ plan[i] = a[i] /\ j \in DOMAIN a /\ plan[j] = a[j]
    BY <1>1, <1>7, <2>1
  <2>2. CASE /\ i - Len(a) \in DOMAIN b /\ plan[i] = b[i - Len(a)]
             /\ j - Len(a) \in DOMAIN b /\ plan[j] = b[j - Len(a)]
    <3>1. i - Len(a) = j - Len(a)
      BY <1>2, <1>7, <2>2
    <3> QED BY <3>1, <1>4
  <2>3. CASE /\ i \in DOMAIN a /\ plan[i] = a[i]
             /\ j - Len(a) \in DOMAIN b /\ plan[j] = b[j - Len(a)]
    BY <1>1, <1>2, <1>7, <2>3
  <2>4. CASE /\ i - Len(a) \in DOMAIN b /\ plan[i] = b[i - Len(a)]
             /\ j \in DOMAIN a /\ plan[j] = a[j]
    BY <1>1, <1>2, <1>7, <2>4
  <2> QED BY <1>5, <2>1, <2>2, <2>3, <2>4
<1>8. PlanOK(plan)
  BY <1>3, <1>6, <1>7, ChoicesAreOK
<1> QED BY <1>8 DEF plan, a, b

LEMMA Halves ==
  ASSUME NEW n \in Nat, NEW i \in 1..(2 * n)
  PROVE  LET h == (i + 1) \div 2
         IN /\ h \in 1..n
            /\ (i % 2 = 1 /\ i = 2 * h - 1) \/ (i % 2 = 0 /\ i = 2 * h)
<1> DEFINE h == (i + 1) \div 2
           m == i % 2
<1>1. i + 1 = 2 * h + ((i + 1) % 2) /\ h \in Nat
  OBVIOUS
<1>2. (i + 1) % 2 = 1 - m /\ m \in 0..1
  OBVIOUS
<1> HIDE DEF h, m
<1>3. i = 2 * h - m
  BY <1>1, <1>2
<1>4. h \in 1..n /\ ((m = 1 /\ i = 2 * h - 1) \/ (m = 0 /\ i = 2 * h))
  BY <1>1, <1>2, <1>3
<1> QED BY <1>4 DEF h, m

LEMMA LimitsPlanIsOK ==
  ASSUME ValuesOK(value), NEW req \in Requests, req.kind = "limits", Valid(req)
  PROVE  PlanOK(Plan(req))
<1> DEFINE ps == Offering["limits"]
           n == Len(ps)
           plan == Plan(req)
           Half(i) == (i + 1) \div 2
           Lo(h) == <<ps[h], "min">>
           Hi(h) == <<ps[h], "max">>
           Low(h) == Effective(req.min, Lo(h))
           High(h) == Effective(req.max, Hi(h))
<1>1. /\ n \in Nat
      /\ \A i, j \in 1..n : ps[i] = ps[j] => i = j
      /\ \A i \in 1..n : ps[i] \in ToSet(ps)
  BY OfferingIsASequence
<1>2. plan = [i \in 1..(2 * n) |-> LimitsOf(ps[Half(i)], req)[2 - (i % 2)]]
  BY DEF Plan
\* The two writes of each policy, in one order or the other.
<1>3. \A h \in 1..n :
        /\ Lo(h) \in Endpoints /\ Hi(h) \in Endpoints
        /\ value[Lo(h)] \in Frequencies /\ value[Hi(h)] \in Frequencies
        /\ value[Lo(h)] <= value[Hi(h)]
        /\ Low(h) \in Frequencies /\ High(h) \in Frequencies
        /\ Low(h) <= High(h)
  <2> SUFFICES ASSUME NEW h \in 1..n PROVE <1>3!(h)
    OBVIOUS
  <2>1. Lo(h) \in Endpoints /\ Hi(h) \in Endpoints
    BY <1>1 DEF Endpoints
  <2>2. value[Lo(h)] \in Frequencies /\ value[Hi(h)] \in Frequencies
    BY <2>1 DEF ValuesOK, Values
  <2>3. value[Lo(h)] <= value[Hi(h)]
    BY <2>1 DEF ValuesOK, Ordered
  <2>4. req.min \in Frequencies \union {Unset} /\ req.max \in Frequencies \union {Unset}
    BY DEF Requests
  <2>5. Low(h) \in Frequencies /\ High(h) \in Frequencies
    BY <2>2, <2>4 DEF Effective
  <2>6. Low(h) <= High(h)
    BY <1>1 DEF Valid
  <2> QED BY <2>1, <2>2, <2>3, <2>5, <2>6
<1> DEFINE First(h) == High(h) < value[Lo(h)]
           Odd(i) == i % 2 = 1
           Lower(i) == Odd(i) <=> First(Half(i))
<1>4. \A i \in 1..(2 * n) :
        /\ Half(i) \in 1..n
        /\ i = IF Odd(i) THEN 2 * Half(i) - 1 ELSE 2 * Half(i)
        /\ plan[i] = IF Lower(i) THEN Write(Lo(Half(i)), Low(Half(i)))
                                 ELSE Write(Hi(Half(i)), High(Half(i)))
  <2> SUFFICES ASSUME NEW i \in 1..(2 * n) PROVE <1>4!(i)
    OBVIOUS
  <2>1. Half(i) \in 1..n /\ ((i % 2 = 1 /\ i = 2 * Half(i) - 1) \/ (i % 2 = 0 /\ i = 2 * Half(i)))
    BY <1>1, Halves
  <2>2. plan[i] = LimitsOf(ps[Half(i)], req)[2 - (i % 2)]
    BY <1>2
  <2> HIDE DEF n, plan, Half
  <2>3. CASE i % 2 = 1
    BY <2>1, <2>2, <2>3 DEF LimitsOf, Write
  <2>4. CASE i % 2 = 0
    BY <2>1, <2>2, <2>4 DEF LimitsOf, Write
  <2> QED BY <2>1, <2>3, <2>4
<1> HIDE DEF n, Half, Odd
<1>5. \A i \in 1..(2 * n) :
        /\ plan[i] \in Writes
        /\ plan[i].path = IF Lower(i) THEN Lo(Half(i)) ELSE Hi(Half(i))
        /\ plan[i].value = IF Lower(i) THEN Low(Half(i)) ELSE High(Half(i))
        /\ plan[i].expected = value[plan[i].path]
        /\ plan[i].value \in Values(plan[i].path)
  <2> SUFFICES ASSUME NEW i \in 1..(2 * n) PROVE <1>5!(i)
    OBVIOUS
  <2> DEFINE h == Half(i)
  <2>1. h \in 1..n
    BY <1>4
  <2>2. Lo(h) \in Endpoints /\ Hi(h) \in Endpoints /\ Low(h) \in Frequencies
        /\ High(h) \in Frequencies /\ value[Lo(h)] \in Contents /\ value[Hi(h)] \in Contents
    BY <1>3, <2>1 DEF Contents
  <2>3. plan[i] = IF Lower(i) THEN Write(Lo(h), Low(h)) ELSE Write(Hi(h), High(h))
    BY <1>4
  <2> HIDE DEF Lower, plan, Low, High
  <2>4. CASE Lower(i)
    BY <2>2, <2>3, <2>4 DEF Write, Writes, Values, Contents
  <2>5. CASE ~Lower(i)
    BY <2>2, <2>3, <2>5 DEF Write, Writes, Values, Contents
  <2> QED BY <2>4, <2>5
<1>6. plan \in Seq(Writes) /\ DOMAIN plan = 1..(2 * n)
  <2>1. 2 * n \in Nat /\ DOMAIN plan = 1..(2 * n)
    BY <1>1, <1>2
  <2>2. plan \in [1..(2 * n) -> Writes]
    BY <1>2, <1>5
  <2> QED BY <2>1, <2>2
<1> HIDE DEF plan, Low, High
<1>7. ASSUME NEW i \in DOMAIN plan, NEW j \in DOMAIN plan, plan[i].path = plan[j].path
      PROVE  i = j
  <2>1. Half(i) \in 1..n /\ Half(j) \in 1..n
    BY <1>4, <1>6
  <2>2. ps[Half(i)] = ps[Half(j)] /\ (Lower(i) <=> Lower(j))
    <3>1. /\ plan[i].path = IF Lower(i) THEN Lo(Half(i)) ELSE Hi(Half(i))
          /\ plan[j].path = IF Lower(j) THEN Lo(Half(j)) ELSE Hi(Half(j))
      BY <1>5, <1>6
    <3> HIDE DEF Lower
    <3> QED BY <3>1, <1>7
  <2>3. Half(i) = Half(j)
    BY <1>1, <2>1, <2>2
  <2>4. Odd(i) <=> Odd(j)
    BY <2>2, <2>3
  <2>5. /\ i = IF Odd(i) THEN 2 * Half(i) - 1 ELSE 2 * Half(i)
        /\ j = IF Odd(j) THEN 2 * Half(j) - 1 ELSE 2 * Half(j)
    BY <1>4, <1>6
  <2> QED BY <2>3, <2>4, <2>5
<1>8. ASSUME NEW i \in DOMAIN plan
      PROVE  \E j \in DOMAIN plan : Half(j) = Half(i) /\ (Lower(j) <=> ~Lower(i))
  <2>1. Half(i) \in 1..n /\ i = IF Odd(i) THEN 2 * Half(i) - 1 ELSE 2 * Half(i)
    BY <1>4, <1>6
  <2>2. PICK j \in 1..(2 * n) : j = IF Odd(i) THEN 2 * Half(i) ELSE 2 * Half(i) - 1
    BY <1>1, <2>1
  <2>3. Half(j) \in 1..n /\ j = IF Odd(j) THEN 2 * Half(j) - 1 ELSE 2 * Half(j)
    BY <1>4
  <2>4. Half(j) = Half(i) /\ (Odd(j) <=> ~Odd(i))
    BY <2>1, <2>2, <2>3, <1>1
  <2> QED BY <2>2, <2>4, <1>6
<1>9. \A i, j \in DOMAIN plan : Pair(plan, i, j) <=>
        Lower(i) /\ ~Lower(j) /\ Half(i) = Half(j)
  <2> SUFFICES ASSUME NEW i \in DOMAIN plan, NEW j \in DOMAIN plan PROVE <1>9!(i, j)
    OBVIOUS
  <2>1. Half(i) \in 1..n /\ Half(j) \in 1..n
    BY <1>4, <1>6
  <2>2. /\ plan[i].path = IF Lower(i) THEN Lo(Half(i)) ELSE Hi(Half(i))
        /\ plan[j].path = IF Lower(j) THEN Lo(Half(j)) ELSE Hi(Half(j))
    BY <1>5, <1>6
  <2> HIDE DEF Lower
  <2> QED BY <1>1, <2>1, <2>2 DEF Pair
<1>10. \A i \in DOMAIN plan :
        /\ plan[i].path[2] = "min" => \E j \in DOMAIN plan : Pair(plan, i, j)
        /\ plan[i].path[2] = "max" => \E j \in DOMAIN plan : Pair(plan, j, i)
  <2> SUFFICES ASSUME NEW i \in DOMAIN plan PROVE <1>10!(i)
    OBVIOUS
  <2>1. PICK j \in DOMAIN plan : Half(j) = Half(i) /\ (Lower(j) <=> ~Lower(i))
    BY <1>8
  <2>2. plan[i].path = IF Lower(i) THEN Lo(Half(i)) ELSE Hi(Half(i))
    BY <1>5, <1>6
  <2> HIDE DEF Lower
  <2> QED BY <1>9, <2>1, <2>2
<1>11. ASSUME NEW i \in DOMAIN plan, NEW j \in DOMAIN plan, Pair(plan, i, j)
       PROVE  /\ plan[i].value <= plan[j].value
              /\ plan[i].expected <= plan[j].expected
              /\ i < j => plan[i].value <= plan[j].expected
              /\ j < i => plan[i].expected <= plan[j].value
  <2> DEFINE h == Half(i)
  <2>1. Lower(i) /\ ~Lower(j) /\ Half(j) = h /\ h \in 1..n
    BY <1>4, <1>6, <1>9, <1>11
  <2>2. /\ plan[i].value = Low(h) /\ plan[i].expected = value[Lo(h)]
        /\ plan[j].value = High(h) /\ plan[j].expected = value[Hi(h)]
    <3> HIDE DEF Lower
    <3> QED BY <1>5, <1>6, <2>1
  <2>3. /\ Low(h) \in Nat /\ High(h) \in Nat /\ value[Lo(h)] \in Nat /\ value[Hi(h)] \in Nat
        /\ Low(h) <= High(h) /\ value[Lo(h)] <= value[Hi(h)]
    BY <1>3, <2>1, FrequenciesAreNumbers
  <2>4. (Odd(i) <=> First(h)) /\ (Odd(j) <=> ~First(h))
    BY <2>1
  <2>5. /\ i = IF Odd(i) THEN 2 * h - 1 ELSE 2 * h
        /\ j = IF Odd(j) THEN 2 * h - 1 ELSE 2 * h
    BY <1>4, <1>6, <2>1
  <2>6. h \in Nat
    BY <1>1, <2>1
  <2> HIDE DEF h, First
  <2>7. (i < j => First(h)) /\ (j < i => ~First(h))
    BY <2>4, <2>5, <2>6
  <2> QED BY <2>2, <2>3, <2>7 DEF First
<1>12. \A i \in DOMAIN plan : plan[i].value \in Values(plan[i].path)
  BY <1>5, <1>6
<1>13. PlanOK(plan)
  BY <1>6, <1>7, <1>10, <1>11, <1>12 DEF PlanOK
<1> QED BY <1>13 DEF plan

(* Every plan of a valid request.                                          *)
LEMMA PlansAreOK ==
  ASSUME ValuesOK(value), NEW req \in Requests, Valid(req)
  PROVE  PlanOK(Plan(req))
<1>1. CASE req.kind \in {"governor", "epp"}
  <2>1. req.token \in Tokens
    BY <1>1 DEF Requests
  <2>2. Plan(req) = ToEvery(req.kind, req.token)
    BY <1>1 DEF Plan
  <2>3. PlanOK(ToEvery(req.kind, req.token))
    BY <1>1, <2>1, ChoicePlan, ChoicesAreOK
  <2> QED BY <2>2, <2>3
<1>2. CASE req.kind = "mode"
  <2>1. req.governor \in Tokens /\ req.epp \in Tokens
    BY <1>2 DEF Requests
  <2>2. Plan(req) = ToEvery("governor", req.governor) \o ToEvery("epp", req.epp)
    BY <1>2 DEF Plan
  <2> QED BY <2>1, <2>2, ModePlanIsOK
<1>3. CASE req.kind = "limits"
  BY <1>3, LimitsPlanIsOK
<1> QED BY <1>1, <1>2, <1>3 DEF Requests

-----------------------------------------------------------------------------
(* The files written so far, and those left to restore.                    *)
LEMMA AppendInOrder ==
  ASSUME NEW t, WritingOK(t), t.at \in DOMAIN t.plan
  PROVE  LET e == t.plan[t.at].path
             more == Append(t.attempted, e)
         IN /\ InOrder(t.plan, more)
            /\ ToSet(more) = ToSet(t.attempted) \union {e}
            /\ \A i \in DOMAIN more, k \in DOMAIN t.plan :
                 t.plan[k].path = more[i] => k < t.at + 1
            /\ Len(more) - 1 = Len(t.attempted)
            /\ \A i \in 1..Len(t.attempted) : more[i] = t.attempted[i]
<1> DEFINE plan == t.plan
           old == t.attempted
           e == plan[t.at].path
           more == Append(old, e)
           n == Len(old)
<1>1. /\ PlanOK(plan) /\ InOrder(plan, old) /\ t.at \in Nat
      /\ \A i \in DOMAIN old, k \in DOMAIN plan : plan[k].path = old[i] => k < t.at
  BY DEF WritingOK
<1>2. old \in Seq(Endpoints) /\ e \in Endpoints /\ e \in Touched(plan)
  BY <1>1, TouchedExist DEF InOrder
<1>3. n \in Nat /\ DOMAIN old = 1..n
  BY <1>2, LenProperties
<1>4. /\ more \in Seq(Endpoints) /\ Len(more) = n + 1 /\ DOMAIN more = 1..(n + 1)
      /\ \A i \in 1..n : more[i] = old[i]
      /\ more[n + 1] = e
  BY <1>2, <1>3, AppendProperties, LenProperties
<1>5. \A k, l \in DOMAIN plan : plan[k].path = plan[l].path => k = l
  BY <1>1 DEF PlanOK
<1>6. /\ \A i \in DOMAIN old : old[i] \in Touched(plan)
      /\ \A i, j \in DOMAIN old : i < j =>
           \A k, l \in DOMAIN plan : plan[k].path = old[i] /\ plan[l].path = old[j] => k < l
  BY <1>1 DEF InOrder
<1> HIDE DEF more, old, n
<1>7. \A i \in DOMAIN more : i \in 1..n \/ i = n + 1
  BY <1>3, <1>4
<1>8. \A k \in DOMAIN plan : plan[k].path = e => k = t.at
  BY <1>5
<1>9. DOMAIN plan \subseteq Nat
  BY <1>1, PlanElements DEF PlanOK
<1> HIDE DEF plan, e
<1>10. \A i \in DOMAIN more, k \in DOMAIN plan : plan[k].path = more[i] => k < t.at + 1
  BY <1>1, <1>3, <1>4, <1>7, <1>8, <1>9
<1>11. \A i \in DOMAIN more : more[i] \in Touched(plan)
  BY <1>2, <1>3, <1>4, <1>6, <1>7
<1>12. ASSUME NEW i \in DOMAIN more, NEW j \in DOMAIN more, i < j,
              NEW k \in DOMAIN plan, NEW l \in DOMAIN plan,
              plan[k].path = more[i], plan[l].path = more[j]
       PROVE  k < l
  <2>1. i \in 1..n /\ more[i] = old[i]
    BY <1>3, <1>4, <1>7, <1>12
  <2>2. CASE j \in 1..n
    BY <1>3, <1>4, <1>6, <1>12, <2>1, <2>2
  <2>3. CASE j = n + 1
    BY <1>1, <1>3, <1>4, <1>8, <1>12, <2>1, <2>3
  <2> QED BY <1>7, <2>2, <2>3
<1>13. InOrder(plan, more)
  BY <1>4, <1>11, <1>12 DEF InOrder
<1>14. ToSet(more) = ToSet(old) \union {e}
  BY <1>3, <1>4, <1>7 DEF ToSet
<1> QED BY <1>3, <1>4, <1>10, <1>13, <1>14 DEF more, old, e, plan, n

LEMMA FrontInOrder ==
  ASSUME NEW plan, PlanOK(plan), NEW files, InOrder(plan, files), files # <<>>
  PROVE  /\ Len(files) \in Nat \ {0}
         /\ Last(files) \in Touched(plan) /\ Last(files) = files[Len(files)]
         /\ InOrder(plan, Front(files)) /\ Len(Front(files)) = Len(files) - 1
         /\ \A i \in 1..(Len(files) - 1) :
              Front(files)[i] = files[i] /\ files[i] # Last(files)
         /\ ToSet(files) = ToSet(Front(files)) \union {Last(files)}
<1> DEFINE n == Len(files)
           less == Front(files)
<1>1. files \in Seq(Endpoints)
  BY DEF InOrder
<1>2. n \in Nat \ {0} /\ DOMAIN files = 1..n
  BY <1>1, LenProperties, EmptySeq
<1>3. less = SubSeq(files, 1, n - 1) /\ Last(files) = files[n]
  BY DEF Front, Last
<1>4. \A i \in 1..n : files[i] \in Endpoints
  BY <1>1, ElementOfSeq
<1>5. less = [i \in 1..(n - 1) |-> files[i]]
  BY <1>1, <1>2, <1>3, SubSeqProperties
<1>6. less \in Seq(Endpoints) /\ Len(less) = n - 1 /\ DOMAIN less = 1..(n - 1)
  <2>1. less \in [1..(n - 1) -> Endpoints] /\ n - 1 \in Nat
    BY <1>2, <1>4, <1>5
  <2> DEFINE m == n - 1
  <2> HIDE DEF m, less
  <2>2. less \in [1..m -> Endpoints] /\ m \in Nat
    BY <2>1 DEF m
  <2>3. less \in Seq(Endpoints) /\ Len(less) = m /\ DOMAIN less = 1..m
    BY <2>2
  <2> QED BY <2>3 DEF m
<1>7. \A i \in 1..(n - 1) : less[i] = files[i] /\ i \in 1..n /\ i < n
  BY <1>2, <1>5
<1> HIDE DEF n, less
<1>8. \A i \in 1..(n - 1) : files[i] # files[n]
  <2> SUFFICES ASSUME NEW i \in 1..(n - 1), files[i] = files[n] PROVE FALSE
    OBVIOUS
  <2>1. files[i] \in Touched(plan) /\ i < n /\ i \in DOMAIN files /\ n \in DOMAIN files
    BY <1>2, <1>7 DEF InOrder
  <2>2. PICK k \in DOMAIN plan : plan[k].path = files[i]
    BY <2>1 DEF Touched
  <2>3. k < k
    BY <2>1, <2>2 DEF InOrder
  <2>4. k \in Nat
    BY <2>2, PlanElements DEF PlanOK
  <2> QED BY <2>3, <2>4
<1>9. InOrder(plan, less)
  BY <1>2, <1>6, <1>7 DEF InOrder
<1>10. ToSet(files) = ToSet(less) \union {files[n]}
  <2>1. \A i \in 1..n : i \in 1..(n - 1) \/ i = n
    BY <1>2
  <2>2. n \in 1..n
    BY <1>2
  <2> QED BY <1>2, <1>6, <1>7, <2>1, <2>2 DEF ToSet
<1>11. files[n] \in Touched(plan)
  BY <1>2 DEF InOrder
<1> QED BY <1>2, <1>3, <1>6, <1>7, <1>8, <1>9, <1>10, <1>11 DEF n, less

-----------------------------------------------------------------------------
(* The steps of one caller.                                                *)
Kept(c) ==
  /\ TxnOK(txn'[c])
  /\ ~disturbed'[c] => Calm(txn'[c], value')

\* A caller does not disturb itself.
LEMMA OwnWriteDisturbsOthers ==
  ASSUME IInv, NEW c \in Callers, NEW e, Disturbs(c, e)
  PROVE  disturbed' \in [Callers -> BOOLEAN] /\ disturbed'[c] = disturbed[c]
BY DEF Disturbs, IInv

LEMMA BecomesNext ==
  ASSUME IInv, NEW c \in Callers, NEW next, Becomes(c, next)
  PROVE  /\ DOMAIN txn' = Callers /\ txn'[c] = next
         /\ \A d \in Callers \ {c} : txn'[d] = txn[d]
BY DEF Becomes, IInv

LEMMA BeginKept ==
  ASSUME IInv, NEW c \in Callers, NEW req \in Requests, Begin(c, req)
  PROVE  Kept(c)
<1>1. txn'[c] = Planned(req, Plan(req))
  BY BecomesNext DEF Begin
<1>2. PlanOK(Plan(req))
  BY PlansAreOK DEF Begin, IInv
<1>3. PlannedOK(txn'[c])
  BY <1>1, <1>2 DEF Planned, PlannedOK, PlanOK
<1> QED BY <1>1, <1>3 DEF Kept, TxnOK, Planned, Calm

LEMMA SnapshotKept ==
  ASSUME IInv, NEW c \in Callers, Snapshot(c)
  PROVE  Kept(c)
<1> DEFINE t == txn[c]
           plan == t.plan
           before == [e \in Touched(plan) |-> value[e]]
<1>1. t.phase = "planned" /\ PlanOK(plan)
  <2>1. TxnOK(t) /\ t.phase = "planned"
    BY DEF IInv, Snapshot
  <2> QED BY <2>1 DEF TxnOK, Idle, PlannedOK, WritingOK, VerifyingOK, RestoringOK, DoneOK
<1>2. value' = value /\ ValuesOK(value)
  BY DEF Snapshot, IInv
<1>3. Touched(plan) \subseteq Endpoints /\ \A i \in DOMAIN plan : plan[i].path \in Touched(plan)
  BY <1>1, TouchedExist
<1>4. BeforeOK(plan, before)
  BY <1>2, <1>3 DEF ValuesOK, BeforeOK
<1>5. CASE /\ \A i \in DOMAIN plan : plan[i].expected = value[plan[i].path]
           /\ Becomes(c, Writing(t, before))
  <2>1. txn'[c] = Writing(t, before)
    BY <1>5, BecomesNext
  <2>2. Expected(plan, before)
    BY <1>3, <1>5 DEF Expected
  <2>3. InOrder(plan, <<>>)
    BY EmptySeq DEF InOrder
  <2>4. WritingOK(Writing(t, before))
    <3> HIDE DEF plan, before
    <3> QED BY <1>1, <1>4, <2>2, <2>3 DEF WritingOK, Writing, plan
  <2>5. WritingCalm(Writing(t, before), value)
    <3>1. \A i \in DOMAIN plan : i \in Nat /\ i >= 1
      BY <1>1, PlanElements DEF PlanOK
    <3> QED BY <1>3, <3>1 DEF WritingCalm, Writing, Untouched
  <2> QED BY <1>2, <2>1, <2>4, <2>5 DEF Kept, TxnOK, Calm, Writing
<1>6. CASE Becomes(c, Done(t, "refused", before))
  <2>1. txn'[c] = Done(t, "refused", before)
    BY <1>6, BecomesNext
  <2>2. DoneOK(Done(t, "refused", before))
    <3> HIDE DEF before
    <3> QED BY <1>1 DEF DoneOK, Done
  <2>3. DoneCalm(Done(t, "refused", before), value)
    BY DEF DoneCalm, Done, Untouched
  <2> QED BY <1>2, <2>1, <2>2, <2>3 DEF Kept, TxnOK, Calm, Done
<1> QED BY <1>5, <1>6 DEF Snapshot

LEMMA SkipUnchangedKept ==
  ASSUME IInv, NEW c \in Callers, SkipUnchanged(c)
  PROVE  Kept(c)
<1> DEFINE t == txn[c]
           next == [t EXCEPT !.at = @ + 1]
<1>1. WritingOK(t) /\ t.at \in DOMAIN t.plan /\ t.before[t.plan[t.at].path] = t.plan[t.at].value
  <2>1. TxnOK(t)
    BY DEF IInv
  <2> QED
    BY <2>1 DEF SkipUnchanged, AtWrite, Operation, TxnOK, Idle, PlannedOK, WritingOK,
       VerifyingOK, RestoringOK, DoneOK
<1>2. value' = value /\ disturbed' = disturbed /\ txn'[c] = next
  BY BecomesNext DEF SkipUnchanged
<1>3. next = [phase |-> "writing", req |-> t.req, plan |-> t.plan, before |-> t.before,
              at |-> t.at + 1, attempted |-> t.attempted]
  BY <1>1 DEF WritingOK
<1> HIDE DEF next
<1>4. DOMAIN t.plan \subseteq Nat /\ t.at \in Nat
  BY <1>1, PlanElements DEF WritingOK, PlanOK
<1>5. WritingOK(next)
  BY <1>1, <1>3, <1>4 DEF WritingOK
<1>6. ASSUME WritingCalm(t, value) PROVE WritingCalm(next, value)
  <2>1. \A i \in DOMAIN t.plan : i < t.at + 1 <=> i < t.at \/ i = t.at
    BY <1>4
  <2> QED BY <1>1, <1>3, <1>6, <2>1 DEF WritingCalm, Untouched
<1>7. ~disturbed[c] => WritingCalm(t, value)
  BY <1>1 DEF IInv, Calm, WritingOK
<1> QED BY <1>2, <1>3, <1>5, <1>6, <1>7 DEF Kept, TxnOK, Calm

LEMMA NextWrite ==
  ASSUME NEW t, WritingOK(t), NEW at, NEW attempted
  PROVE  [t EXCEPT !.at = at, !.attempted = attempted] =
           [phase |-> "writing", req |-> t.req, plan |-> t.plan, before |-> t.before,
            at |-> at, attempted |-> attempted]
<1> DEFINE next == [t EXCEPT !.at = at, !.attempted = attempted]
           fields == {"phase", "req", "plan", "before", "at", "attempted"}
<1>1. t.phase = "writing" /\ DOMAIN t = fields
  BY DEF WritingOK
<1>2. /\ DOMAIN next = fields
      /\ next.phase = "writing" /\ next.req = t.req /\ next.plan = t.plan
      /\ next.before = t.before /\ next.at = at /\ next.attempted = attempted
  BY <1>1
<1>3. next = [f \in DOMAIN next |-> next[f]]
  OBVIOUS
<1> HIDE DEF next
<1>4. next = [phase |-> "writing", req |-> t.req, plan |-> t.plan, before |-> t.before,
              at |-> at, attempted |-> attempted]
  BY <1>2, <1>3
<1> QED BY <1>4 DEF next

LEMMA WriteNextKept ==
  ASSUME IInv, NEW c \in Callers, WriteNext(c)
  PROVE  Kept(c)
<1> DEFINE t == txn[c]
           e == t.plan[t.at].path
           x == t.plan[t.at].value
           next == [t EXCEPT !.at = @ + 1, !.attempted = Append(@, e)]
<1>1. WritingOK(t) /\ t.at \in DOMAIN t.plan
  <2>1. TxnOK(t)
    BY DEF IInv
  <2> QED
    BY <2>1 DEF WriteNext, AtWrite, TxnOK, Idle, PlannedOK, WritingOK, VerifyingOK,
       RestoringOK, DoneOK
<1>2. value' = [value EXCEPT ![e] = x] /\ disturbed'[c] = disturbed[c] /\ txn'[c] = next
  BY BecomesNext, OwnWriteDisturbsOthers DEF WriteNext, Operation
<1>3. next = [phase |-> "writing", req |-> t.req, plan |-> t.plan, before |-> t.before,
              at |-> t.at + 1, attempted |-> Append(t.attempted, e)]
  BY <1>1, NextWrite
<1> HIDE DEF next
<1>4. /\ DOMAIN t.plan \subseteq Nat /\ t.at \in Nat /\ e \in Touched(t.plan)
      /\ Touched(t.plan) \subseteq Endpoints
      /\ \A i \in DOMAIN t.plan : t.plan[i].path \in Touched(t.plan)
      /\ \A i \in DOMAIN t.plan : t.plan[i].path = e => i = t.at
  <2>1. PlanOK(t.plan) /\ t.at \in Nat
    BY <1>1 DEF WritingOK
  <2>2. \A i, j \in DOMAIN t.plan : t.plan[i].path = t.plan[j].path => i = j
    BY <2>1 DEF PlanOK
  <2>3. DOMAIN t.plan \subseteq Nat
    BY <2>1, PlanElements DEF PlanOK
  <2> QED BY <1>1, <2>1, <2>2, <2>3, TouchedExist
<1>5. WritingOK(next)
  BY <1>1, <1>3, <1>4, AppendInOrder DEF WritingOK
<1>6. ASSUME WritingCalm(t, value) PROVE WritingCalm(next, value')
  <2>1. value'[e] = x /\ \A f \in Touched(t.plan) \ {e} : value'[f] = value[f]
    BY <1>2, <1>4 DEF IInv, ValuesOK
  <2>2. \A i \in DOMAIN t.plan : i < t.at + 1 <=> i < t.at \/ i = t.at
    BY <1>4
  <2>3. \A i \in DOMAIN t.plan :
         value'[t.plan[i].path] =
           IF i < t.at + 1 THEN t.plan[i].value ELSE t.before[t.plan[i].path]
    BY <1>4, <1>6, <2>1, <2>2 DEF WritingCalm
  <2>4. Untouched(next, next.attempted, value')
    <3>1. ToSet(next.attempted) = ToSet(t.attempted) \union {e}
      BY <1>1, <1>3, AppendInOrder
    <3>2. next.plan = t.plan /\ next.before = t.before
      BY <1>3
    <3>3. Untouched(t, t.attempted, value)
      BY <1>6 DEF WritingCalm
    <3> QED BY <2>1, <3>1, <3>2, <3>3 DEF Untouched
  <2> QED BY <1>3, <2>3, <2>4 DEF WritingCalm
<1>7. ~disturbed[c] => WritingCalm(t, value)
  BY <1>1 DEF IInv, Calm, WritingOK
<1> QED BY <1>2, <1>3, <1>5, <1>6, <1>7 DEF Kept, TxnOK, Calm

(* A rollback starts with the files that were written, the last of which   *)
(* may hold anything.                                                      *)
LEMMA RollbackOK ==
  ASSUME NEW t, NEW files, PlanOK(t.plan), BeforeOK(t.plan, t.before),
         Expected(t.plan, t.before), InOrder(t.plan, files)
  PROVE  TxnOK(Restoring(t, files))
BY DEF TxnOK, RestoringOK, Restoring

LEMMA RollbackCalm ==
  ASSUME NEW t, NEW files, NEW v,
         \A e \in Touched(t.plan) \ ToSet(files) : v[e] = t.before[e],
         \A i \in 1..(Len(files) - 1), k \in DOMAIN t.plan :
           t.plan[k].path = files[i] => v[files[i]] = t.plan[k].value
  PROVE  Calm(Restoring(t, files), v)
BY DEF Calm, Restoring, RestoringCalm, Untouched

LEMMA WriteFailsKept ==
  ASSUME IInv, NEW c \in Callers, WriteFails(c)
  PROVE  Kept(c)
<1> DEFINE t == txn[c]
           e == t.plan[t.at].path
           files == Append(t.attempted, e)
<1>1. WritingOK(t) /\ t.at \in DOMAIN t.plan
  <2>1. TxnOK(t)
    BY DEF IInv
  <2> QED
    BY <2>1 DEF WriteFails, AtWrite, TxnOK, Idle, PlannedOK, WritingOK, VerifyingOK,
       RestoringOK, DoneOK
<1>2. value' \in Corrupted(e) /\ disturbed'[c] = disturbed[c] /\ txn'[c] = Restoring(t, files)
  BY BecomesNext, OwnWriteDisturbsOthers DEF WriteFails, Operation
<1>3. PlanOK(t.plan) /\ BeforeOK(t.plan, t.before) /\ Expected(t.plan, t.before)
  BY <1>1 DEF WritingOK
<1>4. Touched(t.plan) \subseteq Endpoints
      /\ \A i \in DOMAIN t.plan : t.plan[i].path \in Touched(t.plan)
  BY <1>3, TouchedExist
<1>5. \A f \in Touched(t.plan) \ {e} : value'[f] = value[f]
  BY <1>2, <1>4 DEF Corrupted, IInv, ValuesOK
<1>6. /\ InOrder(t.plan, files) /\ ToSet(files) = ToSet(t.attempted) \union {e}
      /\ Len(files) - 1 = Len(t.attempted)
      /\ \A i \in 1..Len(t.attempted) : files[i] = t.attempted[i]
  BY <1>1, AppendInOrder
<1>7. \A i \in 1..Len(t.attempted), k \in DOMAIN t.plan :
        t.plan[k].path = t.attempted[i] => k < t.at
  <2>1. DOMAIN t.attempted = 1..Len(t.attempted)
    BY <1>1, LenProperties DEF WritingOK, InOrder
  <2> QED BY <1>1, <2>1 DEF WritingOK
<1>8. \A k \in DOMAIN t.plan : k < t.at => t.plan[k].path # e
  <2>1. t.at \in Nat
    BY <1>1 DEF WritingOK
  <2> QED BY <1>1, <1>3, <2>1 DEF PlanOK
<1> HIDE DEF files, e
<1>9. ASSUME WritingCalm(t, value)
      PROVE  /\ \A f \in Touched(t.plan) \ ToSet(files) : value'[f] = t.before[f]
             /\ \A i \in 1..(Len(files) - 1), k \in DOMAIN t.plan :
                  t.plan[k].path = files[i] => value'[files[i]] = t.plan[k].value
  <2>1. \A f \in Touched(t.plan) \ ToSet(files) : value'[f] = t.before[f]
    BY <1>5, <1>6, <1>9 DEF WritingCalm, Untouched
  <2>2. ASSUME NEW i \in 1..(Len(files) - 1), NEW k \in DOMAIN t.plan,
               t.plan[k].path = files[i]
        PROVE  value'[files[i]] = t.plan[k].value
    <3>1. i \in 1..Len(t.attempted) /\ files[i] = t.attempted[i]
      BY <1>6
    <3>2. k < t.at /\ files[i] # e /\ files[i] \in Touched(t.plan)
      BY <1>4, <1>7, <1>8, <2>2, <3>1
    <3>3. value[t.plan[k].path] = t.plan[k].value
      BY <1>9, <3>2 DEF WritingCalm
    <3> QED BY <1>5, <2>2, <3>2, <3>3
  <2> QED BY <2>1, <2>2
<1>10. ~disturbed[c] => WritingCalm(t, value)
  BY <1>1 DEF IInv, Calm, WritingOK
<1>11. TxnOK(Restoring(t, files))
  BY <1>3, <1>6, RollbackOK
<1>12. ~disturbed[c] => Calm(Restoring(t, files), value')
  BY <1>9, <1>10, RollbackCalm
<1> QED BY <1>2, <1>11, <1>12 DEF Kept

LEMMA AllWrittenKept ==
  ASSUME IInv, NEW c \in Callers, AllWritten(c)
  PROVE  Kept(c)
<1> DEFINE t == txn[c]
           next == Verifying(t, Touched(t.plan))
<1>1. WritingOK(t) /\ t.at \notin DOMAIN t.plan
  <2>1. TxnOK(t)
    BY DEF IInv
  <2> QED
    BY <2>1 DEF AllWritten, TxnOK, Idle, PlannedOK, WritingOK, VerifyingOK, RestoringOK,
       DoneOK
<1>2. value' = value /\ disturbed' = disturbed /\ txn'[c] = next
  BY BecomesNext DEF AllWritten
<1>3. VerifyingOK(next)
  BY <1>1 DEF WritingOK, VerifyingOK, Verifying
<1>4. \A i \in DOMAIN t.plan : i < t.at
  <2>1. PlanOK(t.plan) /\ t.at \in Nat \ {0}
    BY <1>1 DEF WritingOK
  <2>2. Len(t.plan) \in Nat /\ DOMAIN t.plan = 1..Len(t.plan)
    BY <2>1, PlanElements DEF PlanOK
  <2> QED BY <1>1, <2>1, <2>2
<1>5. WritingCalm(t, value) => VerifyingCalm(next, value)
  BY <1>4 DEF WritingCalm, VerifyingCalm, Verifying, Written, Untouched
<1>6. ~disturbed[c] => WritingCalm(t, value)
  BY <1>1 DEF IInv, Calm, WritingOK
<1> QED BY <1>2, <1>3, <1>5, <1>6 DEF Kept, TxnOK, Calm, Verifying

LEMMA VerifyKept ==
  ASSUME IInv, NEW c \in Callers, NEW e, Verify(c, e)
  PROVE  Kept(c)
<1> DEFINE t == txn[c]
<1>1. VerifyingOK(t)
  <2>1. TxnOK(t)
    BY DEF IInv
  <2> QED
    BY <2>1 DEF Verify, TxnOK, Idle, PlannedOK, WritingOK, VerifyingOK, RestoringOK, DoneOK
<1>2. value' = value /\ disturbed' = disturbed
  BY DEF Verify
<1>3. ~disturbed[c] => VerifyingCalm(t, value)
  BY <1>1 DEF IInv, Calm, VerifyingOK
<1>4. CASE Becomes(c, [t EXCEPT !.unread = @ \ {e}])
  <2> DEFINE next == [t EXCEPT !.unread = @ \ {e}]
  <2>1. txn'[c] = next
    BY <1>4, BecomesNext
  <2>2. next = [phase |-> "verifying", req |-> t.req, plan |-> t.plan, before |-> t.before,
                attempted |-> t.attempted, unread |-> t.unread \ {e}]
    BY <1>1 DEF VerifyingOK
  <2> HIDE DEF next
  <2>3. VerifyingOK(next)
    BY <1>1, <2>2 DEF VerifyingOK
  <2>4. VerifyingCalm(t, value) => VerifyingCalm(next, value)
    BY <2>2 DEF VerifyingCalm, Written, Untouched
  <2> QED BY <1>2, <1>3, <2>1, <2>2, <2>3, <2>4 DEF Kept, TxnOK, Calm
<1>5. CASE Becomes(c, Restoring(t, t.attempted))
  <2>1. txn'[c] = Restoring(t, t.attempted)
    BY <1>5, BecomesNext
  <2>2. /\ PlanOK(t.plan) /\ BeforeOK(t.plan, t.before) /\ Expected(t.plan, t.before)
        /\ InOrder(t.plan, t.attempted)
    BY <1>1 DEF VerifyingOK
  <2>3. VerifyingCalm(t, value) =>
          /\ \A f \in Touched(t.plan) \ ToSet(t.attempted) : value[f] = t.before[f]
          /\ \A i \in 1..(Len(t.attempted) - 1), k \in DOMAIN t.plan :
               t.plan[k].path = t.attempted[i] => value[t.attempted[i]] = t.plan[k].value
    BY DEF VerifyingCalm, Untouched, Written
  <2>4. TxnOK(Restoring(t, t.attempted))
    BY <2>2, RollbackOK
  <2>5. ~disturbed[c] => Calm(Restoring(t, t.attempted), value)
    BY <1>3, <2>3, RollbackCalm
  <2> QED BY <1>2, <2>1, <2>4, <2>5 DEF Kept
<1> QED BY <1>4, <1>5 DEF Verify

LEMMA InRestoring ==
  ASSUME IInv, NEW c \in Callers, txn[c].phase = "restoring"
  PROVE  RestoringOK(txn[c])
<1>1. TxnOK(txn[c])
  BY DEF IInv
<1> QED BY <1>1 DEF TxnOK, Idle, PlannedOK, WritingOK, VerifyingOK, RestoringOK, DoneOK

LEMMA NextRestore ==
  ASSUME NEW t, RestoringOK(t), NEW left, NEW broken
  PROVE  [t EXCEPT !.left = left, !.broken = broken] =
           [phase |-> "restoring", plan |-> t.plan, before |-> t.before,
            left |-> left, broken |-> broken]
<1> DEFINE next == [t EXCEPT !.left = left, !.broken = broken]
           fields == {"phase", "plan", "before", "left", "broken"}
<1>1. t.phase = "restoring" /\ DOMAIN t = fields
  BY DEF RestoringOK
<1>2. /\ DOMAIN next = fields
      /\ next.phase = "restoring" /\ next.plan = t.plan /\ next.before = t.before
      /\ next.left = left /\ next.broken = broken
  BY <1>1
<1>3. next = [f \in DOMAIN next |-> next[f]]
  OBVIOUS
<1> HIDE DEF next
<1>4. next = [phase |-> "restoring", plan |-> t.plan, before |-> t.before,
              left |-> left, broken |-> broken]
  BY <1>2, <1>3
<1> QED BY <1>4 DEF next

(* One file is restored, or not: only what is left counts then.            *)
LEMMA RestoreKept ==
  ASSUME IInv, NEW c \in Callers, NEW works \in BOOLEAN, Restore(c, works)
  PROVE  Kept(c)
<1> DEFINE t == txn[c]
           e == Last(t.left)
           left == Front(t.left)
           broken == t.broken \/ ~works
           next == [t EXCEPT !.left = left, !.broken = broken]
<1>1. RestoringOK(t) /\ t.left # <<>>
  BY InRestoring DEF Restore
<1>2. PlanOK(t.plan) /\ InOrder(t.plan, t.left) /\ t.broken \in BOOLEAN
  BY <1>1 DEF RestoringOK
<1>3. /\ Len(t.left) \in Nat \ {0} /\ e \in Touched(t.plan)
      /\ InOrder(t.plan, left) /\ Len(left) = Len(t.left) - 1
      /\ \A i \in 1..(Len(t.left) - 1) : left[i] = t.left[i] /\ t.left[i] # e
      /\ ToSet(t.left) = ToSet(left) \union {e}
  BY <1>1, <1>2, FrontInOrder
<1>4. /\ txn'[c] = next /\ disturbed'[c] = disturbed[c]
      /\ value' \in IF works THEN {[value EXCEPT ![e] = t.before[e]]} ELSE Corrupted(e)
  BY BecomesNext, OwnWriteDisturbsOthers DEF Restore
<1>5. Touched(t.plan) \subseteq Endpoints /\ value \in [Endpoints -> Contents]
  BY <1>2, TouchedExist DEF IInv, ValuesOK
<1>6. next = [phase |-> "restoring", plan |-> t.plan, before |-> t.before,
              left |-> left, broken |-> broken]
  BY <1>1, NextRestore
<1>7. \A f \in Touched(t.plan) \ {e} : value'[f] = value[f]
  BY <1>3, <1>4, <1>5 DEF Corrupted
<1>8. works => value'[e] = t.before[e]
  BY <1>3, <1>4, <1>5
<1> HIDE DEF next, left, e
<1>9. RestoringOK(next)
  <2>1. broken \in BOOLEAN
    BY <1>2
  <2> HIDE DEF broken
  <2> QED BY <1>1, <1>3, <1>6, <2>1 DEF RestoringOK
<1>10. ASSUME RestoringCalm(t, value) PROVE RestoringCalm(next, value')
  <2>1. next.broken = broken /\ next.left = left /\ next.plan = t.plan /\ next.before = t.before
    BY <1>6
  <2>2. SUFFICES ASSUME ~t.broken, works
                 PROVE  /\ Untouched(next, left, value')
                        /\ \A i \in 1..(Len(left) - 1), k \in DOMAIN t.plan :
                             t.plan[k].path = left[i] => value'[left[i]] = t.plan[k].value
    BY <2>1 DEF RestoringCalm
  <2>3. /\ Untouched(t, t.left, value)
        /\ \A i \in 1..(Len(t.left) - 1), k \in DOMAIN t.plan :
             t.plan[k].path = t.left[i] => value[t.left[i]] = t.plan[k].value
    BY <1>10, <2>2 DEF RestoringCalm
  <2>4. Untouched(next, left, value')
    BY <1>3, <1>7, <1>8, <2>1, <2>2, <2>3 DEF Untouched
  <2>5. ASSUME NEW i \in 1..(Len(left) - 1), NEW k \in DOMAIN t.plan, t.plan[k].path = left[i]
        PROVE  value'[left[i]] = t.plan[k].value
    <3>1. i \in 1..(Len(t.left) - 1)
      BY <1>3
    <3>2. left[i] = t.left[i] /\ t.left[i] # e
      BY <1>3, <3>1
    <3>3. t.left[i] \in Touched(t.plan)
      BY <2>5, <3>2 DEF Touched
    <3> QED BY <1>7, <2>3, <2>5, <3>1, <3>2, <3>3
  <2> QED BY <2>4, <2>5
<1>11. ~disturbed[c] => RestoringCalm(t, value)
  BY <1>1 DEF IInv, Calm, RestoringOK
<1>12. next.phase = "restoring"
  BY <1>6
<1> QED BY <1>4, <1>9, <1>10, <1>11, <1>12 DEF Kept, TxnOK, Calm

LEMMA EndingKept ==
  ASSUME IInv, NEW c \in Callers, Restored(c) \/ Confirm(c) \/ Return(c)
  PROVE  Kept(c)
<1> DEFINE t == txn[c]
<1>1. value' = value /\ disturbed' = disturbed
  BY DEF Restored, Confirm, Return
<1>2. TxnOK(t)
  BY DEF IInv
<1>3. CASE Restored(c)
  <2> DEFINE next == Done(t, IF t.broken THEN "broken" ELSE "failed", t.before)
  <2>1. txn'[c] = next
    BY <1>3, BecomesNext DEF Restored
  <2>2. RestoringOK(t) /\ t.left = <<>>
    BY <1>3, InRestoring DEF Restored
  <2>3. ~disturbed[c] => RestoringCalm(t, value)
    BY <2>2 DEF IInv, Calm, RestoringOK
  <2>4. DoneOK(next)
    BY <2>2 DEF RestoringOK, DoneOK, Done
  <2>5. RestoringCalm(t, value) => DoneCalm(next, value)
    BY <2>2 DEF RestoringCalm, DoneCalm, Done, Untouched
  <2> QED BY <1>1, <2>1, <2>3, <2>4, <2>5 DEF Kept, TxnOK, Calm, Done
<1>4. CASE Confirm(c)
  <2>1. VerifyingOK(t)
    BY <1>2, <1>4 DEF Confirm, TxnOK, Idle, PlannedOK, WritingOK, VerifyingOK, RestoringOK,
       DoneOK
  <2>2. ~disturbed[c] => VerifyingCalm(t, value)
    BY <2>1 DEF IInv, Calm, VerifyingOK
  <2>3. PICK result \in {"ok", "unconfirmed"} : txn'[c] = Done(t, result, t.before)
    BY <1>4, BecomesNext DEF Confirm
  <2>4. DoneOK(Done(t, result, t.before))
    BY <2>1 DEF VerifyingOK, DoneOK, Done
  <2>5. VerifyingCalm(t, value) => DoneCalm(Done(t, result, t.before), value)
    BY DEF VerifyingCalm, DoneCalm, Done, Written
  <2> QED BY <1>1, <2>2, <2>3, <2>4, <2>5 DEF Kept, TxnOK, Calm, Done
<1>5. CASE Return(c)
  <2>1. txn'[c] = Idle
    BY <1>5, BecomesNext DEF Return
  <2> QED BY <2>1 DEF Kept, TxnOK, Calm, Idle
<1> QED BY <1>3, <1>4, <1>5

(* What a step does to the files, and to the other callers.                *)
Effect(c) ==
  /\ ValuesOK(value')
  /\ disturbed' \in [Callers -> BOOLEAN]
  /\ \A d \in Callers \ {c} :
       \/ value' = value /\ disturbed'[d] = disturbed[d]
       \/ \E e \in Endpoints :
            Disturbs(c, e) /\ \A f \in Endpoints \ {e} : value'[f] = value[f]

LEMMA WriteEffect ==
  ASSUME IInv, NEW c \in Callers, NEW e \in Endpoints, NEW x \in Values(e), Disturbs(c, e),
         value' = [value EXCEPT ![e] = x], Accepts(e, x)
  PROVE  Effect(c)
<1>1. ValuesOK(value) /\ value \in [Endpoints -> Contents]
  BY DEF IInv, ValuesOK
<1>2. ValuesOK(value')
  BY <1>1, WriteKeepsValues DEF Accepts
<1>3. \A f \in Endpoints \ {e} : value'[f] = value[f]
  BY <1>1
<1> QED BY <1>2, <1>3, OwnWriteDisturbsOthers DEF Effect

LEMMA StepEffect ==
  ASSUME IInv, NEW c \in Callers, Step(c)
  PROVE  Effect(c)
<1> DEFINE t == txn[c]
<1>1. ValuesOK(value) /\ TxnOK(t) /\ disturbed \in [Callers -> BOOLEAN]
  BY DEF IInv
<1>2. ASSUME value' = value,
             disturbed' = disturbed \/ disturbed' = [disturbed EXCEPT ![c] = FALSE]
      PROVE  Effect(c)
  BY <1>1, <1>2 DEF Effect
<1>3. ASSUME NEW e \in Endpoints, Disturbs(c, e), value' \in Corrupted(e)
      PROVE  Effect(c)
  BY <1>3, WriteEffect DEF Corrupted
<1>4. ASSUME AtWrite(c)
      PROVE  /\ t.plan[t.at].path \in Endpoints
             /\ t.plan[t.at].value \in Values(t.plan[t.at].path)
  <2>1. PlanOK(t.plan) /\ t.at \in DOMAIN t.plan
    BY <1>1, <1>4 DEF AtWrite, TxnOK, Idle, PlannedOK, WritingOK, VerifyingOK, RestoringOK,
       DoneOK
  <2>2. t.plan[t.at].path \in Endpoints
    BY <2>1, TouchedExist
  <2> QED BY <2>1, <2>2 DEF PlanOK
<1>5. CASE WriteNext(c)
  BY <1>4, <1>5, WriteEffect DEF WriteNext, Operation
<1>6. CASE WriteFails(c)
  BY <1>3, <1>4, <1>6 DEF WriteFails, Operation
<1>7. ASSUME NEW works \in BOOLEAN, Restore(c, works)
      PROVE  Effect(c)
  <2> DEFINE e == Last(t.left)
  <2>1. RestoringOK(t) /\ t.left # <<>>
    BY <1>7, InRestoring DEF Restore
  <2>2. PlanOK(t.plan) /\ BeforeOK(t.plan, t.before) /\ InOrder(t.plan, t.left)
    BY <2>1 DEF RestoringOK
  <2>3. e \in Touched(t.plan)
    BY <2>1, <2>2, FrontInOrder
  <2>4. e \in Endpoints /\ t.before[e] \in Values(e)
    BY <2>2, <2>3, TouchedExist DEF BeforeOK
  <2>5. /\ Disturbs(c, e) /\ (works => Accepts(e, t.before[e]))
        /\ value' \in IF works THEN {[value EXCEPT ![e] = t.before[e]]} ELSE Corrupted(e)
    BY <1>7 DEF Restore
  <2> HIDE DEF e
  <2>6. CASE works
    BY <2>4, <2>5, <2>6, WriteEffect
  <2>7. CASE ~works
    BY <1>3, <2>4, <2>5, <2>7
  <2> QED BY <2>6, <2>7
<1>8. CASE \/ \E req \in Requests : Begin(c, req)
           \/ Snapshot(c) \/ SkipUnchanged(c) \/ AllWritten(c)
           \/ \E e \in Endpoints : Verify(c, e)
           \/ Restored(c) \/ Confirm(c) \/ Return(c)
  BY <1>2, <1>8 DEF Begin, Snapshot, SkipUnchanged, AllWritten, Verify, Restored, Confirm,
     Return
<1> QED BY <1>5, <1>6, <1>7, <1>8 DEF Step

LEMMA StepChangesOne ==
  ASSUME IInv, NEW c \in Callers, Step(c)
  PROVE  DOMAIN txn' = Callers /\ \A d \in Callers \ {c} : txn'[d] = txn[d]
<1>1. \E next : Becomes(c, next)
  BY DEF Step, Begin, Snapshot, SkipUnchanged, WriteNext, WriteFails, AllWritten, Verify,
     Restore, Restored, Confirm, Return
<1> QED BY <1>1, BecomesNext

LEMMA InitIInv == Init => IInv
<1> SUFFICES ASSUME Init PROVE IInv
  OBVIOUS
<1>1. ValuesOK(value)
  BY DEF Init, ValuesOK, Contents
<1> QED BY <1>1 DEF Init, IInv, TxnOK, Idle, Calm

LEMMA NextKeepsIInv == IInv /\ [Next]_vars => IInv'
<1> SUFFICES ASSUME IInv, [Next]_vars PROVE IInv'
  OBVIOUS
<1>1. ASSUME NEW c \in Callers, Step(c) PROVE IInv'
  <2>1. Kept(c)
    BY <1>1, BeginKept, SnapshotKept, SkipUnchangedKept, WriteNextKept, WriteFailsKept,
       AllWrittenKept, VerifyKept, RestoreKept, EndingKept DEF Step
  <2>2. Effect(c)
    BY <1>1, StepEffect
  <2>3. DOMAIN txn' = Callers /\ \A d \in Callers \ {c} : txn'[d] = txn[d]
    BY <1>1, StepChangesOne
  <2>4. ASSUME NEW d \in Callers, c # d PROVE Kept(d)
    BY <2>2, <2>3, <2>4, OthersKept DEF Kept, Effect
  <2>5. \A d \in Callers : Kept(d)
    BY <2>1, <2>4
  <2> QED BY <2>2, <2>3, <2>5 DEF IInv, Kept, Effect
<1>2. CASE UNCHANGED vars
  BY <1>2 DEF vars, IInv
<1> QED BY <1>1, <1>2 DEF Next

LEMMA Invariance == Spec => []IInv
BY InitIInv, NextKeepsIInv, PTL DEF Spec

(* Unless another caller writes the same files meanwhile, a request that   *)
(* succeeds has taken effect on every policy, and one that failed or was   *)
(* refused on none: whichever write failed and whatever it left behind.    *)
THEOREM TransactionIsAllOrNothing == Spec => []AllOrNothing
<1>1. IInv => AllOrNothing
  <2> SUFFICES ASSUME IInv, NEW c \in Callers, ~disturbed[c], txn[c].phase = "done"
               PROVE  /\ txn[c].result = "ok" =>
                           \A e \in Touched(txn[c].plan) : Holds(txn[c].plan, e)
                      /\ txn[c].result \in {"failed", "refused"} =>
                           \A e \in Touched(txn[c].plan) : value[e] = txn[c].before[e]
    BY DEF AllOrNothing, Ended
  <2>1. DoneCalm(txn[c], value)
    BY DEF IInv, Calm
  <2>2. ToSet(<<>>) = {}
    BY DEF ToSet
  <2> QED BY <2>1, <2>2 DEF DoneCalm, Written, Untouched, Touched, Holds
<1> QED BY <1>1, Invariance, PTL

-----------------------------------------------------------------------------
(* The next write of an undisturbed transaction keeps its policy's range.  *)
LEMMA NextWriteIsOrdered ==
  ASSUME IInv, NEW c \in Callers, ~disturbed[c], AtWrite(c)
  PROVE  Accepts(Operation(c).path, Operation(c).value)
<1> DEFINE t == txn[c]
           plan == t.plan
           n == t.at
           e == plan[n].path
           x == plan[n].value
<1>1. WritingOK(t) /\ n \in DOMAIN plan
  <2>1. TxnOK(t)
    BY DEF IInv
  <2> QED
    BY <2>1 DEF AtWrite, TxnOK, Idle, PlannedOK, WritingOK, VerifyingOK, RestoringOK, DoneOK
<1>2. PlanOK(plan) /\ Expected(plan, t.before) /\ WritingCalm(t, value) /\ ValuesOK(value)
  BY <1>1 DEF WritingOK, IInv, Calm
<1>3. e \in Endpoints /\ x \in Values(e) /\ n \in Nat /\ DOMAIN plan \subseteq Nat
  <2>1. DOMAIN plan \subseteq Nat
    BY <1>2, PlanElements DEF PlanOK
  <2>2. e \in Endpoints
    BY <1>1, <1>2, TouchedExist
  <2> QED BY <1>1, <1>2, <2>1, <2>2 DEF PlanOK
\* The other limit has been written, or is as the plan expects it.
<1>4. ASSUME NEW j \in DOMAIN plan, plan[j].path # e
      PROVE  \/ j < n /\ value[plan[j].path] = plan[j].value
             \/ n < j /\ value[plan[j].path] = plan[j].expected
  <2>1. j # n /\ j \in Nat
    BY <1>3, <1>4
  <2> QED BY <1>2, <1>3, <2>1 DEF WritingCalm, Expected
<1>5. ASSUME e[2] = "min" PROVE x <= value[<<e[1], "max">>]
  <2>1. PICK j \in DOMAIN plan : Pair(plan, n, j)
    BY <1>1, <1>2, <1>5 DEF PlanOK
  <2>2. plan[j].path = <<e[1], "max">> /\ plan[j].path # e
    BY <1>5, <2>1 DEF Pair
  <2> QED BY <1>1, <1>2, <1>4, <2>1, <2>2 DEF PlanOK
<1>6. ASSUME e[2] = "max" PROVE value[<<e[1], "min">>] <= x
  <2>1. PICK j \in DOMAIN plan : Pair(plan, j, n)
    BY <1>1, <1>2, <1>6 DEF PlanOK
  <2>2. plan[j].path \in Endpoints
    BY <1>2, TouchedExist
  <2>3. plan[j].path[2] = "min" /\ e[1] = plan[j].path[1]
    BY <2>1 DEF Pair
  <2>4. plan[j].path = <<e[1], "min">> /\ plan[j].path # e
    BY <1>6, <2>2, <2>3, FilesOfEndpoints
  <2> QED BY <1>1, <1>2, <1>4, <2>1, <2>4 DEF PlanOK
<1> QED BY <1>2, <1>3, <1>5, <1>6, OrderedWrite DEF Accepts, Operation

(* So does the next write of its rollback: it undoes them in reverse.      *)
LEMMA NextRestoreIsOrdered ==
  ASSUME IInv, NEW c \in Callers, ~disturbed[c], txn[c].phase = "restoring",
         ~txn[c].broken, txn[c].left # <<>>
  PROVE  Accepts(Last(txn[c].left), txn[c].before[Last(txn[c].left)])
<1> DEFINE t == txn[c]
           plan == t.plan
           files == t.left
           m == Len(files)
           e == Last(files)
           x == t.before[e]
<1>1. RestoringOK(t)
  BY InRestoring
<1>2. /\ PlanOK(plan) /\ BeforeOK(plan, t.before) /\ Expected(plan, t.before)
      /\ InOrder(plan, files) /\ ValuesOK(value)
  BY <1>1 DEF RestoringOK, IInv
<1>3. Untouched(t, files, value)
      /\ \A i \in 1..(m - 1), k \in DOMAIN plan :
           plan[k].path = files[i] => value[files[i]] = plan[k].value
  BY <1>1 DEF IInv, Calm, RestoringCalm, RestoringOK
<1>4. /\ m \in Nat \ {0} /\ e \in Touched(plan) /\ e = files[m]
      /\ DOMAIN files = 1..m
  BY <1>2, FrontInOrder, LenProperties DEF InOrder
<1>5. e \in Endpoints /\ x \in Values(e) /\ DOMAIN plan \subseteq Nat
  BY <1>2, <1>4, TouchedExist, PlanElements DEF BeforeOK, PlanOK
<1>6. PICK n \in DOMAIN plan : plan[n].path = e
  BY <1>4 DEF Touched
<1>7. x = plan[n].expected
  BY <1>2, <1>6 DEF Expected
<1> HIDE DEF e, x, m
\* The other limit has been restored, or was written before this one.
<1>8. ASSUME NEW j \in DOMAIN plan, plan[j].path # e
      PROVE  \/ value[plan[j].path] = plan[j].expected
             \/ j < n /\ value[plan[j].path] = plan[j].value
  <2>1. plan[j].path \in Touched(plan)
    BY DEF Touched
  <2>2. CASE plan[j].path \notin ToSet(files)
    BY <1>2, <1>3, <2>1, <2>2 DEF Untouched, Expected
  <2>3. ASSUME NEW i \in DOMAIN files, files[i] = plan[j].path
        PROVE  j < n /\ value[plan[j].path] = plan[j].value
    <3>1. i \in 1..(m - 1) /\ i < m /\ m \in DOMAIN files
      BY <1>4, <1>8, <2>3
    <3>2. j < n
      BY <1>2, <1>4, <1>6, <2>3, <3>1 DEF InOrder
    <3> QED BY <1>3, <2>3, <3>1, <3>2 DEF m
  <2> QED BY <2>2, <2>3 DEF ToSet
<1>9. ASSUME e[2] = "min" PROVE x <= value[<<e[1], "max">>]
  <2>1. PICK j \in DOMAIN plan : Pair(plan, n, j)
    BY <1>2, <1>6, <1>9 DEF PlanOK
  <2>2. plan[j].path = <<e[1], "max">> /\ plan[j].path # e
    BY <1>6, <1>9, <2>1 DEF Pair
  <2> QED BY <1>2, <1>6, <1>7, <1>8, <2>1, <2>2 DEF PlanOK
<1>10. ASSUME e[2] = "max" PROVE value[<<e[1], "min">>] <= x
  <2>1. PICK j \in DOMAIN plan : Pair(plan, j, n)
    BY <1>2, <1>6, <1>10 DEF PlanOK
  <2>2. plan[j].path \in Endpoints
    BY <1>2, TouchedExist
  <2>3. plan[j].path[2] = "min" /\ e[1] = plan[j].path[1]
    BY <1>6, <2>1 DEF Pair
  <2>4. plan[j].path = <<e[1], "min">> /\ plan[j].path # e
    BY <1>10, <2>2, <2>3, FilesOfEndpoints
  <2> QED BY <1>2, <1>6, <1>7, <1>8, <2>1, <2>4 DEF PlanOK
<1>11. Accepts(e, x)
  BY <1>2, <1>5, <1>9, <1>10, OrderedWrite DEF Accepts
<1> QED BY <1>11 DEF e, x

(* No write, and no write of a rollback, asks the kernel for a minimum     *)
(* above the maximum of its policy, as long as nothing else wrote the      *)
(* policy and no write of the rollback failed.                             *)
THEOREM RangesAreNeverInverted == Spec => []RangesStayOrdered
<1>1. IInv => RangesStayOrdered
  BY NextWriteIsOrdered, NextRestoreIsOrdered DEF RangesStayOrdered
<1> QED BY <1>1, Invariance, PTL

-----------------------------------------------------------------------------
(* Two sessions: one that is past its writes has only read since.          *)
LEMMA OnlyReadsPastWrites ==
  ASSUME IInv, NEW c \in Callers, Step(c), PastWrites(c)'
  PROVE  /\ value' = value
         /\ \/ Touched(txn'[c].plan) \subseteq Unread(c)'
            \/ /\ PastWrites(c) /\ txn'[c].plan = txn[c].plan
               /\ \A e \in Unread(c) \ Unread(c)' : Holds(txn[c].plan, e)
<1> DEFINE t == txn[c]
<1>1. txn'[c].phase = "verifying" \/ (txn'[c].phase = "done" /\ txn'[c].result = "ok")
  BY DEF PastWrites, Ended
<1>2. TxnOK(t)
  BY DEF IInv
<1>3. ASSUME NEW req \in Requests PROVE ~Begin(c, req)
  <2>1. Begin(c, req) => txn'[c] = Planned(req, Plan(req))
    BY BecomesNext DEF Begin
  <2> QED BY <1>1, <2>1 DEF Planned
<1>4. ~Snapshot(c)
  BY <1>1, BecomesNext DEF Snapshot, Writing, Done
<1>5. ~SkipUnchanged(c) /\ ~WriteNext(c)
  <2>1. AtWrite(c) => WritingOK(t)
    BY <1>2 DEF AtWrite, TxnOK, Idle, PlannedOK, WritingOK, VerifyingOK, RestoringOK, DoneOK
  <2>2. SkipUnchanged(c) => txn'[c].phase = "writing"
    BY <2>1, BecomesNext DEF SkipUnchanged, WritingOK
  <2>3. ASSUME WriteNext(c) PROVE txn'[c].phase = "writing"
    <3> DEFINE attempted == Append(t.attempted, t.plan[t.at].path)
    <3>1. WritingOK(t)
      BY <2>1, <2>3 DEF WriteNext
    <3>2. txn'[c] = [t EXCEPT !.at = @ + 1, !.attempted = attempted]
      BY <2>3, BecomesNext DEF WriteNext, Operation
    <3>3. [t EXCEPT !.at = t.at + 1, !.attempted = attempted] =
            [phase |-> "writing", req |-> t.req, plan |-> t.plan, before |-> t.before,
             at |-> t.at + 1, attempted |-> attempted]
      BY <3>1, NextWrite
    <3> QED BY <3>2, <3>3
  <2> QED BY <1>1, <2>2, <2>3
<1>6. ~WriteFails(c)
  BY <1>1, BecomesNext DEF WriteFails, Restoring
<1>7. ASSUME NEW works \in BOOLEAN PROVE ~Restore(c, works)
  <2> SUFFICES ASSUME Restore(c, works) PROVE FALSE
    OBVIOUS
  <2> DEFINE left == Front(t.left)
             broken == t.broken \/ ~works
  <2>1. RestoringOK(t)
    BY InRestoring DEF Restore
  <2>2. txn'[c] = [t EXCEPT !.left = left, !.broken = broken]
    BY BecomesNext DEF Restore
  <2>3. [t EXCEPT !.left = left, !.broken = broken] =
          [phase |-> "restoring", plan |-> t.plan, before |-> t.before,
           left |-> left, broken |-> broken]
    BY <2>1, NextRestore
  <2> QED BY <1>1, <2>2, <2>3
<1>8. ~Restored(c) /\ ~Return(c)
  BY <1>1, BecomesNext DEF Restored, Return, Done, Idle
<1>9. CASE AllWritten(c)
  BY <1>9, BecomesNext DEF AllWritten, Verifying, Unread
<1>10. ASSUME NEW e \in Endpoints, Verify(c, e)
       PROVE  /\ value' = value
              /\ PastWrites(c) /\ txn'[c].plan = t.plan
              /\ \A f \in Unread(c) \ Unread(c)' : Holds(t.plan, f)
  <2>1. VerifyingOK(t)
    BY <1>2, <1>10 DEF Verify, TxnOK, Idle, PlannedOK, WritingOK, VerifyingOK, RestoringOK,
       DoneOK
  <2>2. ~Becomes(c, Restoring(t, t.attempted))
    BY <1>1, BecomesNext DEF Restoring
  <2>3. Holds(t.plan, e) /\ txn'[c] = [t EXCEPT !.unread = @ \ {e}]
    BY <1>10, <2>2, BecomesNext DEF Verify, Holds
  <2>4. txn'[c].phase = "verifying" /\ txn'[c].plan = t.plan /\ txn'[c].unread = t.unread \ {e}
    BY <2>1, <2>3 DEF VerifyingOK
  <2> QED BY <1>10, <2>3, <2>4 DEF Verify, Unread, PastWrites
<1>11. CASE Confirm(c)
  BY <1>11, BecomesNext DEF Confirm, Done, Unread, PastWrites
<1> QED
  BY <1>3, <1>4, <1>5, <1>6, <1>7, <1>8, <1>9, <1>10, <1>11 DEF Step

LEMMA AgreeIsKept ==
  ASSUME IInv, NEW b \in Callers, Step(b), PastWrites(b)', NEW o \in Callers, o # b,
         PastWrites(o)', Agreement
  PROVE  Agree(b, o)'
<1>1. value' = value /\ txn'[o] = txn[o]
  BY OnlyReadsPastWrites, StepChangesOne
<1>2. PastWrites(o) /\ Unread(o)' = Unread(o)
  BY <1>1 DEF PastWrites, Unread, Ended
<1>3. CASE Touched(txn'[b].plan) \subseteq Unread(b)'
  <2>1. Shared(b, o)' \subseteq Unread(b)'
    BY <1>3 DEF Shared
  <2> QED BY <2>1 DEF Agree, ReadBack
<1>4. CASE /\ PastWrites(b) /\ txn'[b].plan = txn[b].plan
           /\ \A e \in Unread(b) \ Unread(b)' : Holds(txn[b].plan, e)
  <2>1. Shared(b, o)' = Shared(b, o)
    BY <1>1, <1>4 DEF Shared
  <2>2. ReadBack(b, Shared(b, o)) \/ ReadBack(o, Shared(b, o))
    BY <1>2, <1>4 DEF Agreement, Agree
  <2>3. \A e : /\ Holds(txn[b].plan, e) => Holds(txn[b].plan, e)'
               /\ Holds(txn[o].plan, e) => Holds(txn[o].plan, e)'
    BY <1>1, <1>4 DEF Holds
  <2>4. ReadBack(b, Shared(b, o)) => ReadBack(b, Shared(b, o))'
    BY <1>4, <2>1, <2>3 DEF ReadBack
  <2>5. ReadBack(o, Shared(b, o)) => ReadBack(o, Shared(b, o))'
    BY <1>2, <2>1, <2>3 DEF ReadBack
  <2> QED BY <2>2, <2>4, <2>5 DEF Agree
<1> QED BY <1>3, <1>4, OnlyReadsPastWrites

TwoCallers == \A b, c, d \in Callers : b = c \/ b = d \/ c = d

LEMMA AgreementIsKept ==
  ASSUME TwoCallers, Agreement, IInv, [Next]_vars
  PROVE  Agreement'
<1>1. CASE UNCHANGED vars
  BY <1>1 DEF vars, Agreement, PastWrites, Ended, Unread, Agree, Shared, ReadBack, Holds
<1>2. ASSUME NEW b \in Callers, Step(b),
             NEW c \in Callers, NEW d \in Callers, c # d, PastWrites(c)', PastWrites(d)'
      PROVE  Agree(c, d)'
  <2>1. CASE b = c
    BY <1>2, <2>1, AgreeIsKept
  <2>2. CASE b = d
    <3>1. Agree(d, c)'
      BY <1>2, <2>2, AgreeIsKept
    <3>2. Shared(c, d)' = Shared(d, c)'
      BY DEF Shared
    <3> QED BY <3>1, <3>2 DEF Agree
  <2> QED BY <1>2, <2>1, <2>2 DEF TwoCallers
<1>3. CASE Next
  <2>1. PICK b \in Callers : Step(b)
    BY <1>3 DEF Next
  <2> QED BY <1>2, <2>1 DEF Agreement
<1> QED BY <1>1, <1>3

(* Of two requests that both succeed, however they interleave, one finds   *)
(* every file they share as it asked.  With a third session the files may  *)
(* already be on their way to its values.                                  *)
THEOREM TwoSuccessesAgree == ASSUME TwoCallers PROVE Spec => []SuccessesAgree
<1>1. Init => Agreement
  BY DEF Init, Idle, Agreement, PastWrites, Ended
<1>2. Agreement /\ IInv /\ [Next]_vars => Agreement'
  BY AgreementIsKept
<1>3. Agreement => SuccessesAgree
  BY DEF Agreement, Agree, Shared, SuccessesAgree, PastWrites, Ended, ReadBack, Unread
<1> QED BY <1>1, <1>2, <1>3, Invariance, PTL DEF Spec
=============================================================================
