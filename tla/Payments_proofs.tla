-------------------------- MODULE Payments_proofs --------------------------
(***************************************************************************)
(* Proofs about Payments, for any orders, invocations and refunds: a       *)
(* notification is acknowledged only when its order is granted, money is   *)
(* real, the access of an owner is one chain and ends by a refund only.    *)
(*                                                                         *)
(* The chain is the hard part.  An entitlement that is computed but not    *)
(* yet committed must still be behind all the others when it is, although  *)
(* a refund may have moved them in between: moving them together makes     *)
(* none of them end later than the last of them ended before (Compaction). *)
(***************************************************************************)
EXTENDS Payments, TLAPS, FiniteSetTheorems, WellFoundedInduction

-----------------------------------------------------------------------------
(* Greatest elements of finite sets *)

\* Among subsets of a finite set there is a smallest one.
LEMMA Smallest ==
    ASSUME NEW S, IsFiniteSet(S), NEW F, F \subseteq SUBSET S, F # {}
    PROVE  \E A \in F : \A B \in F : B \subseteq A => B = A
<1>1. IsWellFoundedOn(StrictSubsetOrdering(S), SUBSET S)
  BY FS_StrictSubsetOrderingWellFounded, FS_FiniteSubsetsOfFinite
<1>2. PICK A \in F : \A B \in F : <<B, A>> \notin StrictSubsetOrdering(S)
  BY <1>1, WFMin
<1>3. ASSUME NEW B \in F, B \subseteq A, B # A PROVE FALSE
  <2>1. <<B, A>> \in (SUBSET S) \X (SUBSET S)
    OBVIOUS
  <2>2. <<B, A>> \in StrictSubsetOrdering(S)
    BY <2>1, <1>3 DEF StrictSubsetOrdering
  <2> QED BY <2>2, <1>2
<1> QED BY <1>3

\* A function on a finite set takes its greatest value somewhere.
LEMMA Greatest ==
    ASSUME NEW S, IsFiniteSet(S), S # {}, NEW f \in [S -> Int]
    PROVE  \E l \in S : \A p \in S : f[l] >= f[p]
<1> DEFINE Above(p) == {q \in S : f[q] > f[p]}
<1> DEFINE F == {A \in SUBSET S : \E p \in S : A = Above(p)}
<1>1. F \subseteq SUBSET S
  OBVIOUS
<1>2. F # {}
  <2>1. PICK p : p \in S
    OBVIOUS
  <2>2. Above(p) \in F
    BY <2>1
  <2> QED BY <2>2
<1>3. PICK l \in S : \A B \in F : B \subseteq Above(l) => B = Above(l)
  <2>1. PICK A \in F : \A B \in F : B \subseteq A => B = A
    <3> HIDE DEF F
    <3> QED BY <1>1, <1>2, Smallest
  <2>2. PICK l \in S : A = Above(l)
    OBVIOUS
  <2> HIDE DEF F
  <2> QED BY <2>1, <2>2
<1>4. ASSUME NEW p \in S, ~(f[l] >= f[p]) PROVE FALSE
  <2>1. p \in Above(l) /\ p \notin Above(p)
    BY <1>4
  <2>2. Above(p) \subseteq Above(l)
    BY <1>4
  <2>3. Above(p) \in F
    OBVIOUS
  <2>4. Above(p) = Above(l)
    <3> HIDE DEF F
    <3> QED BY <2>2, <2>3, <1>3
  <2> QED BY <2>1, <2>4
<1> QED BY <1>4

\* Max, where there is a greatest element.
LEMMA MaxIs ==
    ASSUME NEW T, NEW m \in T, \A y \in T : m >= y
    PROVE  Max(T) \in T /\ \A y \in T : Max(T) >= y
BY DEF Max

\* The greatest of a number and of finitely many others.
LEMMA Latest ==
    ASSUME NEW S, IsFiniteSet(S), NEW f \in [S -> Int], NEW a \in Int, NEW T,
           T = {a} \cup {f[p] : p \in S}
    PROVE  /\ Max(T) \in Int
           /\ Max(T) >= a
           /\ \A p \in S : Max(T) >= f[p]
           /\ Max(T) \in T
<1>1. \E m \in T : \A y \in T : m >= y
  <2>1. CASE S = {}
    BY <2>1
  <2>2. CASE S # {}
    <3>1. PICK l \in S : \A p \in S : f[l] >= f[p]
      BY <2>2, Greatest
    <3>2. CASE f[l] >= a
      BY <3>1, <3>2
    <3>3. CASE ~(f[l] >= a)
      BY <3>1, <3>3
    <3> QED BY <3>2, <3>3
  <2> QED BY <2>1, <2>2
<1>2. Max(T) \in T /\ \A y \in T : Max(T) >= y
  BY <1>1, MaxIs
<1> QED BY <1>2

-----------------------------------------------------------------------------
(* Moving access together *)

Precedes(cap, p, q) == cap[p] < cap[q] \/ (cap[p] = cap[q] /\ p < q)

\* From the moments cap on, s gives the orders of B places that do not overlap and end by limit.
Feasible(s, cap, B, limit) ==
    \A p \in B :
        /\ s[p] >= cap[p]
        /\ s[p] + Duration[p] <= limit
        /\ \A q \in B : p # q => s[p] + Duration[p] <= s[q] \/ s[q] + Duration[q] <= s[p]

\* c gives each order of B the first place that those before it leave.
Packed(c, cap, B) ==
    \A q \in B :
        /\ c[q] >= cap[q]
        /\ \A p \in B : Precedes(cap, p, q) => c[p] + Duration[p] <= c[q]
        /\ \/ c[q] = cap[q]
           \/ \E p \in B : Precedes(cap, p, q) /\ c[q] = c[p] + Duration[p]

LEMMA LastOne ==
    ASSUME NEW B \in SUBSET Orders, B # {}, NEW cap \in [Orders -> Nat]
    PROVE  \E l \in B : \A p \in B : p # l => Precedes(cap, p, l)
<1>1. IsFiniteSet(B) /\ B \subseteq Int
  <2>1. IsFiniteSet(B)
    BY FS_Subset, OrdersAreIds
  <2>2. B \subseteq Int
    BY OrdersAreIds
  <2> QED BY <2>1, <2>2
<1>2. PICK m \in B : \A p \in B : cap[m] >= cap[p]
  <2> DEFINE f == [p \in B |-> cap[p]]
  <2>1. f \in [B -> Int]
    OBVIOUS
  <2>2. PICK m \in B : \A p \in B : f[m] >= f[p]
    <3> HIDE DEF f
    <3> QED BY <2>1, <1>1, Greatest
  <2> QED BY <2>2
<1> DEFINE C == {p \in B : cap[p] = cap[m]}
<1>3. PICK l \in C : \A p \in C : l >= p
  <2> DEFINE f == [p \in C |-> p]
  <2>1. f \in [C -> Int] /\ IsFiniteSet(C) /\ C # {}
    BY <1>1, FS_Subset
  <2>2. PICK l \in C : \A p \in C : f[l] >= f[p]
    <3> HIDE DEF f, C
    <3> QED BY <2>1, Greatest
  <2> QED BY <2>2
<1>4. ASSUME NEW p \in B, p # l PROVE Precedes(cap, p, l)
  <2>1. p \in Int /\ l \in Int /\ cap[p] \in Nat /\ cap[m] \in Nat /\ cap[l] = cap[m]
    BY <1>1
  <2>2. CASE cap[p] = cap[m]
    BY <2>1, <2>2, <1>3, <1>4 DEF Precedes
  <2>3. CASE cap[p] # cap[m]
    BY <2>1, <2>3, <1>2 DEF Precedes
  <2> QED BY <2>2, <2>3
<1> QED BY <1>4

\* Without the last order, the others have places that end earlier by its length: those
\* that were behind it move up.
LEMMA WithoutTheLast ==
    ASSUME NEW A \in SUBSET Orders, NEW B \in SUBSET A, NEW cap \in [Orders -> Nat],
           NEW s \in [A -> Int], NEW limit \in Int, Feasible(s, cap, B, limit),
           NEW l \in B, \A p \in B : p # l => Precedes(cap, p, l)
    PROVE  \E t \in [A -> Int] : Feasible(t, cap, B \ {l}, limit - Duration[l])
<1> DEFINE t == [p \in A |-> IF s[p] > s[l] THEN s[p] - Duration[l] ELSE s[p]]
<1>1. Duration \in [Orders -> Int] /\ \A p \in Orders : Duration[p] > 0
  BY DurationsArePositive
<1>2. t \in [A -> Int]
  BY <1>1
<1>3. ASSUME NEW p \in B \ {l} PROVE t[p] >= cap[p]
  <2>1. cap[p] <= cap[l]
    BY DEF Precedes
  <2>2. s[l] >= cap[l] /\ s[p] >= cap[p]
    BY DEF Feasible
  <2>3. s[p] + Duration[p] <= s[l] \/ s[l] + Duration[l] <= s[p]
    BY DEF Feasible
  <2> QED BY <1>1, <2>1, <2>2, <2>3
<1>4. ASSUME NEW p \in B \ {l} PROVE t[p] + Duration[p] <= limit - Duration[l]
  <2>1. s[p] + Duration[p] <= limit /\ s[l] + Duration[l] <= limit
    BY DEF Feasible
  <2>2. s[p] + Duration[p] <= s[l] \/ s[l] + Duration[l] <= s[p]
    BY DEF Feasible
  <2> QED BY <1>1, <2>1, <2>2
<1>5. ASSUME NEW p \in B \ {l}, NEW q \in B \ {l}, p # q
      PROVE  t[p] + Duration[p] <= t[q] \/ t[q] + Duration[q] <= t[p]
  <2>1. s[p] + Duration[p] <= s[q] \/ s[q] + Duration[q] <= s[p]
    BY <1>5 DEF Feasible
  <2>2. s[p] + Duration[p] <= s[l] \/ s[l] + Duration[l] <= s[p]
    BY DEF Feasible
  <2>3. s[q] + Duration[q] <= s[l] \/ s[l] + Duration[l] <= s[q]
    BY DEF Feasible
  <2>4. /\ s[p] \in Int /\ s[q] \in Int /\ s[l] \in Int
        /\ Duration[p] \in Int /\ Duration[q] \in Int /\ Duration[l] \in Int
        /\ Duration[p] > 0 /\ Duration[q] > 0 /\ Duration[l] > 0
    BY <1>1
  <2> QED BY <2>1, <2>2, <2>3, <2>4
<1>6. Feasible(t, cap, B \ {l}, limit - Duration[l])
  <2> HIDE DEF t
  <2> QED BY <1>3, <1>4, <1>5 DEF Feasible
<1> QED BY <1>2, <1>6

\* However the orders lay before, moved together none of them ends after the last of them did.
LEMMA Compaction ==
    ASSUME NEW A \in SUBSET Orders, NEW cap \in [Orders -> Nat], NEW c \in [A -> Int],
           Packed(c, cap, A), NEW s \in [A -> Int], NEW limit \in Int, Feasible(s, cap, A, limit)
    PROVE  \A p \in A : c[p] + Duration[p] <= limit
<1> DEFINE Wrong(B) == \E u \in [A -> Int], m \in Int :
                          Feasible(u, cap, B, m) /\ \E p \in B : ~(c[p] + Duration[p] <= m)
           F == {B \in SUBSET A : Packed(c, cap, B) /\ Wrong(B)}
<1>1. Duration \in [Orders -> Int] /\ \A p \in Orders : Duration[p] > 0
  BY DurationsArePositive
<1>2. ASSUME F # {} PROVE FALSE
  <2>1. PICK B \in F : \A C \in F : C \subseteq B => C = B
    <3>1. F \subseteq SUBSET A /\ IsFiniteSet(A)
      BY FS_Subset, OrdersAreIds
    <3> HIDE DEF F
    <3> QED BY <3>1, <1>2, Smallest
  <2>2. PICK u \in [A -> Int], m \in Int :
            Feasible(u, cap, B, m) /\ \E p \in B : ~(c[p] + Duration[p] <= m)
    OBVIOUS
  <2>3. B \in SUBSET A /\ B \in SUBSET Orders /\ B # {} /\ Packed(c, cap, B)
    BY <2>2
  <2>4. PICK l \in B : \A p \in B : p # l => Precedes(cap, p, l)
    BY <2>3, LastOne
  <2>5. PICK t \in [A -> Int] : Feasible(t, cap, B \ {l}, m - Duration[l])
    BY <2>2, <2>3, <2>4, WithoutTheLast
  <2>6. Packed(c, cap, B \ {l})
    <3>1. ASSUME NEW p \in B, NEW q \in B \ {l}, Precedes(cap, p, q) PROVE p # l
      <4>1. Precedes(cap, q, l)
        BY <2>4
      <4>2. cap[q] \in Nat /\ cap[l] \in Nat /\ q \in Nat /\ l \in Nat
        BY <2>3, OrdersAreIds
      <4> QED BY <4>1, <4>2, <3>1 DEF Precedes
    <3> QED BY <2>3, <3>1 DEF Packed
  <2>7. \A p \in B \ {l} : c[p] + Duration[p] <= m - Duration[l]
    <3>1. B \ {l} \notin F
      BY <2>1, <2>3, <2>4
    <3>2. m - Duration[l] \in Int
      BY <1>1, <2>3
    <3> QED BY <3>1, <3>2, <2>3, <2>5, <2>6
  <2>8. u[l] >= cap[l] /\ u[l] + Duration[l] <= m
    BY <2>2, <2>4 DEF Feasible
  <2>9. c[l] + Duration[l] <= m
    <3>1. c[l] = cap[l] \/ \E p \in B : Precedes(cap, p, l) /\ c[l] = c[p] + Duration[p]
      BY <2>3, <2>4 DEF Packed
    <3>2. CASE c[l] = cap[l]
      BY <3>2, <2>8, <2>3, <1>1
    <3>3. ASSUME NEW p \in B, Precedes(cap, p, l), c[l] = c[p] + Duration[p]
          PROVE  c[l] + Duration[l] <= m
      <4>1. p # l
        BY <3>3, <2>3, OrdersAreIds DEF Precedes
      <4>2. c[p] + Duration[p] <= m - Duration[l]
        BY <4>1, <2>7
      <4> QED BY <4>2, <3>3, <2>3, <1>1
    <3> QED BY <3>1, <3>2, <3>3
  <2>10. ASSUME NEW p \in B PROVE c[p] + Duration[p] <= m
    <3>1. CASE p = l
      BY <3>1, <2>9
    <3>2. CASE p # l
      BY <3>2, <2>7, <2>3, <1>1
    <3> QED BY <3>1, <3>2
  <2> QED BY <2>2, <2>10
<1>3. A \notin F
  BY <1>2
<1> QED BY <1>3

-----------------------------------------------------------------------------
(* The inductive invariant *)

Sold(o) == order[o].status \in {"paid", "refunded"}

\* What is known of an order.
OrderOK(o) ==
    /\ order[o].status = "paid" \/ Granted(o) => captured[o] # 0
    /\ Granted(o) => Sold(o)
    /\ event[o].status = "processed" => Granted(o)
    /\ Counts(o) => ent[o].start >= captured[o]

\* What is known of a worker by the step it is at.  The entitlement that it has inserted but
\* not committed is behind all those that count.
WorkerOK(x) ==
    LET o == OrderOf(x) IN
    /\ w[x].pc \in InTransaction \cup Holding \cup {"pay", "visitPay", "visitGrant"} => captured[o] # 0
    /\ At(x, "finish") => Granted(o)
    /\ w[x].pc \in InTransaction => order[o].status # "refunded"
    /\ At(x, "visitCommit") => Sold(o)
    /\ w[x].pc \in Holding => Granted(o) \/ w[x].start # 0
    /\ w[x].pc \in Holding /\ w[x].start # 0 =>
          /\ ~Granted(o)
          /\ w[x].start >= captured[o]
          /\ \A p \in Orders : Counts(p) => EndOf(p) <= w[x].start

OneHolder == \A x, y \in Workers : w[x].pc \in Holding /\ w[y].pc \in Holding => x = y

\* What is known of a refund, of the operator's call and of Robokassa's part in it.
RefundOK(r) ==
    /\ ask[r] # "none" \/ robo[r] # "unknown" \/ answers[r] # {} \/ refund[r].id =>
          refund[r].status # "absent"
    /\ ask[r] = "call" => robo[r] = "unknown"
    /\ "succeeded" \in answers[r] \/ refund[r].status = "succeeded" => robo[r] = "finished"

GivenBack(o) ==
    \E given \in SUBSET {r \in Refunds : refund[r].order = o /\ robo[r] = "finished"} : Total(given) = Price

ShopInv ==
    /\ \A o \in Orders : OrderOK(o)
    /\ \A x \in Workers : WorkerOK(x)
    /\ OneHolder
    /\ AccessIsOneChain

BackInv ==
    /\ \A r \in Refunds : RefundOK(r)
    /\ \A o \in Orders : order[o].status = "refunded" => GivenBack(o)

IInv == TypeOK /\ ShopInv /\ BackInv

LEMMA InitInv == Init => IInv
<1> SUFFICES ASSUME Init PROVE IInv
  OBVIOUS
<1> USE NoneIsNothing, BoundsArePositive
<1>1. Idle \in Locals
  BY DEF Idle, Locals, Labels
<1>2. 1 \in 1..Price /\ 0 \in 0..MaxTime /\ 0 \in 0..MaxFaults
  OBVIOUS
<1>3. TypeOK
  <2>1. captured \in [Orders -> 0..MaxTime] /\ faults \in 0..MaxFaults
    BY <1>2 DEF Init
  <2>2. /\ order \in [Orders -> [status : Statuses, provider : BOOLEAN]]
        /\ event \in [Orders -> [status : {"absent", "processing", "processed", "failed"},
                                 token : Workers \cup {None}]]
        /\ ent \in [Orders -> Entitlements]
    BY DEF Init, Statuses, Entitlements
  <2>3. w \in [Workers -> Locals] /\ \A x \in Workers : At(x, "idle")
    BY <1>1 DEF Init, At, Idle
  <2>4. /\ refund \in [Refunds -> RefundRows]
        /\ robo \in [Refunds -> {"unknown", "accepted", "finished", "rejected"}]
        /\ ask \in [Refunds -> {"none", "call", "ok", "failed"}]
        /\ answers \in [Refunds -> SUBSET {"processing", "succeeded", "failed"}]
        /\ \A r \in Refunds : refund[r].status = "absent"
    BY <1>2 DEF Init, RefundRows
  <2> QED BY <2>1, <2>2, <2>3, <2>4 DEF TypeOK
<1>4. \A o \in Orders : ~Granted(o) /\ ~Counts(o) /\ order[o].status = "created" /\ event[o].status = "absent"
  BY DEF Init, Granted, Counts
<1>5. ShopInv
  <2>1. \A x \in Workers : w[x].pc = "idle"
    BY DEF Init, Idle
  <2> QED BY <1>4, <2>1 DEF ShopInv, OrderOK, WorkerOK, OneHolder, AccessIsOneChain, At, InTransaction, Holding
<1>6. BackInv
  BY <1>4 DEF Init, BackInv, RefundOK
<1> QED BY <1>3, <1>5, <1>6 DEF IInv

-----------------------------------------------------------------------------
(* Types *)

WorkersTyped ==
    /\ w \in [Workers -> Locals]
    /\ \A x \in Workers : ~At(x, "idle") => OrderOf(x) \in Orders

RefundsTyped ==
    /\ refund \in [Refunds -> RefundRows]
    /\ \A r \in Refunds : refund[r].status # "absent" => refund[r].order \in Orders

LEMMA BeginsType ==
    ASSUME TypeOK, NEW x \in Workers, NEW o \in Orders, NEW label \in Labels, Begins(x, o, label)
    PROVE  WorkersTyped'
<1> DEFINE begun == [Idle EXCEPT !.pc = label, !.order = o]
<1>0. w' = [w EXCEPT ![x] = begun]
  BY DEF Begins
<1>1. Idle \in Locals
  BY NoneIsNothing DEF Locals, Idle, Labels
<1>2. begun \in Locals /\ begun.pc = label /\ begun.order = o
  BY <1>1 DEF Locals
<1> HIDE DEF begun
<1>3. w' \in [Workers -> Locals]
  BY <1>0, <1>2 DEF TypeOK
<1>4. ASSUME NEW y \in Workers, w'[y].pc # "idle" PROVE w'[y].order \in Orders
  <2>1. CASE y = x
    BY <2>1, <1>0, <1>2 DEF TypeOK
  <2>2. CASE y # x
    BY <2>2, <1>0, <1>4 DEF TypeOK, At, OrderOf
  <2> QED BY <2>1, <2>2
<1> QED BY <1>3, <1>4 DEF WorkersTyped, At, OrderOf

LEMMA MovesType ==
    ASSUME TypeOK, NEW x \in Workers, ~At(x, "idle"), NEW label \in Labels, NEW start \in Nat,
           w' = [w EXCEPT ![x] = [w[x] EXCEPT !.pc = label, !.start = start]]
    PROVE  WorkersTyped'
<1>1. w[x] \in Locals
  BY DEF TypeOK
<1>2. [w[x] EXCEPT !.pc = label, !.start = start] \in Locals
  BY <1>1 DEF Locals
<1>3. w' \in [Workers -> Locals]
  BY <1>2 DEF TypeOK
<1>4. ASSUME NEW y \in Workers, w'[y].pc # "idle" PROVE w'[y].order \in Orders
  <2>1. CASE y = x
    BY <2>1, <1>1 DEF TypeOK, At, OrderOf, Locals
  <2>2. CASE y # x
    BY <2>2, <1>4 DEF TypeOK, At, OrderOf
  <2> QED BY <2>1, <2>2
<1> QED BY <1>3, <1>4 DEF WorkersTyped, At, OrderOf

LEMMA GotoType ==
    ASSUME TypeOK, NEW x \in Workers, ~At(x, "idle"), NEW label \in Labels, Goto(x, label)
    PROVE  WorkersTyped'
<1>1. w[x] \in Locals
  BY DEF TypeOK
<1>2. w[x].start \in Nat /\ [w[x] EXCEPT !.pc = label] = [w[x] EXCEPT !.pc = label, !.start = w[x].start]
  BY <1>1 DEF Locals
<1>3. w' = [w EXCEPT ![x] = [w[x] EXCEPT !.pc = label, !.start = w[x].start]]
  BY <1>2 DEF Goto, TypeOK
<1> QED BY <1>2, <1>3, MovesType

LEMMA EndsType ==
    ASSUME TypeOK, NEW x \in Workers, Ends(x)
    PROVE  WorkersTyped'
<1>1. Idle \in Locals /\ Idle.pc = "idle"
  BY NoneIsNothing DEF Locals, Idle, Labels
<1>2. w' \in [Workers -> Locals]
  BY <1>1 DEF Ends, TypeOK
<1>3. ASSUME NEW y \in Workers, w'[y].pc # "idle" PROVE w'[y].order \in Orders
  <2>1. CASE y = x
    BY <2>1, <1>1, <1>3 DEF TypeOK, Ends
  <2>2. CASE y # x
    BY <2>2, <1>3 DEF TypeOK, At, OrderOf, Ends
  <2> QED BY <2>1, <2>2
<1> QED BY <1>2, <1>3 DEF WorkersTyped, At, OrderOf

\* Access starts when it was paid for, or behind all that counts.
LEMMA AccessStartIs ==
    ASSUME TypeOK, NEW o \in Orders
    PROVE  /\ AccessStart(o) \in Nat
           /\ AccessStart(o) >= captured[o]
           /\ \A p \in Orders : Counts(p) => EndOf(p) <= AccessStart(o)
<1> DEFINE S == {q \in Orders : Counts(q)}
           f == [p \in S |-> EndOf(p)]
           T == {captured[o]} \cup {EndOf(p) : p \in S}
<1>1. IsFiniteSet(S)
  <2>1. S \in SUBSET Orders
    OBVIOUS
  <2> HIDE DEF S
  <2> QED BY <2>1, FS_Subset, OrdersAreIds
<1>2. f \in [S -> Int]
  <2>1. ASSUME NEW p \in Orders PROVE EndOf(p) \in Int
    BY DurationsArePositive DEF TypeOK, Entitlements, EndOf
  <2> QED BY <2>1
<1>3. T = {captured[o]} \cup {f[p] : p \in S}
  OBVIOUS
<1>4. captured[o] \in Nat
  BY BoundsArePositive DEF TypeOK
<1>5. /\ Max(T) \in Int
      /\ Max(T) >= captured[o]
      /\ \A p \in S : Max(T) >= f[p]
  <2> HIDE DEF S, f, T
  <2> QED BY <1>1, <1>2, <1>3, <1>4, Latest
<1>6. AccessStart(o) = Max(T)
  BY DEF AccessStart
<1>7. ASSUME NEW p \in Orders, Counts(p) PROVE EndOf(p) <= AccessStart(o)
  <2>1. EndOf(p) \in Int
    BY DurationsArePositive DEF TypeOK, Entitlements, EndOf
  <2>2. f[p] = EndOf(p) /\ p \in S
    BY <1>7
  <2> HIDE DEF S, f, T
  <2> QED BY <1>5, <1>6, <2>1, <2>2
<1> HIDE DEF S, f, T
<1> QED BY <1>4, <1>5, <1>6, <1>7

LEMMA HorizonType == Horizon \in Nat
<1> DEFINE f == [p \in Orders |-> Duration[p]]
           T == {0} \cup {Duration[p] : p \in Orders}
<1>1. f \in [Orders -> Int] /\ T = {0} \cup {f[p] : p \in Orders}
  BY DurationsArePositive
<1>2. Max(T) \in Int /\ Max(T) >= 0
  <2>1. IsFiniteSet(Orders) /\ 0 \in Int
    BY OrdersAreIds
  <2> HIDE DEF f, T
  <2> QED BY <1>1, <2>1, Latest
<1>3. Cardinality(Orders) \in Nat
  BY FS_CardinalityType, OrdersAreIds
<1>4. Cardinality(Orders) * Max(T) \in Nat
  <2> HIDE DEF T
  <2> QED BY <1>2, <1>3
<1>5. Horizon = MaxTime + Cardinality(Orders) * Max(T)
  BY DEF Horizon
<1> HIDE DEF T
<1> QED BY <1>4, <1>5, BoundsArePositive

LEMMA RevokeType ==
    ASSUME TypeOK, NEW o \in Orders, Revoke(o)
    PROVE  ent' \in [Orders -> Entitlements]
<1>1. CASE ~Granted(o)
  BY <1>1 DEF Revoke, TypeOK
<1>2. CASE Granted(o)
  <2>1. PICK starts \in [Left(o) -> 1..Horizon] :
            ent' = [p \in Orders |->
                       IF p = o THEN [ent[p] EXCEPT !.revoked = TRUE]
                       ELSE IF p \in Left(o) THEN [ent[p] EXCEPT !.start = starts[p]] ELSE ent[p]]
    BY <1>2 DEF Revoke
  <2>2. ASSUME NEW p \in Left(o) PROVE starts[p] \in Nat
    BY HorizonType
  <2>3. ASSUME NEW p \in Orders PROVE ent'[p] \in Entitlements
    <3>1. ent[p] \in Entitlements
      BY DEF TypeOK
    <3> QED BY <3>1, <2>1, <2>2 DEF Entitlements
  <2> QED BY <2>1, <2>3
<1> QED BY <1>1, <1>2

LEMMA PublishesType ==
    ASSUME TypeOK, NEW x \in Workers, ~At(x, "idle"), Publishes(x)
    PROVE  ent' \in [Orders -> Entitlements]
<1>1. w[x].start \in Nat /\ w[x].order \in Orders
  BY DEF TypeOK, Locals, OrderOf
<1>2. ent[w[x].order] \in Entitlements
  BY <1>1 DEF TypeOK
<1>3. [ent[w[x].order] EXCEPT !.start = IF w[x].start = 0 THEN @ ELSE w[x].start] \in Entitlements
  BY <1>1, <1>2 DEF Entitlements
<1>4. ent' = [ent EXCEPT ![w[x].order] =
                 [ent[w[x].order] EXCEPT !.start = IF w[x].start = 0 THEN @ ELSE w[x].start]]
  BY <1>1 DEF Publishes, OrderOf, TypeOK
<1> QED BY <1>3, <1>4 DEF TypeOK

\* What a step leaves of the type invariant when it changes workers, an order, an event and
\* entitlements only.
LEMMA ShopType ==
    ASSUME TypeOK, WorkersTyped', UNCHANGED <<captured, back>>, faults' \in 0..MaxFaults,
           order' \in [Orders -> [status : Statuses, provider : BOOLEAN]],
           event' \in [Orders -> [status : {"absent", "processing", "processed", "failed"},
                                  token : Workers \cup {None}]],
           ent' \in [Orders -> Entitlements]
    PROVE  TypeOK'
BY DEF TypeOK, WorkersTyped, back, At, OrderOf

LEMMA StatusType ==
    ASSUME TypeOK, NEW o \in Orders, NEW s \in Statuses, order' = [order EXCEPT ![o].status = s]
    PROVE  order' \in [Orders -> [status : Statuses, provider : BOOLEAN]]
BY DEF TypeOK

LEMMA ClosesType ==
    ASSUME TypeOK, NEW x \in Workers, ~At(x, "idle"), NEW s \in {"processed", "failed"}, Closes(x, s)
    PROVE  event' \in [Orders -> [status : {"absent", "processing", "processed", "failed"},
                                  token : Workers \cup {None}]]
<1>1. OrderOf(x) \in Orders
  BY DEF TypeOK
<1>2. event[OrderOf(x)] \in [status : {"absent", "processing", "processed", "failed"},
                             token : Workers \cup {None}]
  BY <1>1 DEF TypeOK
<1>3. event' = [event EXCEPT ![OrderOf(x)] = IF event[OrderOf(x)].token = x
                    THEN [status |-> s, token |-> None] ELSE event[OrderOf(x)]]
  BY <1>1 DEF Closes, TypeOK
<1>4. [status |-> s, token |-> None] \in [status : {"absent", "processing", "processed", "failed"},
                                          token : Workers \cup {None}]
  OBVIOUS
<1> QED BY <1>2, <1>3, <1>4 DEF TypeOK

\* A fault counts up to its bound.
LEMMA FaultType ==
    ASSUME TypeOK, faults < MaxFaults, faults' = faults + 1
    PROVE  faults' \in 0..MaxFaults
BY BoundsArePositive DEF TypeOK

LEMMA WorkersStay ==
    ASSUME TypeOK, UNCHANGED w
    PROVE  WorkersTyped'
BY DEF TypeOK, WorkersTyped, At, OrderOf

LEMMA CustomerType ==
    ASSUME TypeOK, NEW o \in Orders, Offer(o) \/ Capture(o)
    PROVE  TypeOK'
<1>1. CASE Offer(o)
  <2>1. order' \in [Orders -> [status : Statuses, provider : BOOLEAN]]
    <3>1. CASE order' = [order EXCEPT ![o] = [status |-> "pending", provider |-> TRUE]]
      BY <3>1 DEF TypeOK, Statuses
    <3>2. ASSUME NEW s \in {"unavailable", "failed"}, order' = [order EXCEPT ![o].status = s]
          PROVE  order' \in [Orders -> [status : Statuses, provider : BOOLEAN]]
      BY <3>2, StatusType DEF Statuses
    <3> QED BY <1>1, <3>1, <3>2 DEF Offer
  <2> QED BY <1>1, <2>1, ShopType, WorkersStay DEF Offer, TypeOK
<1>2. CASE Capture(o)
  <2>1. captured' \in [Orders -> 0..MaxTime]
    BY <1>2, BoundsArePositive DEF Capture, TypeOK
  <2> QED BY <1>2, <2>1 DEF Capture, TypeOK, shop, back, At, OrderOf
<1> QED BY <1>1, <1>2

LEMMA BeginningType ==
    ASSUME TypeOK, NEW x \in Workers, NEW o \in Orders, Deliver(x, o) \/ Visit(x, o) \/ VisitCancel(x, o)
    PROVE  TypeOK'
<1>1. CASE Deliver(x, o)
  <2>1. event' \in [Orders -> [status : {"absent", "processing", "processed", "failed"},
                               token : Workers \cup {None}]]
    BY <1>1 DEF Deliver, TypeOK
  <2>2. WorkersTyped'
    <3>1. "pay" \in Labels
      BY DEF Labels
    <3> QED BY <1>1, <3>1, BeginsType DEF Deliver
  <2> QED BY <1>1, <2>1, <2>2, ShopType DEF Deliver, TypeOK
<1>2. CASE Visit(x, o) \/ VisitCancel(x, o)
  <2>1. \E label \in Labels : Begins(x, o, label)
    BY <1>2 DEF Visit, VisitCancel, Labels
  <2>2. WorkersTyped'
    BY <2>1, BeginsType
  <2> QED BY <1>2, <2>2, ShopType DEF Visit, VisitCancel, TypeOK
<1> QED BY <1>1, <1>2

LEMMA InsertsType ==
    ASSUME TypeOK, NEW x \in Workers, ~At(x, "idle"), NEW label \in Labels, Inserts(x, label)
    PROVE  WorkersTyped'
<1> DEFINE start == IF Granted(OrderOf(x)) THEN 0 ELSE AccessStart(OrderOf(x))
<1>1. OrderOf(x) \in Orders
  BY DEF TypeOK
<1>2. start \in Nat
  BY <1>1, AccessStartIs
<1>3. w' = [w EXCEPT ![x] = [w[x] EXCEPT !.pc = label, !.start = start]]
  BY DEF Inserts, TypeOK
<1> HIDE DEF start
<1> QED BY <1>2, <1>3, MovesType

LEMMA WebhookType ==
    ASSUME TypeOK, NEW x \in Workers, Pay(x) \/ Grant(x) \/ Commit(x) \/ LoseCommit(x) \/ Finish(x)
    PROVE  TypeOK'
<1>1. CASE Pay(x)
  <2>1. ~At(x, "idle") /\ \E label \in Labels : Goto(x, label)
    BY <1>1 DEF Pay, At, Labels, InTransaction
  <2>2. WorkersTyped'
    BY <2>1, GotoType
  <2> QED BY <1>1, <2>2, ShopType DEF Pay, TypeOK
<1>2. CASE Grant(x)
  <2>1. ~At(x, "idle") /\ "commit" \in Labels
    BY <1>2 DEF Grant, At, Labels, Holding
  <2>2. WorkersTyped'
    BY <1>2, <2>1, InsertsType DEF Grant
  <2> QED BY <1>2, <2>2, ShopType DEF Grant, TypeOK
<1>3. CASE Commit(x) \/ LoseCommit(x)
  <2>1. ~At(x, "idle") /\ \E label \in Labels : Goto(x, label)
    BY <1>3 DEF Commit, LoseCommit, Commits, At, Labels
  <2>2. WorkersTyped'
    BY <2>1, GotoType
  <2>3. order' \in [Orders -> [status : Statuses, provider : BOOLEAN]]
    <3>1. OrderOf(x) \in Orders /\ "paid" \in Statuses
      BY <2>1 DEF TypeOK, Statuses
    <3> QED BY <1>3, <3>1, StatusType DEF Commit, LoseCommit, Commits
  <2>4. ent' \in [Orders -> Entitlements]
    BY <1>3, <2>1, PublishesType DEF Commit, LoseCommit, Commits
  <2>5. faults' \in 0..MaxFaults
    BY <1>3, FaultType DEF Commit, LoseCommit, TypeOK
  <2>6. UNCHANGED <<captured, event, back>>
    BY <1>3 DEF Commit, LoseCommit, Commits
  <2> QED BY <2>2, <2>3, <2>4, <2>5, <2>6, ShopType DEF TypeOK
<1>4. CASE Finish(x)
  <2>1. ~At(x, "idle") /\ \E s \in {"processed", "failed"} : Closes(x, s)
    BY <1>4 DEF Finish, At
  <2>2. event' \in [Orders -> [status : {"absent", "processing", "processed", "failed"},
                               token : Workers \cup {None}]]
    BY <2>1, ClosesType
  <2>3. WorkersTyped'
    BY <1>4, EndsType DEF Finish
  <2> QED BY <1>4, <2>2, <2>3, ShopType DEF Finish, TypeOK
<1> QED BY <1>1, <1>2, <1>3, <1>4

LEMMA PageType ==
    ASSUME TypeOK, NEW x \in Workers,
           VisitPay(x) \/ VisitPending(x) \/ VisitGrant(x) \/ VisitCommit(x) \/ Cancel(x)
    PROVE  TypeOK'
<1> DEFINE o == OrderOf(x)
<1>1. ~At(x, "idle") /\ o \in Orders
  BY DEF VisitPay, VisitPending, VisitGrant, VisitCommit, Cancel, At, TypeOK
<1>2. CASE VisitPay(x)
  <2>1. "paid" \in Statuses /\ "visitGrant" \in Labels
    BY DEF Statuses, Labels
  <2>2. order' \in [Orders -> [status : Statuses, provider : BOOLEAN]]
    <3>1. order' = [order EXCEPT ![o].status = "paid"] \/ order' = order
      BY <1>2 DEF VisitPay, Writes
    <3> QED BY <1>1, <2>1, <3>1, StatusType DEF TypeOK
  <2>3. WorkersTyped'
    <3>1. Goto(x, "visitGrant") \/ Ends(x)
      BY <1>2 DEF VisitPay, Writes
    <3> QED BY <1>1, <2>1, <3>1, GotoType, EndsType
  <2> QED BY <1>2, <2>2, <2>3, ShopType DEF VisitPay, Writes, TypeOK
<1>3. CASE VisitPending(x) \/ Cancel(x)
  <2>1. \E s \in Statuses : order' = [order EXCEPT ![o].status = s]
    <3>1. order[o].status \in Statuses
      BY <1>1 DEF TypeOK
    <3>2. PICK s \in {"pending", "canceled"} :
             order' = [order EXCEPT ![o].status = IF MayBecome(o, s) THEN s ELSE @]
      BY <1>3 DEF VisitPending, Cancel
    <3>3. order' = [order EXCEPT ![o].status = IF MayBecome(o, s) THEN s ELSE order[o].status]
      BY <1>1, <3>2 DEF TypeOK
    <3>4. s \in Statuses
      BY DEF Statuses
    <3> QED BY <3>1, <3>3, <3>4
  <2>2. order' \in [Orders -> [status : Statuses, provider : BOOLEAN]]
    BY <1>1, <2>1, StatusType
  <2>3. WorkersTyped'
    BY <1>3, EndsType DEF VisitPending, Cancel
  <2> QED BY <1>3, <2>2, <2>3, ShopType DEF VisitPending, Cancel, TypeOK
<1>4. CASE VisitGrant(x)
  <2>1. WorkersTyped'
    <3>1. "visitCommit" \in Labels
      BY DEF Labels, Holding
    <3> QED BY <1>1, <1>4, <3>1, InsertsType, EndsType DEF VisitGrant
  <2> QED BY <1>4, <2>1, ShopType DEF VisitGrant, TypeOK
<1>5. CASE VisitCommit(x)
  <2>1. ent' \in [Orders -> Entitlements]
    BY <1>1, <1>5, PublishesType DEF VisitCommit
  <2>2. WorkersTyped'
    BY <1>5, EndsType DEF VisitCommit
  <2> QED BY <1>5, <2>1, <2>2, ShopType DEF VisitCommit, TypeOK
<1> QED BY <1>2, <1>3, <1>4, <1>5

LEMMA WorkerFaultType ==
    ASSUME TypeOK, NEW x \in Workers, Throw(x) \/ Crash(x)
    PROVE  TypeOK'
<1>1. WorkersTyped'
  <2>1. CASE Ends(x)
    BY <2>1, EndsType
  <2>2. CASE /\ w[x].pc \in {"pay"} \cup InTransaction
             /\ w' = [w EXCEPT ![x].pc = "fail", ![x].start = 0]
    <3>1. ~At(x, "idle") /\ "fail" \in Labels
      BY <2>2 DEF At, InTransaction, Labels
    <3>2. w' = [w EXCEPT ![x] = [w[x] EXCEPT !.pc = "fail", !.start = 0]]
      BY <2>2 DEF TypeOK
    <3> QED BY <3>1, <3>2, MovesType
  <2>3. CASE At(x, "finish") /\ Goto(x, "fail")
    <3>1. ~At(x, "idle") /\ "fail" \in Labels
      BY <2>3 DEF At, Labels
    <3> QED BY <2>3, <3>1, GotoType
  <2> QED BY <2>1, <2>2, <2>3 DEF Throw, Crash
<1>2. faults' \in 0..MaxFaults
  BY FaultType DEF Throw, Crash
<1> QED BY <1>1, <1>2, ShopType DEF Throw, Crash, TypeOK

LEMMA WorkerType ==
    ASSUME TypeOK, NEW x \in Workers, WorkerStep(x) \/ Throw(x) \/ LoseCommit(x) \/ Crash(x)
    PROVE  TypeOK'
BY WebhookType, PageType, WorkerFaultType DEF WorkerStep

\* What a step leaves of the type invariant when it is about one refund.
LEMMA BackType ==
    ASSUME TypeOK, UNCHANGED <<captured, event, w>>, RefundsTyped', faults' \in 0..MaxFaults,
           order' \in [Orders -> [status : Statuses, provider : BOOLEAN]],
           ent' \in [Orders -> Entitlements],
           robo' \in [Refunds -> {"unknown", "accepted", "finished", "rejected"}],
           ask' \in [Refunds -> {"none", "call", "ok", "failed"}],
           answers' \in [Refunds -> SUBSET {"processing", "succeeded", "failed"}]
    PROVE  TypeOK'
BY DEF TypeOK, RefundsTyped, At, OrderOf

LEMMA RefundsStay ==
    ASSUME TypeOK, UNCHANGED refund
    PROVE  RefundsTyped'
BY DEF TypeOK, RefundsTyped

\* The row of an existing refund changes its status and its id.
LEMMA RefundRowType ==
    ASSUME TypeOK, NEW r \in Refunds, refund[r].status # "absent",
           NEW s \in {"failed"} \cup Reserved, NEW id \in BOOLEAN,
           refund' = [refund EXCEPT ![r] = [refund[r] EXCEPT !.status = s, !.id = id]]
    PROVE  RefundsTyped'
<1>1. refund[r] \in RefundRows /\ refund[r].order \in Orders
  BY DEF TypeOK
<1>2. [refund[r] EXCEPT !.status = s, !.id = id] \in RefundRows
  BY <1>1 DEF RefundRows
<1>3. refund' \in [Refunds -> RefundRows]
  BY <1>2 DEF TypeOK
<1>4. ASSUME NEW q \in Refunds, refund'[q].status # "absent" PROVE refund'[q].order \in Orders
  <2>1. CASE q = r
    BY <2>1, <1>1 DEF TypeOK, RefundRows
  <2>2. CASE q # r
    BY <2>2, <1>4 DEF TypeOK
  <2> QED BY <2>1, <2>2
<1> QED BY <1>3, <1>4 DEF RefundsTyped

LEMMA RequestRefundType ==
    ASSUME TypeOK, NEW r \in Refunds, NEW o \in Orders, RequestRefund(r, o)
    PROVE  TypeOK'
<1>1. PICK amount \in 1..Price :
         refund' = [refund EXCEPT ![r] = [status |-> "creating", order |-> o, amount |-> amount, id |-> FALSE]]
  BY DEF RequestRefund, Amounts
<1>2. [status |-> "creating", order |-> o, amount |-> amount, id |-> FALSE] \in RefundRows
  BY DEF RefundRows, Reserved
<1>3. RefundsTyped'
  <2>1. refund' \in [Refunds -> RefundRows]
    BY <1>1, <1>2 DEF TypeOK
  <2>2. ASSUME NEW q \in Refunds, refund'[q].status # "absent" PROVE refund'[q].order \in Orders
    BY <2>2, <1>1 DEF TypeOK
  <2> QED BY <2>1, <2>2 DEF RefundsTyped
<1> QED BY <1>3, BackType DEF RequestRefund, TypeOK, shop

LEMMA AskType ==
    ASSUME TypeOK, NEW r \in Refunds,
           AskRobokassa(r) \/ LoseAnswer(r) \/ CrashRefund(r) \/ Settle(r) \/ AskState(r)
    PROVE  TypeOK'
<1>1. faults' \in 0..MaxFaults
  BY FaultType DEF AskRobokassa, LoseAnswer, CrashRefund, Settle, AskState, TypeOK
<1>2. robo' \in [Refunds -> {"unknown", "accepted", "finished", "rejected"}]
  BY DEF AskRobokassa, LoseAnswer, CrashRefund, Settle, AskState, TypeOK
<1>3. ask' \in [Refunds -> {"none", "call", "ok", "failed"}]
  BY DEF AskRobokassa, LoseAnswer, CrashRefund, Settle, AskState, TypeOK
<1>4. answers' \in [Refunds -> SUBSET {"processing", "succeeded", "failed"}]
  <2>1. CASE AskState(r)
    <3>1. StateIn(r) \in {"processing", "succeeded", "failed"}
      BY DEF StateIn
    <3> QED BY <2>1, <3>1 DEF AskState, TypeOK
  <2>2. CASE UNCHANGED answers
    BY <2>2 DEF TypeOK
  <2> QED BY <2>1, <2>2 DEF AskRobokassa, LoseAnswer, CrashRefund, Settle
<1>5. UNCHANGED <<captured, shop, refund>>
  BY DEF AskRobokassa, LoseAnswer, CrashRefund, Settle, AskState
<1>6. RefundsTyped'
  BY <1>5, RefundsStay
<1> QED BY <1>1, <1>2, <1>3, <1>4, <1>5, <1>6, BackType DEF shop, TypeOK

LEMMA NoteAnswerType ==
    ASSUME TypeOK, NEW r \in Refunds, refund[r].status # "absent", NoteAnswer(r)
    PROVE  TypeOK'
<1> DEFINE s == IF ask[r] = "ok" THEN "requested" ELSE "failed"
           id == (ask[r] = "ok")
<1>1. s \in {"failed"} \cup Reserved /\ id \in BOOLEAN
  BY DEF Reserved
<1>2. refund' = [refund EXCEPT ![r] = [refund[r] EXCEPT !.status = s, !.id = id]]
  BY DEF NoteAnswer, TypeOK
<1>3. RefundsTyped'
  <2> HIDE DEF s, id
  <2> QED BY <1>1, <1>2, RefundRowType
<1>4. ask' \in [Refunds -> {"none", "call", "ok", "failed"}]
  BY DEF NoteAnswer, TypeOK
<1> QED BY <1>3, <1>4, BackType DEF NoteAnswer, shop, TypeOK

LEMMA NoteStateType ==
    ASSUME TypeOK, NEW r \in Refunds, refund[r].status # "absent",
           NEW s \in {"processing", "succeeded", "failed"}, NoteState(r, s)
    PROVE  TypeOK'
<1> DEFINE o == refund[r].order
<1>1. o \in Orders
  BY DEF TypeOK
<1>2. RefundsTyped'
  <2>1. CASE refund' = [refund EXCEPT ![r].status = s]
    <3>1. refund[r] \in RefundRows
      BY DEF TypeOK
    <3>2. refund[r].id \in BOOLEAN /\ [refund[r] EXCEPT !.status = s] =
                                      [refund[r] EXCEPT !.status = s, !.id = refund[r].id]
      BY <3>1 DEF RefundRows
    <3>3. refund' = [refund EXCEPT ![r] = [refund[r] EXCEPT !.status = s, !.id = refund[r].id]]
      BY <2>1, <3>2 DEF TypeOK
    <3>4. s \in {"failed"} \cup Reserved
      BY DEF Reserved
    <3> QED BY <3>2, <3>3, <3>4, RefundRowType
  <2>2. CASE UNCHANGED refund
    BY <2>2, RefundsStay
  <2> QED BY <2>1, <2>2 DEF NoteState
<1>3. CASE UNCHANGED <<order, ent>>
  BY <1>2, <1>3, BackType DEF NoteState, TypeOK
<1>4. CASE order' = [order EXCEPT ![o].status = "refunded"] /\ Revoke(o)
  <2>1. "refunded" \in Statuses
    BY DEF Statuses
  <2>2. order' \in [Orders -> [status : Statuses, provider : BOOLEAN]]
    BY <1>1, <1>4, <2>1, StatusType
  <2>3. ent' \in [Orders -> Entitlements]
    BY <1>1, <1>4, RevokeType
  <2>4. answers' \in [Refunds -> SUBSET {"processing", "succeeded", "failed"}]
    BY DEF NoteState, TypeOK
  <2>5. UNCHANGED <<captured, event, w, robo, ask, faults>>
    BY DEF NoteState
  <2> QED BY <1>2, <2>2, <2>3, <2>4, <2>5, BackType DEF TypeOK
<1>5. UNCHANGED <<order, ent>> \/ (order' = [order EXCEPT ![o].status = "refunded"] /\ Revoke(o))
  BY DEF NoteState
<1> QED BY <1>3, <1>4, <1>5

-----------------------------------------------------------------------------
(* Steps that move no access *)

\* No entitlement is touched, no order is un-sold or refunded, and nothing is paid for or
\* acknowledged that may not be.
Steady ==
    /\ UNCHANGED <<captured, ent>>
    /\ \A o \in Orders :
          /\ Sold(o) => order'[o].status = order[o].status
          /\ order'[o].status = "refunded" => Sold(o)
          /\ order'[o].status = "paid" => captured[o] # 0
          /\ event'[o].status = "processed" => Granted(o)

OthersStay(x) == \A y \in Workers \ {x} : w'[y] = w[y]

LEMMA BeginsIs ==
    ASSUME TypeOK, NEW x \in Workers, NEW o \in Orders, NEW label \in Labels, Begins(x, o, label)
    PROVE  /\ w'[x].pc = label /\ w'[x].order = o /\ w'[x].start = 0
           /\ OthersStay(x)
           /\ w[x].pc = "idle"
<1> DEFINE begun == [Idle EXCEPT !.pc = label, !.order = o]
<1>1. w' = [w EXCEPT ![x] = begun] /\ w[x].pc = "idle"
  BY DEF Begins, At
<1>2. begun.pc = label /\ begun.order = o /\ begun.start = 0
  <2>1. Idle \in Locals /\ Idle.start = 0
    BY NoneIsNothing DEF Locals, Idle, Labels
  <2> QED BY <2>1 DEF Locals
<1> HIDE DEF begun
<1> QED BY <1>1, <1>2 DEF TypeOK, OthersStay

LEMMA GotoIs ==
    ASSUME TypeOK, NEW x \in Workers, NEW label, Goto(x, label)
    PROVE  /\ w'[x].pc = label /\ w'[x].order = w[x].order /\ w'[x].start = w[x].start
           /\ OthersStay(x)
<1>1. w[x] \in Locals
  BY DEF TypeOK
<1> QED BY <1>1 DEF TypeOK, Goto, OthersStay, Locals

LEMMA EndsIs ==
    ASSUME TypeOK, NEW x \in Workers, Ends(x)
    PROVE  w'[x].pc = "idle" /\ OthersStay(x)
BY DEF TypeOK, Ends, OthersStay, Idle

LEMMA SteadyCounts ==
    ASSUME IInv, Steady, NEW o \in Orders
    PROVE  /\ Granted(o)' <=> Granted(o)
           /\ Counts(o)' <=> Counts(o)
           /\ EndOf(o)' = EndOf(o)
           /\ Sold(o) => Sold(o)'
BY DEF IInv, ShopInv, OrderOK, Steady, Granted, Counts, EndOf, Sold

LEMMA SteadyOrders ==
    ASSUME IInv, Steady
    PROVE  (\A o \in Orders : OrderOK(o)') /\ AccessIsOneChain'
<1>1. ASSUME NEW o \in Orders PROVE OrderOK(o)'
  <2>1. OrderOK(o)
    BY DEF IInv, ShopInv
  <2> QED BY <2>1, SteadyCounts DEF OrderOK, Steady
<1>2. AccessIsOneChain'
  <2>1. \A o \in Orders : ent'[o] = ent[o]
    BY DEF Steady
  <2> QED BY <2>1, SteadyCounts DEF AccessIsOneChain, IInv, ShopInv
<1> QED BY <1>1, <1>2

LEMMA SteadyWorker ==
    ASSUME IInv, Steady, NEW x \in Workers, w'[x] = w[x]
    PROVE  WorkerOK(x)'
<1> DEFINE o == w[x].order
<1>1. CASE w[x].pc = "idle"
  BY <1>1 DEF WorkerOK, At, InTransaction, Holding
<1>2. CASE w[x].pc # "idle"
  <2>1. o \in Orders /\ WorkerOK(x)
    BY <1>2 DEF IInv, ShopInv, TypeOK, At, OrderOf
  <2>2. order'[o].status = "refunded" => order[o].status = "refunded"
    BY <2>1 DEF Steady, Sold
  <2>3. \A p \in Orders : Counts(p)' => Counts(p) /\ EndOf(p)' = EndOf(p)
    BY SteadyCounts
  <2>4. /\ Granted(o)' <=> Granted(o)
        /\ Sold(o) => Sold(o)'
    BY <2>1, SteadyCounts
  <2>5. captured' = captured
    BY DEF Steady
  <2> QED BY <2>1, <2>2, <2>3, <2>4, <2>5 DEF WorkerOK, At, OrderOf
<1> QED BY <1>1, <1>2

LEMMA HolderStep ==
    ASSUME IInv, NEW x \in Workers, OthersStay(x),
           w'[x].pc \in Holding => w[x].pc \in Holding \/ OwnerIsFree
    PROVE  OneHolder'
BY DEF IInv, ShopInv, OneHolder, OthersStay, OwnerIsFree

\* What is left to show when a worker makes such a step.
LEMMA SteadyStep ==
    ASSUME IInv, Steady, NEW x \in Workers, OthersStay(x), WorkerOK(x)',
           w'[x].pc \in Holding => w[x].pc \in Holding \/ OwnerIsFree
    PROVE  ShopInv'
<1>1. \A y \in Workers : WorkerOK(y)'
  BY SteadyWorker DEF OthersStay
<1> QED BY <1>1, SteadyOrders, HolderStep DEF ShopInv

LEMMA SteadyAll ==
    ASSUME IInv, Steady, UNCHANGED w
    PROVE  ShopInv'
<1>1. \A y \in Workers : WorkerOK(y)'
  BY SteadyWorker
<1>2. OneHolder'
  BY DEF IInv, ShopInv, OneHolder
<1> QED BY <1>1, <1>2, SteadyOrders DEF ShopInv

LEMMA ShopStays ==
    ASSUME IInv, UNCHANGED <<captured, shop>>
    PROVE  ShopInv'
<1>1. Steady
  BY DEF Steady, shop, IInv, ShopInv, OrderOK, Sold
<1> QED BY <1>1, SteadyAll DEF shop

LEMMA OfferShop ==
    ASSUME IInv, NEW o \in Orders, Offer(o)
    PROVE  ShopInv'
<1>1. order[o].status = "created" /\ UNCHANGED <<captured, event, ent, w>>
  BY DEF Offer
<1>2. ASSUME NEW p \in Orders
      PROVE  /\ Sold(p) => order'[p].status = order[p].status
             /\ order'[p].status \in {"paid", "refunded"} => Sold(p)
  <2>1. CASE p = o
    <3>1. order'[o].status \in {"pending", "unavailable", "failed"}
      BY DEF Offer, IInv, TypeOK
    <3> QED BY <2>1, <3>1, <1>1 DEF Sold
  <2>2. CASE p # o
    BY <2>2 DEF Offer, IInv, TypeOK, Sold
  <2> QED BY <2>1, <2>2
<1>3. Steady
  BY <1>1, <1>2 DEF Steady, IInv, ShopInv, OrderOK, Sold
<1> QED BY <1>1, <1>3, SteadyAll

\* Nothing is known of an order yet that the bank has not taken money for.
LEMMA CaptureShop ==
    ASSUME IInv, NEW o \in Orders, Capture(o)
    PROVE  ShopInv'
<1>1. captured[o] = 0 /\ UNCHANGED <<shop, back, faults>>
  BY DEF Capture
<1>2. PICK t \in 1..MaxTime : captured' = [captured EXCEPT ![o] = t]
  BY DEF Capture
<1>3. UNCHANGED <<order, event, ent, w>>
  BY <1>1 DEF shop
<1>4. order[o].status # "paid" /\ ~Granted(o) /\ ~Counts(o)
  BY <1>1 DEF IInv, ShopInv, OrderOK, Counts
<1>5. \A p \in Orders : captured'[p] = IF p = o THEN t ELSE captured[p]
  BY <1>2 DEF IInv, TypeOK
<1>6. ASSUME NEW p \in Orders PROVE OrderOK(p)'
  <2>1. OrderOK(p)
    BY DEF IInv, ShopInv
  <2>2. captured[p] # 0 => captured'[p] # 0
    BY <1>1, <1>5
  <2>3. Counts(p) => captured'[p] = captured[p]
    BY <1>4, <1>5
  <2> QED BY <2>1, <2>2, <2>3, <1>3, <1>4, <1>5 DEF OrderOK, Granted, Counts, Sold
<1>7. ASSUME NEW x \in Workers PROVE WorkerOK(x)'
  <2>1. CASE w[x].pc = "idle"
    BY <2>1, <1>3 DEF WorkerOK, At, InTransaction, Holding
  <2>2. CASE w[x].pc # "idle"
    <3>1. w[x].order \in Orders /\ WorkerOK(x)
      BY <2>2 DEF IInv, ShopInv, TypeOK, At, OrderOf
    <3>2. captured[w[x].order] # 0 => captured'[w[x].order] = captured[w[x].order]
      BY <1>1, <1>5, <3>1
    <3> QED BY <3>1, <3>2, <1>3 DEF WorkerOK, At, OrderOf, Granted, Sold, Counts, EndOf, Holding
  <2> QED BY <2>1, <2>2
<1>8. AccessIsOneChain' /\ OneHolder'
  BY <1>3 DEF IInv, ShopInv, AccessIsOneChain, OneHolder, Counts, Granted, EndOf
<1> QED BY <1>6, <1>7, <1>8 DEF ShopInv

LEMMA BeginningShop ==
    ASSUME IInv, NEW x \in Workers, NEW o \in Orders, Deliver(x, o) \/ Visit(x, o) \/ VisitCancel(x, o)
    PROVE  ShopInv'
<1>1. Steady
  <2>1. UNCHANGED <<captured, order, ent>>
    BY DEF Deliver, Visit, VisitCancel
  <2>2. \A p \in Orders : event'[p].status = "processed" => event[p].status = "processed"
    <3>1. CASE event' = [event EXCEPT ![o] = [status |-> "processing", token |-> x]]
      <4> TAKE p \in Orders
      <4>1. CASE p = o
        BY <3>1, <4>1 DEF IInv, TypeOK
      <4>2. CASE p # o
        BY <3>1, <4>2 DEF IInv, TypeOK
      <4> QED BY <4>1, <4>2
    <3> QED BY <3>1 DEF Deliver, Visit, VisitCancel
  <2> QED BY <2>1, <2>2 DEF Steady, IInv, ShopInv, OrderOK, Sold
<1>2. \E label \in Labels :
         /\ Begins(x, o, label)
         /\ label \in {"pay", "visitGrant", "visitPay", "visitPending", "cancel"}
         /\ label \in {"pay", "visitGrant", "visitPay"} => captured[o] # 0
  <2>1. order[o].status = "paid" => captured[o] # 0
    BY DEF IInv, ShopInv, OrderOK
  <2> QED BY <2>1 DEF Deliver, Visit, VisitCancel, Labels
<1>3. PICK label \in {"pay", "visitGrant", "visitPay", "visitPending", "cancel"} :
         /\ w'[x].pc = label /\ w'[x].order = o
         /\ OthersStay(x)
         /\ label \in {"pay", "visitGrant", "visitPay"} => captured[o] # 0
  BY <1>2, BeginsIs DEF IInv
<1>4. WorkerOK(x)'
  BY <1>1, <1>3 DEF WorkerOK, At, OrderOf, InTransaction, Holding, Steady
<1>5. w'[x].pc \notin Holding
  BY <1>3 DEF Holding
<1> QED BY <1>1, <1>3, <1>4, <1>5, SteadyStep

LEMMA PayShop ==
    ASSUME IInv, NEW x \in Workers, Pay(x)
    PROVE  ShopInv'
<1>1. At(x, "pay") /\ UNCHANGED <<captured, order, event, ent>>
  BY DEF Pay
<1>2. Steady
  BY <1>1 DEF Steady, IInv, ShopInv, OrderOK, Sold
<1>3. w'[x].order = w[x].order /\ OthersStay(x)
  BY GotoIs DEF Pay, IInv
<1>4. w'[x].pc = "fail" \/ (w'[x].pc = "grant" /\ MayBecome(OrderOf(x), "paid"))
  BY GotoIs DEF Pay, IInv
<1>5. captured[OrderOf(x)] # 0
  BY <1>1 DEF IInv, ShopInv, WorkerOK, At
<1>6. WorkerOK(x)'
  BY <1>1, <1>3, <1>4, <1>5 DEF WorkerOK, At, OrderOf, InTransaction, Holding, MayBecome
<1>7. w'[x].pc \notin Holding
  BY <1>4 DEF Holding
<1> QED BY <1>2, <1>3, <1>6, <1>7, SteadyStep

\* What is inserted under the lock is behind everything that counts.
LEMMA InsertsIs ==
    ASSUME TypeOK, NEW x \in Workers, ~At(x, "idle"), NEW label, Inserts(x, label)
    PROVE  /\ w'[x].pc = label /\ w'[x].order = w[x].order
           /\ OthersStay(x)
           /\ OwnerIsFree
           /\ Granted(OrderOf(x)) => w'[x].start = 0
           /\ ~Granted(OrderOf(x)) =>
                 /\ w'[x].start >= captured[OrderOf(x)] /\ w'[x].start \in Nat
                 /\ \A p \in Orders : Counts(p) => EndOf(p) <= w'[x].start
<1> DEFINE start == IF Granted(OrderOf(x)) THEN 0 ELSE AccessStart(OrderOf(x))
<1>1. OrderOf(x) \in Orders /\ w[x] \in Locals
  BY DEF TypeOK
<1>2. w' = [w EXCEPT ![x] = [w[x] EXCEPT !.pc = label, !.start = start]]
  BY DEF Inserts, TypeOK
<1>3. w'[x].pc = label /\ w'[x].order = w[x].order /\ w'[x].start = start /\ OthersStay(x)
  <2> HIDE DEF start
  <2> QED BY <1>1, <1>2 DEF TypeOK, OthersStay, Locals
<1>4. OwnerIsFree
  BY DEF Inserts
<1> QED BY <1>1, <1>3, <1>4, AccessStartIs

LEMMA GrantShop ==
    ASSUME IInv, NEW x \in Workers, Grant(x) \/ VisitGrant(x)
    PROVE  ShopInv'
<1> DEFINE o == OrderOf(x)
<1>1. ~At(x, "idle") /\ o \in Orders /\ captured[o] # 0 /\ UNCHANGED <<captured, order, event, ent>>
  BY DEF Grant, VisitGrant, At, IInv, TypeOK, ShopInv, WorkerOK, InTransaction
<1>2. Steady
  BY <1>1 DEF Steady, IInv, ShopInv, OrderOK, Sold
<1>3. CASE \E label \in Holding : Inserts(x, label)
  <2>1. PICK label \in Holding :
           /\ Inserts(x, label)
           /\ label = "commit" => order[o].status # "refunded"
           /\ label = "visitCommit" => Sold(o)
    <3>1. CASE Grant(x)
      BY <3>1 DEF Grant, Holding, At, IInv, ShopInv, WorkerOK, InTransaction
    <3>2. CASE VisitGrant(x) /\ ~Ends(x)
      BY <3>2 DEF VisitGrant, Holding, Sold
    <3>3. CASE VisitGrant(x) /\ Ends(x)
      <4>1. w'[x].pc = "idle"
        BY <3>3, EndsIs DEF IInv
      <4>2. w'[x].pc \in Holding
        BY <1>1, <1>3, InsertsIs DEF IInv
      <4> QED BY <4>1, <4>2 DEF Holding
    <3> QED BY <3>1, <3>2, <3>3
  <2>2. /\ w'[x].pc = label /\ w'[x].order = o
        /\ OthersStay(x)
        /\ OwnerIsFree
        /\ Granted(o) => w'[x].start = 0
        /\ ~Granted(o) =>
              /\ w'[x].start >= captured[o] /\ w'[x].start \in Nat
              /\ \A p \in Orders : Counts(p) => EndOf(p) <= w'[x].start
    BY <1>1, <2>1, InsertsIs DEF IInv, OrderOf
  <2>3. captured[o] \in Nat
    BY <1>1, BoundsArePositive DEF IInv, TypeOK
  <2>4. ~Granted(o) => w'[x].start # 0
    BY <1>1, <2>2, <2>3
  <2>5. WorkerOK(x)'
    BY <1>1, <2>1, <2>2, <2>4
       DEF WorkerOK, At, OrderOf, InTransaction, Holding, Granted, Sold, Counts, EndOf
  <2> QED BY <1>2, <2>2, <2>5, SteadyStep
<1>4. CASE Ends(x)
  <2>1. w'[x].pc = "idle" /\ OthersStay(x)
    BY <1>4, EndsIs DEF IInv
  <2> QED BY <1>2, <2>1, SteadyStep DEF WorkerOK, At, InTransaction, Holding
<1> QED BY <1>3, <1>4 DEF Grant, VisitGrant, Holding

\* A worker that goes back to idle, or to a step of which nothing is known.
LEMMA LeavesShop ==
    ASSUME IInv, Steady, NEW x \in Workers, OthersStay(x), w'[x].pc \in {"idle", "fail"}
    PROVE  ShopInv'
<1>1. WorkerOK(x)'
  BY DEF WorkerOK, At, InTransaction, Holding
<1>2. w'[x].pc \notin Holding
  BY DEF Holding
<1> QED BY <1>1, <1>2, SteadyStep

LEMMA FinishShop ==
    ASSUME IInv, NEW x \in Workers, Finish(x)
    PROVE  ShopInv'
<1>1. OrderOf(x) \in Orders /\ UNCHANGED <<captured, order, ent>>
  BY DEF Finish, At, IInv, TypeOK
<1>2. ASSUME NEW o \in Orders, event'[o].status = "processed" PROVE Granted(o)
  <2>1. CASE event[o].status = "processed"
    BY <2>1 DEF IInv, ShopInv, OrderOK
  <2>2. CASE event[o].status # "processed"
    <3>1. PICK s \in {"processed", "failed"} : Closes(x, s) /\ (s = "processed" => At(x, "finish"))
      BY DEF Finish
    <3>2. event' = [event EXCEPT ![OrderOf(x)] = IF event[OrderOf(x)].token = x
                        THEN [status |-> s, token |-> None] ELSE event[OrderOf(x)]]
      BY <1>1, <3>1 DEF Closes, IInv, TypeOK
    <3>3. o = OrderOf(x) /\ s = "processed"
      BY <1>1, <1>2, <2>2, <3>2 DEF IInv, TypeOK
    <3> QED BY <3>1, <3>3 DEF IInv, ShopInv, WorkerOK
  <2> QED BY <2>1, <2>2
<1>3. Steady
  BY <1>1, <1>2 DEF Steady, IInv, ShopInv, OrderOK, Sold
<1>4. w'[x].pc = "idle" /\ OthersStay(x)
  BY EndsIs DEF Finish, IInv
<1> QED BY <1>3, <1>4, LeavesShop

\* A write that the trigger allows un-sells no order.
LEMMA WriteIsSteady ==
    ASSUME IInv, NEW o \in Orders, UNCHANGED <<captured, event, ent>>,
           NEW s \in {"paid", "pending", "canceled"}, s = "paid" => captured[o] # 0,
           order' = order \/ (MayBecome(o, s) /\ order' = [order EXCEPT ![o].status = s])
    PROVE  Steady
<1>1. ASSUME NEW p \in Orders
      PROVE  /\ Sold(p) => order'[p].status = order[p].status
             /\ order'[p].status = "refunded" => Sold(p)
             /\ order'[p].status = "paid" => captured[p] # 0
  <2>1. order[p].status = "paid" => captured[p] # 0
    BY DEF IInv, ShopInv, OrderOK
  <2>2. CASE order'[p].status = order[p].status
    BY <2>1, <2>2 DEF Sold
  <2>3. CASE order'[p].status # order[p].status
    <3>1. p = o /\ order'[p].status = s /\ MayBecome(o, s)
      BY <2>3 DEF IInv, TypeOK
    <3> QED BY <3>1, <2>3 DEF MayBecome, Sold
  <2> QED BY <2>2, <2>3
<1> QED BY <1>1 DEF Steady, IInv, ShopInv, OrderOK

LEMMA WritingShop ==
    ASSUME IInv, NEW x \in Workers, VisitPay(x) \/ VisitPending(x) \/ Cancel(x)
    PROVE  ShopInv'
<1> DEFINE o == OrderOf(x)
<1>1. o \in Orders /\ UNCHANGED <<captured, event, ent>>
  BY DEF VisitPay, VisitPending, Cancel, Writes, At, IInv, TypeOK
<1>2. CASE VisitPay(x)
  <2>1. captured[o] # 0
    BY <1>2 DEF VisitPay, IInv, ShopInv, WorkerOK, At
  <2>2. Steady
    BY <1>1, <1>2, <2>1, WriteIsSteady DEF VisitPay, Writes
  <2>3. CASE Ends(x)
    BY <2>2, <2>3, EndsIs, LeavesShop DEF IInv
  <2>4. CASE Goto(x, "visitGrant")
    <3>1. w'[x].pc = "visitGrant" /\ w'[x].order = o /\ OthersStay(x)
      BY <2>4, GotoIs DEF IInv, OrderOf
    <3>2. WorkerOK(x)'
      BY <1>1, <2>1, <3>1 DEF WorkerOK, At, OrderOf, InTransaction, Holding
    <3>3. w'[x].pc \notin Holding
      BY <3>1 DEF Holding
    <3> QED BY <2>2, <3>1, <3>2, <3>3, SteadyStep
  <2> QED BY <1>2, <2>3, <2>4 DEF VisitPay, Writes
<1>3. CASE VisitPending(x) \/ Cancel(x)
  <2>1. PICK s \in {"pending", "canceled"} :
           order' = [order EXCEPT ![o].status = IF MayBecome(o, s) THEN s ELSE @]
    BY <1>3 DEF VisitPending, Cancel
  <2>2. order' = order \/ (MayBecome(o, s) /\ order' = [order EXCEPT ![o].status = s])
    <3>1. CASE MayBecome(o, s)
      BY <2>1, <3>1
    <3>2. CASE ~MayBecome(o, s)
      <4>1. order[o] \in [status : Statuses, provider : BOOLEAN]
        BY <1>1 DEF IInv, TypeOK
      <4>2. [order[o] EXCEPT !.status = order[o].status] = order[o]
        BY <4>1
      <4>3. order' = [order EXCEPT ![o] = order[o]]
        BY <1>1, <2>1, <3>2, <4>2 DEF IInv, TypeOK
      <4> QED BY <4>3 DEF IInv, TypeOK
    <3> QED BY <3>1, <3>2
  <2>3. Steady
    BY <1>1, <2>2, WriteIsSteady
  <2>4. w'[x].pc = "idle" /\ OthersStay(x)
    BY <1>3, EndsIs DEF VisitPending, Cancel, IInv
  <2> QED BY <2>3, <2>4, LeavesShop
<1> QED BY <1>2, <1>3

LEMMA WorkerFaultShop ==
    ASSUME IInv, NEW x \in Workers, Throw(x) \/ Crash(x)
    PROVE  ShopInv'
<1>1. UNCHANGED <<captured, order, event, ent>>
  BY DEF Throw, Crash
<1>2. Steady
  BY <1>1 DEF Steady, IInv, ShopInv, OrderOK, Sold
<1>3. w'[x].pc \in {"idle", "fail"} /\ OthersStay(x)
  <2>1. CASE Ends(x)
    BY <2>1, EndsIs DEF IInv
  <2>2. CASE Goto(x, "fail")
    BY <2>2, GotoIs DEF IInv
  <2>3. CASE w' = [w EXCEPT ![x].pc = "fail", ![x].start = 0]
    <3>1. w[x] \in Locals
      BY DEF IInv, TypeOK
    <3> QED BY <2>3, <3>1 DEF IInv, TypeOK, OthersStay, Locals
  <2> QED BY <2>1, <2>2, <2>3 DEF Throw, Crash
<1> QED BY <1>2, <1>3, LeavesShop

-----------------------------------------------------------------------------
(* Steps that move access *)

\* An entitlement is committed: it is behind all the others that count, and its worker was
\* the only one that holds the lock.
LEMMA PublishShop ==
    ASSUME IInv, NEW x \in Workers, w[x].pc \in Holding, Publishes(x), OthersStay(x),
           UNCHANGED <<captured, event>>,
           \/ UNCHANGED order /\ At(x, "visitCommit")
           \/ order' = [order EXCEPT ![OrderOf(x)].status = "paid"] /\ At(x, "commit"),
           w'[x].pc \in {"idle", "fail", "finish"}, w'[x].order = w[x].order \/ w'[x].pc = "idle"
    PROVE  ShopInv'
<1>0. PICK o \in Orders : o = OrderOf(x)
  BY DEF IInv, TypeOK, At, Holding
<1> DEFINE start == w[x].start
<1>1. /\ start \in Nat /\ WorkerOK(x) /\ captured[o] # 0
      /\ captured[o] \in Nat
  <2>1. w[x].pc # "idle"
    BY DEF Holding
  <2> QED BY <2>1, <1>0, BoundsArePositive DEF IInv, TypeOK, ShopInv, WorkerOK, At, Locals, OrderOf, Holding
<1>2. /\ Granted(o) \/ start # 0
      /\ start # 0 => /\ ~Granted(o)
                      /\ start >= captured[o]
                      /\ \A p \in Orders : Counts(p) => EndOf(p) <= start
  BY <1>0, <1>1 DEF WorkerOK
<1>3. \A p \in Orders \ {o} : order'[p] = order[p] /\ ent'[p] = ent[p]
  BY <1>0 DEF Publishes, IInv, TypeOK
<1>4. /\ ent'[o].start = (IF start = 0 THEN ent[o].start ELSE start)
      /\ ent'[o].revoked = ent[o].revoked
  BY <1>0 DEF Publishes, IInv, TypeOK, Entitlements
<1>5. /\ order'[o].status \in {"paid", "refunded"}
      /\ order[o].status = "refunded" => order'[o].status = "refunded"
      /\ order[o].status = "paid" => order'[o].status = "paid"
      /\ order'[o].status = "refunded" => order[o].status = "refunded"
  <2>1. CASE UNCHANGED order /\ At(x, "visitCommit")
    BY <1>0, <1>1, <2>1 DEF WorkerOK, Sold
  <2>2. CASE order' = [order EXCEPT ![o].status = "paid"] /\ At(x, "commit")
    <3>1. order[o].status # "refunded"
      BY <1>0, <1>1, <2>2 DEF WorkerOK, At, InTransaction
    <3>2. order'[o].status = "paid"
      BY <1>0, <1>1, <2>2 DEF IInv, TypeOK
    <3> QED BY <3>1, <3>2
  <2> QED BY <1>0, <2>1, <2>2
<1>6. Granted(o)'
  BY <1>1, <1>2, <1>4 DEF Granted
<1>7. ASSUME NEW p \in Orders \ {o}
      PROVE  (Granted(p)' <=> Granted(p)) /\ (Counts(p)' <=> Counts(p)) /\ EndOf(p)' = EndOf(p)
  BY <1>3 DEF Granted, Counts, EndOf
<1>8. /\ start = 0 /\ Counts(o)' => Counts(o)
      /\ start = 0 => ent'[o].start = ent[o].start /\ EndOf(o)' = EndOf(o) /\ Granted(o)
      /\ start # 0 => ent'[o].start = start /\ ~Granted(o)
  <2>1. start = 0 => Granted(o)
    BY <1>2
  <2>2. Granted(o) => order[o].status \in {"paid", "refunded"}
    BY <1>1 DEF IInv, ShopInv, OrderOK, Sold
  <2> QED BY <1>2, <1>4, <1>5, <2>1, <2>2 DEF Counts, Granted, EndOf
<1>9. ASSUME NEW p \in Orders PROVE OrderOK(p)'
  <2>1. OrderOK(p)
    BY DEF IInv, ShopInv
  <2>2. CASE p = o
    BY <2>1, <2>2, <1>1, <1>2, <1>5, <1>6, <1>8 DEF OrderOK, Sold
  <2>3. CASE p # o
    BY <2>1, <2>3, <1>3, <1>7 DEF OrderOK, Sold
  <2> QED BY <2>2, <2>3
<1>10. AccessIsOneChain'
  <2>1. AccessIsOneChain
    BY DEF IInv, ShopInv
  <2>2. ASSUME NEW p \in Orders \ {o}, Counts(p)', Counts(o)'
        PROVE  EndOf(p)' <= ent'[o].start \/ EndOf(o)' <= ent'[p].start
    <3>1. CASE start = 0
      BY <1>1, <1>3, <1>7, <1>8, <2>1, <2>2, <3>1 DEF AccessIsOneChain
    <3>2. CASE start # 0
      BY <1>2, <1>7, <1>8, <2>2, <3>2
    <3> QED BY <3>1, <3>2
  <2>3. ASSUME NEW p \in Orders \ {o}, NEW q \in Orders \ {o}, p # q, Counts(p)', Counts(q)'
        PROVE  EndOf(p)' <= ent'[q].start \/ EndOf(q)' <= ent'[p].start
    BY <1>3, <1>7, <2>1, <2>3 DEF AccessIsOneChain
  <2> QED BY <2>2, <2>3 DEF AccessIsOneChain
<1>11. ASSUME NEW y \in Workers, y # x PROVE w'[y] = w[y] /\ w[y].pc \notin Holding
  BY <1>11 DEF OthersStay, IInv, ShopInv, OneHolder
<1>12. OneHolder'
  BY <1>11 DEF OneHolder, Holding
<1>13. ASSUME NEW y \in Workers PROVE WorkerOK(y)'
  <2>1. CASE y = x
    <3>1. w'[x].pc = "finish" => w'[x].order = o
      BY <1>0 DEF OrderOf
    <3> QED BY <2>1, <3>1, <1>6 DEF WorkerOK, At, OrderOf, InTransaction, Holding, Granted
  <2>2. CASE y # x /\ w[y].pc = "idle"
    BY <2>2, <1>11 DEF WorkerOK, At, InTransaction, Holding
  <2>3. CASE y # x /\ w[y].pc # "idle"
    <3>1. PICK q \in Orders : q = w[y].order
      BY <2>3 DEF IInv, TypeOK, At, OrderOf
    <3>2. /\ Granted(q) => Granted(q)'
          /\ order[q].status # "refunded" => order'[q].status # "refunded"
      BY <1>3, <1>5, <1>6, <1>7
    <3>3. WorkerOK(y)
      BY DEF IInv, ShopInv
    <3> QED BY <2>3, <3>1, <3>2, <3>3, <1>11 DEF WorkerOK, At, OrderOf, Holding
  <2> QED BY <2>1, <2>2, <2>3
<1> QED BY <1>9, <1>10, <1>12, <1>13 DEF ShopInv

LEMMA CommittingShop ==
    ASSUME IInv, NEW x \in Workers, Commit(x) \/ LoseCommit(x) \/ VisitCommit(x)
    PROVE  ShopInv'
<1>1. w[x].pc \in Holding
  BY DEF Commit, LoseCommit, Commits, VisitCommit, Holding, At
<1>2. CASE Commit(x) \/ LoseCommit(x)
  <2>1. w'[x].pc \in {"finish", "fail"} /\ w'[x].order = w[x].order /\ OthersStay(x)
    BY <1>2, GotoIs DEF Commit, LoseCommit, IInv
  <2> QED BY <1>1, <1>2, <2>1, PublishShop DEF Commit, LoseCommit, Commits
<1>3. CASE VisitCommit(x)
  <2>1. w'[x].pc = "idle" /\ OthersStay(x)
    BY <1>3, EndsIs DEF VisitCommit, IInv
  <2> QED BY <1>1, <1>3, <2>1, PublishShop DEF VisitCommit
<1> QED BY <1>2, <1>3

\* The loop of the trigger packs what is left behind the moments of payment.
LEMMA CompactIsPacked ==
    ASSUME TypeOK, NEW left \in SUBSET Orders, NEW starts \in [left -> Int], IsCompact(starts, left)
    PROVE  Packed(starts, captured, left)
<1>1. ASSUME NEW q \in left
      PROVE  /\ starts[q] >= captured[q]
             /\ \A p \in left : Precedes(captured, p, q) => starts[p] + Duration[p] <= starts[q]
             /\ \/ starts[q] = captured[q]
                \/ \E p \in left : Precedes(captured, p, q) /\ starts[q] = starts[p] + Duration[p]
  <2> DEFINE S == {p \in left : Precedes(captured, p, q)}
             f == [p \in S |-> starts[p] + Duration[p]]
             T == {captured[q]} \cup {starts[p] + Duration[p] : p \in S}
  <2>1. S = {p \in left : Before(p, q)}
    BY DEF Before, Precedes
  <2>2. starts[q] = Max(T)
    BY <2>1 DEF IsCompact
  <2>3. IsFiniteSet(S)
    <3>1. S \in SUBSET Orders
      OBVIOUS
    <3> HIDE DEF S
    <3> QED BY <3>1, FS_Subset, OrdersAreIds
  <2>4. f \in [S -> Int] /\ T = {captured[q]} \cup {f[p] : p \in S}
    BY DurationsArePositive
  <2>5. captured[q] \in Int
    BY DEF TypeOK
  <2>6. /\ Max(T) \in Int
        /\ Max(T) >= captured[q]
        /\ \A p \in S : Max(T) >= f[p]
        /\ Max(T) = captured[q] \/ \E p \in S : Max(T) = f[p]
    <3>1. /\ Max(T) \in Int
          /\ Max(T) >= captured[q]
          /\ \A p \in S : Max(T) >= f[p]
          /\ Max(T) \in T
      <4> HIDE DEF S, f, T
      <4> QED BY <2>3, <2>4, <2>5, Latest, ZenonT(60)
    <3>2. Max(T) = captured[q] \/ \E p \in S : Max(T) = f[p]
      <4> HIDE DEF S, f, T
      <4> QED BY <3>1, <2>4
    <3> HIDE DEF S, f, T
    <3> QED BY <3>1, <3>2
  <2>7. \A p \in S : f[p] = starts[p] + Duration[p] /\ f[p] \in Int
    BY DurationsArePositive
  <2>8. S \subseteq left /\ \A p \in left : Precedes(captured, p, q) <=> p \in S
    OBVIOUS
  <2>9. \A p \in left : Precedes(captured, p, q) => starts[p] + Duration[p] <= starts[q]
    <3> HIDE DEF S, f, T
    <3> QED BY <2>2, <2>6, <2>7, <2>8
  <2>10. starts[q] = captured[q] \/ \E p \in left : Precedes(captured, p, q) /\ starts[q] = starts[p] + Duration[p]
    <3> HIDE DEF S, f, T
    <3> QED BY <2>2, <2>6, <2>7, <2>8
  <2>11. starts[q] >= captured[q]
    <3> HIDE DEF S, f, T
    <3> QED BY <2>2, <2>6
  <2> QED BY <2>9, <2>10, <2>11
<1> QED BY <1>1 DEF Packed

\* A refund takes the access of its order, and moves the rest together: what is left is
\* still one chain, and ends no later than before.
LEMMA RevokeIs ==
    ASSUME IInv, NEW o \in Orders, Granted(o), Revoke(o)
    PROVE  /\ \A p \in Orders : p # o => ent'[p].revoked = ent[p].revoked
           /\ ent'[o].start = ent[o].start
           /\ \A p \in Orders \ Left(o) : ent'[p].start = ent[p].start
           /\ \A p \in Left(o) : ent'[p].start \in Nat /\ ent'[p].start # 0 /\ ent'[p].start >= captured[p]
           /\ \A p, q \in Left(o) : p # q =>
                 \/ ent'[p].start + Duration[p] <= ent'[q].start
                 \/ ent'[q].start + Duration[q] <= ent'[p].start
           /\ \A limit \in Int :
                 (\A p \in Orders : Counts(p) => EndOf(p) <= limit) =>
                     \A p \in Left(o) : ent'[p].start + Duration[p] <= limit
<1> DEFINE left == Left(o)
<1>1. PICK starts \in [left -> 1..Horizon] :
         /\ IsCompact(starts, left)
         /\ ent' = [p \in Orders |->
                       IF p = o THEN [ent[p] EXCEPT !.revoked = TRUE]
                       ELSE IF p \in left THEN [ent[p] EXCEPT !.start = starts[p]] ELSE ent[p]]
  BY DEF Revoke
<1>2. left \in SUBSET Orders /\ o \notin left /\ \A p \in left : Counts(p)
  BY DEF Left
<1>3. starts \in [left -> Int] /\ \A p \in left : starts[p] \in Nat /\ starts[p] # 0
  <2> HIDE DEF left
  <2> QED BY HorizonType
<1>4. \A p \in Orders : ent[p] \in Entitlements
  BY DEF IInv, TypeOK
<1>5. \A p \in left : ent'[p].start = starts[p] /\ ent'[p].revoked = ent[p].revoked
  <2> HIDE DEF left
  <2> QED BY <1>1, <1>2, <1>4 DEF Entitlements
<1>6. /\ \A p \in Orders : p # o => ent'[p].revoked = ent[p].revoked
      /\ \A p \in Orders \ left : ent'[p].start = ent[p].start
      /\ ent'[o].start = ent[o].start
  <2> HIDE DEF left
  <2> QED BY <1>1, <1>2, <1>4, <1>5 DEF Entitlements
<1>7. Packed(starts, captured, left)
  <2> HIDE DEF left
  <2> QED BY <1>1, <1>2, <1>3, CompactIsPacked DEF IInv
<1>8. \A p \in left : starts[p] >= captured[p]
  BY <1>7 DEF Packed
<1>9. ASSUME NEW p \in left, NEW q \in left, p # q
      PROVE  starts[p] + Duration[p] <= starts[q] \/ starts[q] + Duration[q] <= starts[p]
  <2>1. p \in Nat /\ q \in Nat /\ captured[p] \in Int /\ captured[q] \in Int
    <3>1. p \in Orders /\ q \in Orders
      BY <1>2
    <3>2. captured \in [Orders -> 0..MaxTime]
      BY DEF IInv, TypeOK
    <3> QED BY <3>1, <3>2, OrdersAreIds
  <2>2. Precedes(captured, p, q) \/ Precedes(captured, q, p)
    BY <1>9, <2>1 DEF Precedes
  <2> QED BY <1>7, <2>2 DEF Packed
<1>10. ASSUME NEW limit \in Int, \A p \in Orders : Counts(p) => EndOf(p) <= limit
       PROVE  \A p \in left : starts[p] + Duration[p] <= limit
  <2> DEFINE s == [p \in left |-> ent[p].start]
  <2>1. s \in [left -> Int]
    BY <1>2, <1>4 DEF Entitlements
  <2>2. captured \in [Orders -> Nat]
    BY BoundsArePositive DEF IInv, TypeOK
  <2>3. Feasible(s, captured, left, limit)
    <3>1. ASSUME NEW p \in left
          PROVE  s[p] >= captured[p] /\ s[p] + Duration[p] <= limit
      <4>1. Counts(p) /\ p \in Orders /\ s[p] = ent[p].start
        BY <1>2
      <4> QED BY <4>1, <1>10 DEF IInv, ShopInv, OrderOK, EndOf
    <3>2. ASSUME NEW p \in left, NEW q \in left, p # q
          PROVE  s[p] + Duration[p] <= s[q] \/ s[q] + Duration[q] <= s[p]
      <4>1. Counts(p) /\ p \in Orders /\ s[p] = ent[p].start
        BY <1>2
      <4>2. Counts(q) /\ q \in Orders /\ s[q] = ent[q].start
        BY <1>2
      <4> QED BY <4>1, <4>2, <3>2 DEF IInv, ShopInv, AccessIsOneChain, EndOf
    <3> HIDE DEF s, left
    <3> QED BY <3>1, <3>2 DEF Feasible
  <2> HIDE DEF s, left
  <2> QED BY <1>2, <1>3, <1>7, <2>1, <2>2, <2>3, Compaction
<1> QED BY <1>3, <1>5, <1>6, <1>8, <1>9, <1>10

\* The same, whether the order had access or not, in the terms of the invariant.
LEMMA RefundedAccess ==
    ASSUME IInv, NEW o \in Orders, order[o].status = "paid", Revoke(o), UNCHANGED captured,
           order' = [order EXCEPT ![o].status = "refunded"]
    PROVE  /\ \A p \in Orders : Granted(p)' <=> Granted(p)
           /\ ~Counts(o)'
           /\ \A p \in Orders : Counts(p)' => Counts(p) /\ ent'[p].start >= captured[p]
           /\ AccessIsOneChain'
           /\ \A limit \in Int :
                 (\A p \in Orders : Counts(p) => EndOf(p) <= limit) =>
                     \A p \in Orders : Counts(p)' => EndOf(p)' <= limit
<1>1. order'[o].status = "refunded" /\ \A p \in Orders : p # o => order'[p] = order[p]
  BY DEF IInv, TypeOK
<1>2. CASE ~Granted(o)
  <2>1. ent' = ent
    BY <1>2 DEF Revoke
  <2>2. \A p \in Orders : /\ Granted(p)' <=> Granted(p)
                          /\ Counts(p)' => Counts(p)
                          /\ EndOf(p)' = EndOf(p)
    BY <1>1, <2>1 DEF Granted, Counts, EndOf
  <2>3. ~Counts(o)'
    BY <1>1 DEF Counts
  <2>4. \A p \in Orders : Counts(p) => ent[p].start >= captured[p]
    BY DEF IInv, ShopInv, OrderOK
  <2>5. AccessIsOneChain'
    BY <2>1, <2>2 DEF IInv, ShopInv, AccessIsOneChain
  <2> QED BY <2>1, <2>2, <2>3, <2>4, <2>5
<1>3. CASE Granted(o)
  <2>1. /\ \A p \in Orders : p # o => ent'[p].revoked = ent[p].revoked
        /\ ent'[o].start = ent[o].start
        /\ \A p \in Orders \ Left(o) : ent'[p].start = ent[p].start
        /\ \A p \in Left(o) : ent'[p].start \in Nat /\ ent'[p].start # 0 /\ ent'[p].start >= captured[p]
        /\ \A p, q \in Left(o) : p # q =>
              \/ ent'[p].start + Duration[p] <= ent'[q].start
              \/ ent'[q].start + Duration[q] <= ent'[p].start
        /\ \A limit \in Int :
              (\A p \in Orders : Counts(p) => EndOf(p) <= limit) =>
                  \A p \in Left(o) : ent'[p].start + Duration[p] <= limit
    BY <1>3, RevokeIs
  <2>2. \A p \in Left(o) : p \in Orders /\ p # o /\ Granted(p)
    BY DEF Left, Counts
  <2>3. ASSUME NEW p \in Orders PROVE Granted(p)' <=> Granted(p)
    <3>1. CASE p \in Left(o)
      BY <3>1, <2>1, <2>2 DEF Granted
    <3>2. CASE p \notin Left(o)
      BY <3>2, <2>1 DEF Granted
    <3> QED BY <3>1, <3>2
  <2>4. ~Counts(o)'
    BY <1>1 DEF Counts
  <2>5. ASSUME NEW p \in Orders, Counts(p)' PROVE Counts(p) /\ p \in Left(o)
    <3>1. p # o
      BY <2>4, <2>5
    <3>2. Counts(p)
      BY <3>1, <1>1, <2>1, <2>3, <2>5 DEF Counts
    <3> QED BY <3>1, <3>2 DEF Left
  <2>6. AccessIsOneChain'
    BY <2>1, <2>5 DEF AccessIsOneChain, EndOf
  <2>7. \A p \in Orders : EndOf(p)' = ent'[p].start + Duration[p]
    BY DEF EndOf
  <2> QED BY <2>1, <2>3, <2>4, <2>5, <2>6, <2>7
<1> QED BY <1>2, <1>3

LEMMA RefundedShop ==
    ASSUME IInv, NEW o \in Orders, order[o].status = "paid", RowIsFree(o), Revoke(o),
           UNCHANGED <<captured, event, w>>, order' = [order EXCEPT ![o].status = "refunded"]
    PROVE  ShopInv'
<1>1. order'[o].status = "refunded" /\ \A p \in Orders : p # o => order'[p] = order[p]
  BY DEF IInv, TypeOK
<1>2. /\ \A p \in Orders : Granted(p)' <=> Granted(p)
      /\ \A p \in Orders : Counts(p)' => Counts(p) /\ ent'[p].start >= captured[p]
      /\ AccessIsOneChain'
      /\ \A limit \in Int :
            (\A p \in Orders : Counts(p) => EndOf(p) <= limit) =>
                \A p \in Orders : Counts(p)' => EndOf(p)' <= limit
  BY RefundedAccess
<1>3. \A p \in Orders : Sold(p) => Sold(p)'
  BY <1>1 DEF Sold
<1>4. ASSUME NEW p \in Orders PROVE OrderOK(p)'
  <2>1. OrderOK(p)
    BY DEF IInv, ShopInv
  <2>2. order'[p].status = "paid" => order[p].status = "paid"
    BY <1>1
  <2> QED BY <2>1, <2>2, <1>2, <1>3 DEF OrderOK
<1>5. ASSUME NEW x \in Workers PROVE WorkerOK(x)'
  <2>1. CASE w[x].pc = "idle"
    BY <2>1 DEF WorkerOK, At, InTransaction, Holding
  <2>2. CASE w[x].pc # "idle"
    <3>1. PICK q \in Orders : q = w[x].order
      BY <2>2 DEF IInv, TypeOK, At, OrderOf
    <3>2. WorkerOK(x) /\ w[x].start \in Int
      BY DEF IInv, ShopInv, TypeOK, Locals
    <3>3. w[x].pc \in InTransaction => order'[q].status # "refunded"
      <4>1. w[x].pc \in InTransaction => q # o
        BY <3>1 DEF RowIsFree, OrderOf
      <4> QED BY <4>1, <3>1, <3>2, <1>1 DEF WorkerOK, OrderOf
    <3>4. (\A p \in Orders : Counts(p) => EndOf(p) <= w[x].start) =>
              \A p \in Orders : Counts(p)' => EndOf(p)' <= w[x].start
      BY <1>2, <3>2
    <3>5. (Granted(q)' <=> Granted(q)) /\ (Sold(q) => Sold(q)')
      BY <1>2, <1>3
    <3> QED BY <3>1, <3>2, <3>3, <3>4, <3>5 DEF WorkerOK, At, OrderOf
  <2> QED BY <2>1, <2>2
<1>6. OneHolder'
  BY DEF IInv, ShopInv, OneHolder
<1> QED BY <1>2, <1>4, <1>5, <1>6 DEF ShopInv

LEMMA NoteStateShop ==
    ASSUME IInv, NEW r \in Refunds, refund[r].order \in Orders, NEW s, NoteState(r, s)
    PROVE  ShopInv'
<1> DEFINE o == refund[r].order
<1>1. UNCHANGED <<captured, event, w>> /\ RowIsFree(o)
  BY DEF NoteState
<1>2. CASE UNCHANGED <<order, ent>>
  BY <1>1, <1>2, ShopStays DEF shop
<1>3. CASE /\ order' = [order EXCEPT ![o].status = "refunded"] /\ Revoke(o)
           /\ order[o].status = "paid"
  BY <1>1, <1>3, RefundedShop
<1> QED BY <1>2, <1>3 DEF NoteState

-----------------------------------------------------------------------------
(* Money that was given back *)

\* The rows of refunds that are finished keep what the sum is made of.
LEMMA TotalStays ==
    ASSUME NEW given \in SUBSET Refunds, \A q \in given : refund'[q].amount = refund[q].amount
    PROVE  Total(given)' = Total(given)
<1>1. [q \in given |-> refund'[q].amount] = [q \in given |-> refund[q].amount]
  OBVIOUS
<1>2. Total(given)' = SumOf([q \in given |-> refund'[q].amount])
  BY DEF Total
<1> QED BY <1>1, <1>2 DEF Total

LEMMA GivenBackStays ==
    ASSUME NEW o \in Orders, GivenBack(o),
           \A q \in Refunds : robo[q] = "finished" =>
              /\ robo'[q] = "finished"
              /\ refund'[q].order = refund[q].order
              /\ refund'[q].amount = refund[q].amount
    PROVE  GivenBack(o)'
<1>1. PICK given \in SUBSET {r \in Refunds : refund[r].order = o /\ robo[r] = "finished"} : Total(given) = Price
  BY DEF GivenBack
<1>2. given \in SUBSET Refunds /\ \A q \in given : refund'[q].amount = refund[q].amount
  OBVIOUS
<1>3. Total(given)' = Price
  BY <1>1, <1>2, TotalStays
<1>4. given \in SUBSET {r \in Refunds : refund'[r].order = o /\ robo'[r] = "finished"}
  OBVIOUS
<1> QED BY <1>3, <1>4 DEF GivenBack

\* What is left to show when a step is about one refund, or about none.
LEMMA BackStep ==
    ASSUME IInv, NEW r \in Refunds,
           \A q \in Refunds \ {r} :
              refund'[q] = refund[q] /\ robo'[q] = robo[q] /\ ask'[q] = ask[q] /\ answers'[q] = answers[q],
           RefundOK(r)',
           robo[r] = "finished" =>
              robo'[r] = "finished" /\ refund'[r].order = refund[r].order /\ refund'[r].amount = refund[r].amount,
           \A o \in Orders : order'[o].status = "refunded" => order[o].status = "refunded" \/ GivenBack(o)'
    PROVE  BackInv'
<1>1. \A q \in Refunds : RefundOK(q)'
  <2> TAKE q \in Refunds
  <2>1. CASE q = r
    BY <2>1
  <2>2. CASE q # r
    BY <2>2 DEF IInv, BackInv, RefundOK
  <2> QED BY <2>1, <2>2
<1>2. ASSUME NEW o \in Orders, order'[o].status = "refunded" PROVE GivenBack(o)'
  BY <1>2, GivenBackStays DEF IInv, BackInv
<1> QED BY <1>1, <1>2 DEF BackInv

LEMMA BackStays ==
    ASSUME IInv, UNCHANGED back,
           \A o \in Orders : order'[o].status = "refunded" => order[o].status = "refunded"
    PROVE  BackInv'
<1>1. UNCHANGED <<refund, robo, ask, answers>>
  BY DEF back
<1>2. \A q \in Refunds : RefundOK(q)'
  BY <1>1 DEF IInv, BackInv, RefundOK
<1>3. ASSUME NEW o \in Orders, order'[o].status = "refunded" PROVE GivenBack(o)'
  BY <1>1, <1>3, GivenBackStays DEF IInv, BackInv
<1> QED BY <1>2, <1>3 DEF BackInv

\* No page and no notification gives an order back.
LEMMA ShopBack ==
    ASSUME IInv,
           \/ \E o \in Orders : Offer(o) \/ Capture(o)
           \/ \E x \in Workers : \E o \in Orders : Deliver(x, o) \/ Visit(x, o) \/ VisitCancel(x, o)
           \/ \E x \in Workers : WorkerStep(x) \/ Throw(x) \/ LoseCommit(x) \/ Crash(x)
    PROVE  BackInv'
<1>1. UNCHANGED back
  BY DEF Offer, Capture, Deliver, Visit, VisitCancel, WorkerStep, Pay, Grant, Commit, Commits, Finish,
         VisitPay, Writes, VisitPending, VisitGrant, VisitCommit, Cancel, Throw, LoseCommit, Crash
<1>2. \/ UNCHANGED order
      \/ \E o \in Orders : order' = [order EXCEPT ![o] = [status |-> "pending", provider |-> TRUE]]
      \/ \E o \in Orders : \E s \in {"unavailable", "failed", "paid"} : order' = [order EXCEPT ![o].status = s]
      \/ \E o \in Orders : \E s \in {"pending", "canceled"} :
            order' = [order EXCEPT ![o].status = IF MayBecome(o, s) THEN s ELSE @]
  <2>1. ASSUME NEW o \in Orders, Offer(o)
        PROVE  \/ order' = [order EXCEPT ![o] = [status |-> "pending", provider |-> TRUE]]
               \/ \E s \in {"unavailable", "failed", "paid"} : order' = [order EXCEPT ![o].status = s]
    BY <2>1 DEF Offer
  <2>2. ASSUME NEW x \in Workers, Commits(x) \/ VisitPay(x)
        PROVE  UNCHANGED order \/ \E o \in Orders : order' = [order EXCEPT ![o].status = "paid"]
    <3>1. OrderOf(x) \in Orders
      BY <2>2 DEF IInv, TypeOK, At, Commits, VisitPay
    <3> QED BY <2>2, <3>1 DEF Commits, VisitPay, Writes
  <2>3. ASSUME NEW x \in Workers, VisitPending(x) \/ Cancel(x)
        PROVE  \E o \in Orders : \E s \in {"pending", "canceled"} :
                  order' = [order EXCEPT ![o].status = IF MayBecome(o, s) THEN s ELSE @]
    <3>1. OrderOf(x) \in Orders
      BY <2>3 DEF IInv, TypeOK, At, VisitPending, Cancel
    <3> QED BY <2>3, <3>1 DEF VisitPending, Cancel
  <2>4. \/ UNCHANGED order
        \/ \E o \in Orders : Offer(o)
        \/ \E x \in Workers : Commits(x) \/ VisitPay(x) \/ VisitPending(x) \/ Cancel(x)
    BY DEF Capture, shop, Deliver, Visit, VisitCancel, WorkerStep, Pay, Grant, Commit, Finish,
           VisitGrant, VisitCommit, Throw, LoseCommit, Crash
  <2> QED BY <2>1, <2>2, <2>3, <2>4
<1>3. \A o \in Orders : order'[o].status = "refunded" => order[o].status = "refunded"
  BY <1>2 DEF IInv, TypeOK
<1> QED BY <1>1, <1>3, BackStays

LEMMA RequestRefundBack ==
    ASSUME IInv, NEW r \in Refunds, NEW o \in Orders, RequestRefund(r, o)
    PROVE  BackInv'
<1>1. refund[r].status = "absent" /\ UNCHANGED <<order, robo, answers>>
  BY DEF RequestRefund, shop
<1>2. robo[r] = "unknown" /\ answers[r] = {}
  BY <1>1 DEF IInv, BackInv, RefundOK
<1>3. refund'[r].status = "creating" /\ \A q \in Refunds \ {r} : refund'[q] = refund[q] /\ ask'[q] = ask[q]
  BY DEF RequestRefund, IInv, TypeOK
<1>4. RefundOK(r)'
  BY <1>1, <1>2, <1>3 DEF RefundOK
<1> QED BY <1>1, <1>2, <1>3, <1>4, BackStep

LEMMA AskBack ==
    ASSUME IInv, NEW r \in Refunds,
           AskRobokassa(r) \/ LoseAnswer(r) \/ CrashRefund(r) \/ Settle(r) \/ AskState(r)
    PROVE  BackInv'
<1>1. UNCHANGED <<order, refund>>
  BY DEF AskRobokassa, LoseAnswer, CrashRefund, Settle, AskState, shop
<1>2. \A q \in Refunds \ {r} : robo'[q] = robo[q] /\ ask'[q] = ask[q] /\ answers'[q] = answers[q]
  BY DEF AskRobokassa, LoseAnswer, CrashRefund, Settle, AskState, IInv, TypeOK
<1>3. RefundOK(r)
  BY DEF IInv, BackInv
<1>4. RefundOK(r)' /\ (robo[r] = "finished" => robo'[r] = "finished")
  <2>1. CASE AskRobokassa(r) \/ LoseAnswer(r)
    <3>1. ask[r] = "call" /\ robo[r] = "unknown" /\ refund[r].status \notin {"absent", "succeeded"}
      BY <2>1, <1>3 DEF AskRobokassa, LoseAnswer, RefundOK
    <3>2. ask'[r] # "call" /\ answers' = answers
      BY <2>1 DEF AskRobokassa, LoseAnswer, IInv, TypeOK
    <3> QED BY <3>1, <3>2, <1>1, <1>3 DEF RefundOK
  <2>2. CASE CrashRefund(r)
    <3>1. ask'[r] = "none" /\ robo' = robo /\ answers' = answers
      BY <2>2 DEF CrashRefund, IInv, TypeOK
    <3> QED BY <3>1, <1>1, <1>3 DEF RefundOK
  <2>3. CASE Settle(r)
    <3>1. robo[r] = "accepted" /\ ask' = ask /\ answers' = answers
      BY <2>3 DEF Settle
    <3> QED BY <3>1, <1>1, <1>3 DEF RefundOK
  <2>4. CASE AskState(r)
    <3>1. refund[r].id /\ ask' = ask /\ robo' = robo /\ answers'[r] = answers[r] \cup {StateIn(r)}
      BY <2>4 DEF AskState, IInv, TypeOK
    <3>2. StateIn(r) = "succeeded" => robo[r] = "finished"
      BY DEF StateIn
    <3> QED BY <3>1, <3>2, <1>1, <1>3 DEF RefundOK
  <2> QED BY <2>1, <2>2, <2>3, <2>4
<1> QED BY <1>1, <1>2, <1>4, BackStep

LEMMA NoteAnswerBack ==
    ASSUME IInv, NEW r \in Refunds, NoteAnswer(r)
    PROVE  BackInv'
<1>1. UNCHANGED <<order, robo, answers>> /\ ask[r] # "none"
  BY DEF NoteAnswer, shop
<1>2. refund[r] \in RefundRows /\ RefundOK(r)
  BY DEF IInv, TypeOK, BackInv
<1>3. /\ refund'[r].status \in {"requested", "failed"}
      /\ refund'[r].order = refund[r].order /\ refund'[r].amount = refund[r].amount
      /\ \A q \in Refunds \ {r} : refund'[q] = refund[q]
      /\ ask'[r] = "none" /\ \A q \in Refunds \ {r} : ask'[q] = ask[q]
  BY <1>2 DEF NoteAnswer, RefundRows, IInv, TypeOK
<1>4. RefundOK(r)'
  BY <1>1, <1>2, <1>3 DEF RefundOK
<1> QED BY <1>1, <1>3, <1>4, BackStep

\* An order is given back when the sum of what Robokassa has given back is its price.
LEMMA NoteStateBack ==
    ASSUME IInv, NEW r \in Refunds, NEW s \in {"processing", "succeeded", "failed"}, NoteState(r, s)
    PROVE  BackInv'
<1> DEFINE o == refund[r].order
           given == RefundsOf(o, {"succeeded"}) \cup {r}
<1>1. s \in answers[r] /\ UNCHANGED <<robo, ask>> /\ RefundOK(r)
  BY DEF NoteState, IInv, BackInv
<1>2. refund[r].status # "absent" /\ (s = "succeeded" => robo[r] = "finished")
  BY <1>1 DEF RefundOK
<1>3. /\ refund'[r].status \in {s, refund[r].status}
      /\ \A q \in Refunds : refund'[q].order = refund[q].order /\ refund'[q].amount = refund[q].amount
      /\ \A q \in Refunds \ {r} : refund'[q] = refund[q]
      /\ refund'[r].id = refund[r].id
  <2>1. \A q \in Refunds : refund[q] \in RefundRows
    BY DEF IInv, TypeOK
  <2>2. refund' = refund \/ refund' = [refund EXCEPT ![r].status = s]
    BY DEF NoteState
  <2> QED BY <2>1, <2>2 DEF RefundRows, IInv, TypeOK
<1>4. answers'[r] \subseteq answers[r] /\ \A q \in Refunds \ {r} : answers'[q] = answers[q]
  BY DEF NoteState, IInv, TypeOK
<1>5. RefundOK(r)'
  BY <1>1, <1>2, <1>3, <1>4 DEF RefundOK
<1>6. CASE UNCHANGED order
  BY <1>1, <1>3, <1>4, <1>5, <1>6, BackStep
<1>7. CASE s = "succeeded" /\ Total(given) = Price /\ order' = [order EXCEPT ![o].status = "refunded"]
  <2>1. \A q \in given : refund[q].order = o /\ robo[q] = "finished"
    BY <1>2, <1>7 DEF RefundsOf, IInv, BackInv, RefundOK
  <2>2. PICK g \in SUBSET Refunds : g = given
    BY DEF RefundsOf
  <2>3. Total(g)' = Total(g)
    BY <1>3, TotalStays
  <2>4. PICK p \in Orders : p = o
    BY <1>2 DEF IInv, TypeOK
  <2>5. g \in SUBSET {q \in Refunds : refund'[q].order = p /\ robo'[q] = "finished"}
    <3> HIDE DEF given
    <3> QED BY <1>1, <1>3, <2>1, <2>2, <2>4
  <2>6. Total(g)' = Price
    BY <1>7, <2>2, <2>3
  <2>7. GivenBack(p)'
    BY <2>5, <2>6 DEF GivenBack
  <2>8. \A q \in Orders : order'[q].status = "refunded" => order[q].status = "refunded" \/ q = p
    BY <1>7, <2>4 DEF IInv, TypeOK
  <2>9. \A q \in Orders : order'[q].status = "refunded" => order[q].status = "refunded" \/ GivenBack(q)'
    BY <2>7, <2>8
  <2> QED BY <1>1, <1>3, <1>4, <1>5, <2>9, BackStep
<1>8. UNCHANGED order \/
      (s = "succeeded" /\ Total(given) = Price /\ order' = [order EXCEPT ![o].status = "refunded"])
  BY DEF NoteState
<1> QED BY <1>6, <1>7, <1>8

-----------------------------------------------------------------------------
(* All together *)

LEMMA CustomerInv ==
    ASSUME IInv, NEW o \in Orders, Offer(o) \/ Capture(o)
    PROVE  IInv'
BY CustomerType, OfferShop, CaptureShop, ShopBack DEF IInv

LEMMA BeginningInv ==
    ASSUME IInv, NEW x \in Workers, NEW o \in Orders, Deliver(x, o) \/ Visit(x, o) \/ VisitCancel(x, o)
    PROVE  IInv'
BY BeginningType, BeginningShop, ShopBack DEF IInv

LEMMA WorkerInv ==
    ASSUME IInv, NEW x \in Workers, WorkerStep(x) \/ Throw(x) \/ LoseCommit(x) \/ Crash(x)
    PROVE  IInv'
<1>1. TypeOK'
  BY WorkerType DEF IInv
<1>2. ShopInv'
  BY PayShop, GrantShop, FinishShop, WritingShop, CommittingShop, WorkerFaultShop DEF WorkerStep
<1>3. BackInv'
  BY ShopBack
<1> QED BY <1>1, <1>2, <1>3 DEF IInv

LEMMA RefundInv ==
    ASSUME IInv, NEW r \in Refunds, RefundStep(r)
    PROVE  IInv'
<1>1. RefundOK(r)
  BY DEF IInv, BackInv
<1>2. ASSUME NEW o \in Orders, RequestRefund(r, o) PROVE IInv'
  <2>1. UNCHANGED <<captured, shop>>
    BY <1>2 DEF RequestRefund
  <2> QED BY <1>2, <2>1, RequestRefundType, ShopStays, RequestRefundBack DEF IInv
<1>3. CASE AskRobokassa(r) \/ LoseAnswer(r) \/ CrashRefund(r) \/ Settle(r) \/ AskState(r)
  <2>1. UNCHANGED <<captured, shop>>
    BY <1>3 DEF AskRobokassa, LoseAnswer, CrashRefund, Settle, AskState
  <2> QED BY <1>3, <2>1, AskType, ShopStays, AskBack DEF IInv
<1>4. CASE NoteAnswer(r)
  <2>1. refund[r].status # "absent" /\ UNCHANGED <<captured, shop>>
    BY <1>1, <1>4 DEF NoteAnswer, RefundOK
  <2> QED BY <1>4, <2>1, NoteAnswerType, ShopStays, NoteAnswerBack DEF IInv
<1>5. ASSUME NEW s \in {"processing", "succeeded", "failed"}, NoteState(r, s) PROVE IInv'
  <2>1. refund[r].status # "absent"
    BY <1>1, <1>5 DEF NoteState, RefundOK
  <2>2. refund[r].order \in Orders
    BY <2>1 DEF IInv, TypeOK
  <2> QED BY <1>5, <2>1, <2>2, NoteStateType, NoteStateShop, NoteStateBack DEF IInv
<1> QED BY <1>2, <1>3, <1>4, <1>5 DEF RefundStep

LEMMA NextInv == IInv /\ [Next]_vars => IInv'
<1> SUFFICES ASSUME IInv, [Next]_vars PROVE IInv'
  OBVIOUS
<1>1. CASE UNCHANGED vars
  <2>1. UNCHANGED <<captured, shop, back, faults>>
    BY <1>1 DEF vars
  <2>2. TypeOK'
    BY <2>1 DEF IInv, TypeOK, shop, back, At, OrderOf
  <2>3. BackInv'
    BY <2>1, BackStays DEF shop
  <2> QED BY <2>1, <2>2, <2>3, ShopStays DEF IInv
<1> QED BY <1>1, CustomerInv, BeginningInv, WorkerInv, RefundInv DEF Next

\* The inductive invariant holds in every state of every run.
THEOREM AlwaysInv == Spec => []IInv
BY InitInv, NextInv, PTL DEF Spec

\* Every variable keeps its type, and a refund that exists is about an order, although a
\* call or an answer may be about a row that is not written yet.
THEOREM TypeCorrect == Spec => []TypeOK
<1>1. IInv => TypeOK
  BY DEF IInv
<1> QED BY <1>1, AlwaysInv, PTL

\* A notification that is acknowledged has left its order with its entitlement, for any
\* number of invocations that claim it from each other, and any crashes and rollbacks.
THEOREM ProcessedWasGranted == Spec => []ProcessedIsGranted
<1>1. IInv => ProcessedIsGranted
  BY DEF IInv, ShopInv, OrderOK, Sold, ProcessedIsGranted
<1> QED BY <1>1, AlwaysInv, PTL

\* The access of an owner is one chain, for any orders, invocations and refunds: what is
\* inserted but not committed while a refund moves the rest still fits behind it.
THEOREM AccessIsChain == Spec => []AccessIsOneChain
<1>1. IInv => AccessIsOneChain
  BY DEF IInv, ShopInv
<1> QED BY <1>1, AlwaysInv, PTL

\* An order is paid for or granted only when the bank has the money, and refunded only when
\* the bank has given all of it back, in any number of parts.
THEOREM MoneyWasReal == Spec => []MoneyIsReal
<1>1. IInv => MoneyIsReal
  BY DEF IInv, ShopInv, BackInv, OrderOK, GivenBack, MoneyIsReal
<1> QED BY <1>1, AlwaysInv, PTL

\* What a step leaves of the entitlements: only the refund of an order revokes one.
LEMMA EntitlementStep ==
    ASSUME IInv, [Next]_vars, NEW o \in Orders, Granted(o)
    PROVE  /\ Granted(o)'
           /\ ent'[o].revoked = ent[o].revoked \/ order'[o].status = "refunded"
<1>1. CASE UNCHANGED ent
  BY <1>1 DEF Granted
<1>2. ASSUME NEW x \in Workers, ~At(x, "idle"), Publishes(x)
      PROVE  Granted(o)' /\ ent'[o].revoked = ent[o].revoked
  <2>1. ent[o] \in Entitlements
    BY DEF IInv, TypeOK
  <2> QED BY <2>1, <1>2 DEF Publishes, Granted, Entitlements, IInv, TypeOK
<1>3. ASSUME NEW r \in Refunds, NEW s \in {"processing", "succeeded", "failed"}, NoteState(r, s), ~UNCHANGED ent
      PROVE  Granted(o)' /\ (ent'[o].revoked = ent[o].revoked \/ order'[o].status = "refunded")
  <2>1. PICK p \in Orders : p = refund[r].order
    BY <1>3 DEF IInv, TypeOK, BackInv, RefundOK, NoteState
  <2>2. Revoke(p) /\ order' = [order EXCEPT ![p].status = "refunded"]
    BY <1>3, <2>1 DEF NoteState
  <2>3. Granted(p)
    BY <1>3, <2>2 DEF Revoke
  <2>4. /\ \A q \in Orders : q # p => ent'[q].revoked = ent[q].revoked
        /\ \A q \in Orders \ Left(p) : ent'[q].start = ent[q].start
        /\ \A q \in Left(p) : ent'[q].start # 0
    BY <2>2, <2>3, RevokeIs
  <2>5. order'[p].status = "refunded"
    BY <2>2 DEF IInv, TypeOK
  <2> QED BY <2>4, <2>5 DEF Granted
<1>4. \/ UNCHANGED ent
      \/ \E x \in Workers : ~At(x, "idle") /\ Publishes(x)
      \/ \E r \in Refunds : \E s \in {"processing", "succeeded", "failed"} : NoteState(r, s)
  <2>1. CASE UNCHANGED vars
    BY <2>1 DEF vars, shop
  <2>2. ASSUME NEW x \in Workers, WorkerStep(x) \/ LoseCommit(x)
        PROVE  UNCHANGED ent \/ (~At(x, "idle") /\ Publishes(x))
    BY <2>2 DEF WorkerStep, Pay, Grant, Commit, LoseCommit, Commits, Finish, VisitPay, Writes,
                VisitPending, VisitGrant, VisitCommit, Cancel, At
  <2>3. ASSUME NEW r \in Refunds, RefundStep(r)
        PROVE  UNCHANGED ent \/ \E s \in {"processing", "succeeded", "failed"} : NoteState(r, s)
    BY <2>3 DEF RefundStep, RequestRefund, AskRobokassa, LoseAnswer, NoteAnswer, CrashRefund, Settle,
                AskState, shop
  <2>4. ASSUME NEW p \in Orders, Offer(p) \/ Capture(p) PROVE UNCHANGED ent
    BY <2>4 DEF Offer, Capture, shop
  <2>5. ASSUME NEW x \in Workers, NEW p \in Orders, Deliver(x, p) \/ Visit(x, p) \/ VisitCancel(x, p)
        PROVE  UNCHANGED ent
    BY <2>5 DEF Deliver, Visit, VisitCancel
  <2>6. ASSUME NEW x \in Workers, Throw(x) \/ Crash(x) PROVE UNCHANGED ent
    BY <2>6 DEF Throw, Crash
  <2> QED BY <2>1, <2>2, <2>3, <2>4, <2>5, <2>6 DEF Next
<1> QED BY <1>1, <1>2, <1>3, <1>4

\* No page that read the order too early, no late notification and no refund of another
\* order takes away access that was bought.
THEOREM AccessEndsOnlyByRefund == Spec => AccessEndsByRefund
<1>1. IInv /\ [Next]_vars => [\A o \in Orders : Counts(o) /\ ~Counts(o)' => order'[o].status = "refunded"]_vars
  <2> SUFFICES ASSUME IInv, [Next]_vars, NEW o \in Orders, Counts(o), ~Counts(o)'
               PROVE  order'[o].status = "refunded"
    OBVIOUS
  <2>1. Granted(o) /\ ~ent[o].revoked
    BY DEF Counts
  <2>2. Granted(o)' /\ (ent'[o].revoked = ent[o].revoked \/ order'[o].status = "refunded")
    BY <2>1, EntitlementStep
  <2>3. order'[o].status \in {"paid", "refunded"}
    BY <2>2, NextInv DEF IInv, ShopInv, OrderOK, Sold
  <2> QED BY <2>1, <2>2, <2>3 DEF Counts
<1> QED BY <1>1, AlwaysInv, PTL DEF Spec, AccessEndsByRefund

=============================================================================
