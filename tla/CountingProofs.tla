---------------------------- MODULE CountingProofs ----------------------------
(***************************************************************************)
(* Proofs about the components that keep a count or a sum beside the rows  *)
(* it stands for: BillingMoney, Webmail, DomainKeys and                    *)
(* IntegrationResults, for any rows, amounts, sizes and requests. Their    *)
(* invariants relate a column to the sum, or to the number, of rows; that  *)
(* a row which changes, comes or goes changes the sum by so much is proved *)
(* by a least counterexample.                                              *)
(***************************************************************************)
EXTENDS BillingMoney, Webmail, DomainKeys, IntegrationResults, FiniteSetTheorems,
        WellFoundedInduction, TLAPS

-------------------------------------------------------------------------------
(***************************************************************************)
(* Numbers.                                                                *)
(***************************************************************************)

LEMMA LeastNatural ==
  ASSUME NEW S \in SUBSET Nat, S # {}
  PROVE  \E n \in S : \A m \in S : n <= m
<1> DEFINE R == OpToRel(<, Nat)
<1>1. IsWellFoundedOn(R, Nat)
  BY NatLessThanWellFounded
<1>2. \A m, n \in Nat : <<m, n>> \in R <=> m < n
  BY DEF OpToRel
<1> HIDE DEF R
<1>3. S \subseteq Nat
  OBVIOUS
<1>5. \E n \in S : \A m \in S : ~ (<<m, n>> \in R)
  BY ONLY <1>1, <1>3, S # {}, WFMin
<1>6. PICK n \in S : \A m \in S : ~ (<<m, n>> \in R)
  BY <1>5
<1>4. QED
  <2>1. ASSUME NEW m \in S PROVE n <= m
    <3>1. m \in Nat /\ n \in Nat /\ ~ (<<m, n>> \in R)
      BY <1>3, <1>6
    <3>2. ~ (m < n)
      BY <1>2, <3>1
    <3>3. QED
      BY <3>1, <3>2
  <2>2. QED
    BY <2>1

LEMMA BoundedMax ==
  ASSUME NEW n \in Nat, NEW S \in SUBSET (0..n), S # {}
  PROVE  \E x \in S : \A y \in S : x >= y
<1> DEFINE B == {m \in Nat : \A y \in S : y <= m}
<1>1. n \in B
  OBVIOUS
<1>2. PICK m \in B : \A k \in B : m <= k
  <2>1. B \in SUBSET Nat /\ B # {}
    BY <1>1
  <2> HIDE DEF B
  <2>2. QED
    BY <2>1, LeastNatural
<1>3. CASE m \in S
  BY <1>2, <1>3
<1>4. CASE m \notin S
  <2>1. \A y \in S : y \in Nat /\ y < m
    BY <1>2, <1>4
  <2>2. m - 1 \in B
    <3>1. m > 0 /\ m \in Nat
      <4>1. PICK y \in S : TRUE
        OBVIOUS
      <4>2. QED
        BY <2>1, <4>1
    <3>2. \A y \in S : y <= m - 1
      BY <2>1, <3>1
    <3>3. QED
      BY <3>1, <3>2
  <2>3. QED
    BY <1>2, <2>2
<1>5. QED
  BY <1>3, <1>4

-------------------------------------------------------------------------------
(***************************************************************************)
(* Billing. What a request has read may be stale when it commits, but only *)
(* in one direction: a confirmation has counted no more than is confirmed  *)
(* with its own payment, and a credit note has read no more than is        *)
(* credited.                                                               *)
(***************************************************************************)

Pick(s) == CHOOSE x \in s : TRUE

Body(f, g, s) == IF s = {} THEN 0 ELSE f[Pick(s)] + g[s \ {Pick(s)}]

Unfolds(f, g, S) == \A s \in SUBSET S : g[s] = Body(f, g, s)

Solves(f, g, S) == g \in [SUBSET S -> Int] /\ Unfolds(f, g, S)

LEMMA TotalUnfolds ==
  ASSUME NEW S, NEW f
  PROVE  Total(S, f) = (CHOOSE g : g = [s \in SUBSET S |-> Body(f, g, s)])[S]
BY DEF Total, MapThenSumSet, MapThenFoldSet, Body, Pick

LEMMA PickIn == ASSUME NEW s, s # {} PROVE Pick(s) \in s
BY DEF Pick

LEMMA Smaller ==
  ASSUME NEW s, IsFiniteSet(s), NEW x \in s
  PROVE  /\ IsFiniteSet(s \ {x}) /\ Cardinality(s \ {x}) \in Nat /\ Cardinality(s) \in Nat
         /\ Cardinality(s \ {x}) < Cardinality(s)
<1>1. IsFiniteSet(s \ {x}) /\ Cardinality(s \ {x}) = Cardinality(s) - 1
  BY FS_RemoveElement
<1>2. Cardinality(s) \in Nat /\ Cardinality(s \ {x}) \in Nat
  BY <1>1, FS_CardinalityType
<1>3. QED
  BY <1>1, <1>2

LEMMA SolutionsAgree ==
  ASSUME NEW f, NEW S, NEW T, NEW g, NEW h, Unfolds(f, g, S), Unfolds(f, h, T),
         NEW s \in (SUBSET S) \cap (SUBSET T), IsFiniteSet(s)
  PROVE  g[s] = h[s]
<1> DEFINE B == {n \in Nat : \E r \in (SUBSET S) \cap (SUBSET T) :
                     IsFiniteSet(r) /\ Cardinality(r) = n /\ g[r] # h[r]}
<1> SUFFICES ASSUME g[s] # h[s] PROVE FALSE
  OBVIOUS
<1>1. B \in SUBSET Nat /\ B # {}
  <2>1. Cardinality(s) \in B
    BY FS_CardinalityType
  <2>2. QED
    BY <2>1
<1>2. PICK n \in B : \A m \in B : n <= m
  <2> HIDE DEF B
  <2>1. QED
    BY <1>1, LeastNatural
<1>3. PICK r \in (SUBSET S) \cap (SUBSET T) : IsFiniteSet(r) /\ Cardinality(r) = n /\ g[r] # h[r]
  OBVIOUS
<1>4. g[r] = Body(f, g, r) /\ h[r] = Body(f, h, r)
  BY DEF Unfolds
<1>5. r # {}
  BY <1>3, <1>4 DEF Body
<1> DEFINE q == r \ {Pick(r)}
<1>6. /\ IsFiniteSet(q) /\ Cardinality(q) \in Nat /\ Cardinality(q) < n /\ n \in Nat
      /\ q \in (SUBSET S) \cap (SUBSET T)
  BY <1>3, <1>5, PickIn, Smaller
<1>7. g[r] = f[Pick(r)] + g[q] /\ h[r] = f[Pick(r)] + h[q]
  BY <1>4, <1>5 DEF Body
<1> HIDE DEF q
<1>8. g[q] # h[q]
  BY <1>3, <1>7
<1>9. Cardinality(q) \in B
  BY <1>6, <1>8
<1>10. QED
  BY <1>2, <1>6, <1>9

LEMMA SolutionExists ==
  ASSUME NEW D, NEW f \in [D -> Int], NEW S \in SUBSET D, IsFiniteSet(S)
  PROVE  \E g : Solves(f, g, S)
<1> DEFINE B == {n \in Nat : \E r \in SUBSET D :
                     IsFiniteSet(r) /\ Cardinality(r) = n /\ ~ \E g : Solves(f, g, r)}
<1> SUFFICES ASSUME ~ \E g : Solves(f, g, S) PROVE FALSE
  OBVIOUS
<1>1. B \in SUBSET Nat /\ B # {}
  <2>1. Cardinality(S) \in B
    BY FS_CardinalityType
  <2>2. QED
    BY <2>1
<1>2. PICK n \in B : \A m \in B : n <= m
  <2> HIDE DEF B
  <2>1. QED
    BY <1>1, LeastNatural
<1>3. PICK R \in SUBSET D : IsFiniteSet(R) /\ Cardinality(R) = n /\ ~ \E g : Solves(f, g, R)
  OBVIOUS
<1>4. ASSUME NEW r \in SUBSET R, r # R PROVE \E g : Solves(f, g, r)
  <2>1. IsFiniteSet(r) /\ Cardinality(r) < Cardinality(R) /\ Cardinality(r) \in Nat
    <3>1. IsFiniteSet(r) /\ Cardinality(r) <= Cardinality(R)
            /\ (Cardinality(r) = Cardinality(R) => r = R)
      BY <1>3, FS_Subset
    <3>2. Cardinality(r) \in Nat /\ Cardinality(R) \in Nat
      BY <1>3, <3>1, FS_CardinalityType
    <3>3. QED
      BY <1>4, <3>1, <3>2
  <2>2. Cardinality(r) \notin B
    BY <1>2, <1>3, <2>1
  <2>3. r \in SUBSET D
    OBVIOUS
  <2>4. QED
    BY <2>1, <2>2, <2>3
<1> DEFINE sol(r) == CHOOSE g : Solves(f, g, r)
           h == [s \in SUBSET R |-> Body(f, [r \in {s \ {Pick(s)}} |-> sol(r)[r]], s)]
<1>5. ASSUME NEW r \in SUBSET R, r # R PROVE Solves(f, sol(r), r)
  BY <1>4, <1>5
<1>6. ASSUME NEW s \in SUBSET R, s # {}
      PROVE  /\ Pick(s) \in s /\ s \ {Pick(s)} \in SUBSET R /\ s \ {Pick(s)} # R
             /\ f[Pick(s)] \in Int
  BY <1>6, PickIn
<1>7. ASSUME NEW s \in SUBSET R
      PROVE  /\ s = {} => h[s] = 0
             /\ s # {} => h[s] = f[Pick(s)] + sol(s \ {Pick(s)})[s \ {Pick(s)}]
  BY DEF Body
<1> HIDE DEF h, sol
<1>8. ASSUME NEW s \in SUBSET R PROVE h[s] \in Int
  <2>1. CASE s = {}
    <3>1. h[s] = 0
      BY <1>7, <2>1
    <3>2. QED
      BY <3>1
  <2>2. CASE s # {}
    <3> DEFINE q == s \ {Pick(s)}
    <3>1. Solves(f, sol(q), q)
      BY <1>5, <1>6, <2>2
    <3>2. sol(q)[q] \in Int
      BY <3>1 DEF Solves, Unfolds
    <3>3. QED
      BY <1>6, <1>7, <2>2, <3>2
  <2>3. QED
    BY <2>1, <2>2
<1>9. ASSUME NEW r \in SUBSET R, r # R PROVE sol(r)[r] = h[r]
  <2>1. Solves(f, sol(r), r)
    BY <1>5, <1>9
  <2>2. sol(r)[r] = Body(f, sol(r), r)
    BY <2>1 DEF Solves, Unfolds
  <2>3. CASE r = {}
    BY <1>7, <2>2, <2>3 DEF Body
  <2>4. CASE r # {}
    <3> DEFINE q == r \ {Pick(r)}
    <3>1. Solves(f, sol(q), q)
      BY <1>5, <1>6, <2>4
    <3>2. IsFiniteSet(q)
      <4>1. IsFiniteSet(r)
        BY <1>3, FS_Subset
      <4>2. QED
        BY <4>1, FS_Subset
    <3>3. sol(r)[q] = sol(q)[q]
      <4>1. Unfolds(f, sol(r), r) /\ Unfolds(f, sol(q), q)
        BY <2>1, <3>1 DEF Solves
      <4>2. q \in (SUBSET r) \cap (SUBSET q)
        OBVIOUS
      <4>3. QED
        BY <3>2, <4>1, <4>2, SolutionsAgree
    <3>4. QED
      BY <1>7, <2>2, <2>4, <3>3 DEF Body
  <2>5. QED
    BY <2>3, <2>4
<1>10. h \in [SUBSET R -> Int]
  BY <1>8 DEF h
<1>11. ASSUME NEW s \in SUBSET R PROVE h[s] = Body(f, h, s)
  BY <1>6, <1>7, <1>9 DEF Body
<1>12. Solves(f, h, R)
  BY <1>10, <1>11 DEF Solves, Unfolds
<1>13. QED
  BY <1>3, <1>12

LEMMA TotalSolves ==
  ASSUME NEW D, NEW f \in [D -> Int], NEW S \in SUBSET D, IsFiniteSet(S),
         NEW g, Solves(f, g, S)
  PROVE  Total(S, f) = g[S]
<1> DEFINE iter == CHOOSE u : u = [s \in SUBSET S |-> Body(f, u, s)]
<1>1. g = [s \in SUBSET S |-> Body(f, g, s)]
  BY DEF Solves, Unfolds
<1>2. iter = [s \in SUBSET S |-> Body(f, iter, s)]
  BY <1>1
<1>3. Total(S, f) = iter[S]
  BY TotalUnfolds
<1> HIDE DEF iter
<1>4. Unfolds(f, iter, S) /\ Unfolds(f, g, S)
  BY <1>2 DEF Solves, Unfolds
<1>5. QED
  BY <1>3, <1>4, SolutionsAgree

\* The sum of nothing, and of a set by its picked element.
LEMMA TotalBySteps ==
  ASSUME NEW D, NEW f \in [D -> Int], NEW S \in SUBSET D, IsFiniteSet(S)
  PROVE  /\ Total(S, f) \in Int
         /\ S = {} => Total(S, f) = 0
         /\ S # {} => Total(S, f) = f[Pick(S)] + Total(S \ {Pick(S)}, f)
<1>1. PICK g : Solves(f, g, S)
  BY SolutionExists
<1>2. Total(S, f) = g[S]
  BY <1>1, TotalSolves
<1>3. g[S] = Body(f, g, S) /\ g[S] \in Int
  BY <1>1 DEF Solves, Unfolds
<1>4. CASE S = {}
  BY <1>2, <1>3, <1>4 DEF Body
<1>5. CASE S # {}
  <2> DEFINE q == S \ {Pick(S)}
  <2>1. q \in SUBSET D /\ IsFiniteSet(q)
    BY FS_Subset
  <2>2. PICK h : Solves(f, h, q)
    BY <2>1, SolutionExists
  <2>3. Total(q, f) = h[q]
    BY <2>1, <2>2, TotalSolves
  <2>4. h[q] = g[q]
    BY <1>1, <2>1, <2>2, SolutionsAgree DEF Solves
  <2>5. QED
    BY <1>2, <1>3, <1>5, <2>3, <2>4 DEF Body
<1>6. QED
  BY <1>4, <1>5

LEMMA TotalWithout ==
  ASSUME NEW D, NEW f \in [D -> Int], NEW S \in SUBSET D, IsFiniteSet(S), NEW x \in S
  PROVE  Total(S, f) = f[x] + Total(S \ {x}, f)
<1> DEFINE B == {n \in Nat : \E r \in SUBSET D :
                   /\ IsFiniteSet(r) /\ Cardinality(r) = n
                   /\ \E y \in r : Total(r, f) # f[y] + Total(r \ {y}, f)}
<1> SUFFICES ASSUME Total(S, f) # f[x] + Total(S \ {x}, f) PROVE FALSE
  OBVIOUS
<1>1. B \in SUBSET Nat /\ B # {}
  <2>1. Cardinality(S) \in B
    BY FS_CardinalityType
  <2>2. QED
    BY <2>1
<1>2. PICK n \in B : \A m \in B : n <= m
  <2> HIDE DEF B
  <2>1. QED
    BY <1>1, LeastNatural
<1>3. PICK r \in SUBSET D : /\ IsFiniteSet(r) /\ Cardinality(r) = n
                            /\ \E y \in r : Total(r, f) # f[y] + Total(r \ {y}, f)
  OBVIOUS
<1>4. PICK y \in r : Total(r, f) # f[y] + Total(r \ {y}, f)
  BY <1>3
<1> DEFINE p == Pick(r)
<1>5. p \in r /\ Total(r, f) = f[p] + Total(r \ {p}, f)
  BY <1>3, <1>4, PickIn, TotalBySteps
<1>6. ASSUME NEW q \in SUBSET r, q # r, NEW z \in q
      PROVE  Total(q, f) = f[z] + Total(q \ {z}, f)
  <2>1. IsFiniteSet(q) /\ Cardinality(q) < Cardinality(r) /\ Cardinality(q) \in Nat
    <3>1. IsFiniteSet(q) /\ Cardinality(q) <= Cardinality(r)
            /\ (Cardinality(q) = Cardinality(r) => q = r)
      BY <1>3, FS_Subset
    <3>2. Cardinality(q) \in Nat /\ Cardinality(r) \in Nat
      BY <1>3, <3>1, FS_CardinalityType
    <3>3. QED
      BY <1>6, <3>1, <3>2
  <2>2. Cardinality(q) \notin B
    BY <1>2, <1>3, <2>1
  <2>3. q \in SUBSET D
    OBVIOUS
  <2>4. QED
    BY <2>1, <2>2, <2>3
<1> HIDE DEF B, p
<1>7. p # y
  BY <1>4, <1>5
<1> DEFINE both == (r \ {p}) \ {y}
<1>8. Total(r \ {p}, f) = f[y] + Total(both, f)
  <2>1. r \ {p} \in SUBSET r /\ r \ {p} # r /\ y \in r \ {p}
    BY <1>5, <1>7
  <2>2. QED
    BY <1>6, <2>1
<1>9. Total(r \ {y}, f) = f[p] + Total(both, f)
  <2>1. r \ {y} \in SUBSET r /\ r \ {y} # r /\ p \in r \ {y} /\ (r \ {y}) \ {p} = both
    BY <1>5, <1>7
  <2>2. QED
    BY <1>6, <2>1
<1>10. f[y] \in Int /\ f[p] \in Int /\ Total(both, f) \in Int
  <2>1. both \in SUBSET D /\ IsFiniteSet(both)
    BY <1>3, FS_Subset
  <2>2. Total(both, f) \in Int
    BY <2>1, TotalBySteps
  <2>3. QED
    BY <1>5, <2>2
<1> HIDE DEF both
<1>11. QED
  BY <1>4, <1>5, <1>8, <1>9, <1>10

LEMMA TotalWith ==
  ASSUME NEW D, NEW f \in [D -> Int], NEW S \in SUBSET D, IsFiniteSet(S), NEW x \in D \ S
  PROVE  /\ S \union {x} \in SUBSET D /\ IsFiniteSet(S \union {x})
         /\ Total(S, f) \in Int /\ f[x] \in Int
         /\ Total(S \union {x}, f) = Total(S, f) + f[x]
<1>1. S \union {x} \in SUBSET D /\ IsFiniteSet(S \union {x}) /\ x \in S \union {x}
  BY FS_AddElement
<1>2. Total(S \union {x}, f) = f[x] + Total((S \union {x}) \ {x}, f)
  BY <1>1, TotalWithout
<1>3. (S \union {x}) \ {x} = S
  OBVIOUS
<1>4. Total(S, f) \in Int /\ f[x] \in Int
  BY TotalBySteps
<1>5. Total(S \union {x}, f) = f[x] + Total(S, f)
  BY <1>2, <1>3
<1>6. QED
  BY <1>1, <1>4, <1>5

\* With nothing negative, one more adds to the sum of any set.
LEMMA TotalGrows ==
  ASSUME NEW D, NEW f \in [D -> Nat], NEW S \in SUBSET D, IsFiniteSet(S), NEW x \in D
  PROVE  /\ IsFiniteSet(S \union {x}) /\ Total(S, f) \in Int /\ Total(S \union {x}, f) \in Int
         /\ Total(S, f) <= Total(S \union {x}, f)
<1>1. f \in [D -> Int] /\ f[x] >= 0
  OBVIOUS
<1>2. CASE x \in S
  <2>1. S \union {x} = S
    BY <1>2
  <2>2. Total(S, f) \in Int
    BY <1>1, TotalBySteps
  <2>3. QED
    BY <2>1, <2>2
<1>3. CASE x \notin S
  BY <1>1, <1>3, TotalWith
<1>4. QED
  BY <1>2, <1>3

-------------------------------------------------------------------------------
(* The invariant. *)

CountsAreRight ==
    /\ IsFiniteSet(posted) /\ IsFiniteSet(Confirmed)
    /\ Total(Confirmed, PaymentAmount) \in Nat
    /\ invoice.credits <= credited

\* A confirmation has counted no more than is confirmed with its own payment,
\* a credit note has read no more than is credited.
ClerkIsRight(rec) ==
    /\ rec.task \in {"post", "open"} => rec.for \in References
    /\ rec.task \in {"pay", "confirm", "refund"} => rec.for \in Payments
    /\ rec.task = "confirm" => rec.amount <= Total(Counted(rec.for), PaymentAmount)
    /\ rec.task = "credit" => rec.amount <= credited

ClerksAreRight == \A c \in Clerks : ClerkIsRight(clerk[c])

MoneyInv == MoneyTypeOK /\ MoneyAddsUp /\ CountsAreRight /\ ClerksAreRight

LEMMA IdleClerkType ==
  IdleClerk \in Clerk /\ IdleClerk.task = "none" /\ ClerkIsRight(IdleClerk) /\ ClerkIsRight(IdleClerk)'
<1>1. PICK r \in References : r = CHOOSE x \in References : TRUE
  BY MoneyAssumption
<1>2. IdleClerk = [task |-> "none", for |-> r, status |-> "DRAFT", amount |-> 0]
  BY <1>1 DEF IdleClerk
<1>3. IdleClerk.task = "none"
  BY <1>2
<1>4. IdleClerk \in Clerk
  BY <1>2 DEF Clerk, InvoiceStates
<1>5. ClerkIsRight(IdleClerk)
  BY <1>3 DEF ClerkIsRight
<1>6. ClerkIsRight(IdleClerk)'
  BY <1>3 DEF ClerkIsRight
<1>7. QED
  BY <1>3, <1>4, <1>5, <1>6

LEMMA ClerksGoOn ==
  ASSUME MoneyInv, NEW c \in Clerks, NEW rec \in Clerk, clerk' = [clerk EXCEPT ![c] = rec],
         ClerkIsRight(rec)', \A r \in Clerk : ClerkIsRight(r) => ClerkIsRight(r)'
  PROVE  clerk' \in [Clerks -> Clerk] /\ ClerksAreRight'
<1>1. clerk' \in [Clerks -> Clerk] /\ clerk'[c] = rec
        /\ \A d \in Clerks : d # c => clerk'[d] = clerk[d]
  BY DEF MoneyInv, MoneyTypeOK
<1>2. ASSUME NEW d \in Clerks PROVE ClerkIsRight(clerk[d])'
  <2>1. CASE d = c
    BY <1>1, <2>1 DEF ClerkIsRight
  <2>2. CASE d # c
    <3>1. clerk[d] \in Clerk /\ ClerkIsRight(clerk[d])
      BY DEF MoneyInv, MoneyTypeOK, ClerksAreRight
    <3>2. PICK r \in Clerk : r = clerk[d]
      BY <3>1
    <3>3. ClerkIsRight(r)' /\ clerk'[d] = r
      BY <1>1, <2>2, <3>1, <3>2
    <3>4. QED
      BY <3>3 DEF ClerkIsRight
  <2>3. QED
    BY <2>1, <2>2
<1>3. QED
  BY <1>1, <1>2 DEF ClerksAreRight

\* A request reads, or ends without a commit.
LEMMA ReadingStep ==
  ASSUME MoneyInv, NEW c \in Clerks, NEW rec \in Clerk, clerk' = [clerk EXCEPT ![c] = rec],
         ClerkIsRight(rec),
         UNCHANGED <<balance, posted, invoice, payment, refunded, credited, notes>>
  PROVE  MoneyInv'
<1>1. \A r : ClerkIsRight(r)' = ClerkIsRight(r)
  BY DEF ClerkIsRight, Counted, Confirmed
<1>2. clerk' \in [Clerks -> Clerk] /\ ClerksAreRight'
  BY <1>1, ClerksGoOn
<1>3. QED
  BY <1>2 DEF MoneyInv, MoneyTypeOK, MoneyAddsUp, WalletAddsUp, SettledIsCovered,
              CountsAreRight, Confirmed

LEMMA ConfirmedPayments == Confirmed \in SUBSET Payments
  BY DEF Confirmed

LEMMA Readers ==
  ASSUME MoneyInv, NEW c \in Clerks,
         \/ \E r \in References : WalletLook(c, r)
         \/ WalletMissing(c)
         \/ \E p \in Payments : PayRead(c, p) \/ ConfirmRead(c, p) \/ RefundRead(c, p)
         \/ CreditRead(c) \/ ClerkFails(c)
  PROVE  MoneyInv'
<1>0. /\ invoice.status \in InvoiceStates /\ invoice.credits \in Nat /\ clerk[c] \in Clerk
      /\ refunded \in [Payments -> Nat] /\ ClerkIsRight(clerk[c])
  BY DEF MoneyInv, MoneyTypeOK, ClerksAreRight
<1>1. ASSUME NEW r \in References, WalletLook(c, r) PROVE MoneyInv'
  <2> DEFINE rec == [task |-> "post", for |-> r, status |-> invoice.status, amount |-> 0]
  <2>1. rec \in Clerk /\ ClerkIsRight(rec)
    BY <1>0 DEF Clerk, ClerkIsRight
  <2>2. clerk' = [clerk EXCEPT ![c] = rec]
          /\ UNCHANGED <<balance, posted, invoice, payment, refunded, credited, notes>>
    BY <1>1 DEF WalletLook, Reads
  <2>3. QED
    BY <2>1, <2>2, ReadingStep
<1>2. CASE WalletMissing(c)
  <2> DEFINE rec == [clerk[c] EXCEPT !.task = "open"]
  <2>1. rec \in Clerk /\ ClerkIsRight(rec)
    BY <1>0, <1>2 DEF WalletMissing, Clerk, ClerkIsRight
  <2>2. clerk' = [clerk EXCEPT ![c] = rec]
          /\ UNCHANGED <<balance, posted, invoice, payment, refunded, credited, notes>>
    BY <1>2 DEF WalletMissing
  <2>3. QED
    BY <2>1, <2>2, ReadingStep
<1>3. ASSUME NEW p \in Payments, PayRead(c, p) \/ RefundRead(c, p) PROVE MoneyInv'
  <2>1. PICK does \in {"pay", "refund"}, amount \in Nat :
          /\ clerk' = [clerk EXCEPT ![c] = [task |-> does, for |-> p,
                                           status |-> invoice.status, amount |-> amount]]
          /\ UNCHANGED <<balance, posted, invoice, payment, refunded, credited, notes>>
    BY <1>0, <1>3 DEF PayRead, RefundRead, Reads
  <2> DEFINE rec == [task |-> does, for |-> p, status |-> invoice.status, amount |-> amount]
  <2>2. rec \in Clerk /\ ClerkIsRight(rec)
    BY <1>0 DEF Clerk, ClerkIsRight
  <2>3. QED
    BY <2>1, <2>2, ReadingStep
<1>4. ASSUME NEW p \in Payments, ConfirmRead(c, p) PROVE MoneyInv'
  <2> DEFINE amount == Total(Counted(p), PaymentAmount)
             rec == [task |-> "confirm", for |-> p, status |-> invoice.status, amount |-> amount]
  <2>1. amount \in Nat
    <3>1. IsFiniteSet(Confirmed) /\ Total(Confirmed, PaymentAmount) \in Nat
      BY DEF MoneyInv, CountsAreRight
    <3>2. /\ Total(Confirmed \union {p}, PaymentAmount) \in Int
          /\ Total(Confirmed, PaymentAmount) <= Total(Confirmed \union {p}, PaymentAmount)
      BY <3>1, ConfirmedPayments, MoneyAssumption, TotalGrows
    <3>3. QED
      BY <3>1, <3>2 DEF Counted
  <2>2. clerk' = [clerk EXCEPT ![c] = rec]
          /\ UNCHANGED <<balance, posted, invoice, payment, refunded, credited, notes>>
    BY <1>4 DEF ConfirmRead, Reads
  <2>3. rec.task = "confirm" /\ rec.for = p /\ rec.amount = Total(Counted(p), PaymentAmount)
    OBVIOUS
  <2> HIDE DEF amount
  <2>4. rec \in Clerk
    BY <1>0, <2>1 DEF Clerk
  <2> HIDE DEF rec
  <2>5. ClerkIsRight(rec)
    BY <2>1, <2>3 DEF ClerkIsRight, amount
  <2>6. QED
    BY <2>2, <2>4, <2>5, ReadingStep
<1>5. CASE CreditRead(c)
  <2> DEFINE rec == [task |-> "credit", for |-> clerk[c].for, status |-> invoice.status,
                     amount |-> invoice.credits]
  <2>1. rec \in Clerk /\ ClerkIsRight(rec)
    BY <1>0 DEF Clerk, ClerkIsRight, MoneyInv, CountsAreRight
  <2>2. clerk' = [clerk EXCEPT ![c] = rec]
          /\ UNCHANGED <<balance, posted, invoice, payment, refunded, credited, notes>>
    BY <1>5 DEF CreditRead, Reads
  <2>3. QED
    BY <2>1, <2>2, ReadingStep
<1>6. CASE ClerkFails(c)
  <2>1. clerk' = [clerk EXCEPT ![c] = IdleClerk]
          /\ UNCHANGED <<balance, posted, invoice, payment, refunded, credited, notes>>
    BY <1>6 DEF ClerkFails, Ends
  <2>2. QED
    BY <2>1, IdleClerkType, ReadingStep
<1>7. QED
  BY <1>1, <1>2, <1>3, <1>4, <1>5, <1>6

-------------------------------------------------------------------------------
(* The wallet. *)

LEMMA WalletStep ==
  ASSUME MoneyInv, NEW c \in Clerks, WalletPost(c) \/ WalletOpen(c)
  PROVE  MoneyInv'
<1> DEFINE r == clerk[c].for
<1>1. /\ clerk' = [clerk EXCEPT ![c] = IdleClerk]
      /\ UNCHANGED <<invoice, payment, refunded, credited, notes>>
      /\ r \in References
  BY DEF WalletPost, WalletOpen, Ends, MoneyInv, ClerksAreRight, ClerkIsRight
<1>2. \A x : ClerkIsRight(x)' = ClerkIsRight(x)
  BY <1>1 DEF ClerkIsRight, Counted, Confirmed
<1>3. clerk' \in [Clerks -> Clerk] /\ ClerksAreRight'
  BY <1>1, <1>2, IdleClerkType, ClerksGoOn
<1>4. /\ balance \in Int \union {NoWallet} /\ posted \in SUBSET References /\ IsFiniteSet(posted)
      /\ WalletAddsUp
  BY DEF MoneyInv, MoneyTypeOK, CountsAreRight, MoneyAddsUp
<1>5. \/ UNCHANGED <<balance, posted>>
      \/ \E before \in Int :
            /\ before = Total(posted, WalletAmount)
            /\ before + WalletAmount[r] >= 0 /\ r \notin posted
            /\ balance' = before + WalletAmount[r] /\ posted' = posted \union {r}
  <2>1. CASE WalletPost(c)
    <3>1. balance \in Int /\ balance = Total(posted, WalletAmount)
      BY <1>4, <2>1 DEF WalletPost, WalletAddsUp
    <3>2. QED
      BY <2>1, <3>1 DEF WalletPost, Post, Covers, Posts
  <2>2. CASE WalletOpen(c)
    <3>1. CASE Opens
      <4>1. posted = {}
        BY <1>4, <3>1 DEF Opens, WalletAddsUp
      <4>2. Total(posted, WalletAmount) = 0
        BY <1>4, <4>1, TotalBySteps, MoneyAssumption
      <4>3. Post(r, 0)
        BY <2>2, <3>1 DEF WalletOpen
      <4>4. QED
        BY <4>2, <4>3 DEF Post, Covers, Posts
    <3>2. CASE ~Opens
      BY <2>2, <3>2 DEF WalletOpen
    <3>3. QED
      BY <3>1, <3>2
  <2>3. QED
    BY <2>1, <2>2
<1>6. /\ balance' \in Int \union {NoWallet} /\ posted' \in SUBSET References
      /\ IsFiniteSet(posted') /\ WalletAddsUp'
  <2>1. CASE UNCHANGED <<balance, posted>>
    BY <1>4, <2>1 DEF WalletAddsUp
  <2>2. ASSUME NEW before \in Int, before = Total(posted, WalletAmount),
               before + WalletAmount[r] >= 0, r \notin posted,
               balance' = before + WalletAmount[r], posted' = posted \union {r}
        PROVE  /\ balance' \in Int \union {NoWallet} /\ posted' \in SUBSET References
               /\ IsFiniteSet(posted') /\ WalletAddsUp'
    <3>1. /\ IsFiniteSet(posted') /\ WalletAmount[r] \in Int /\ posted' \in SUBSET References
          /\ Total(posted', WalletAmount) = before + WalletAmount[r]
      BY <1>1, <1>4, <2>2, TotalWith, MoneyAssumption
    <3>2. balance' \in Int /\ balance' # NoWallet
      BY <2>2, <3>1, MoneyAssumption
    <3>3. QED
      BY <2>2, <3>1, <3>2 DEF WalletAddsUp
  <2>3. QED
    BY <1>5, <2>1, <2>2
<1>7. MoneyTypeOK' /\ CountsAreRight' /\ SettledIsCovered'
  BY <1>1, <1>3, <1>6 DEF MoneyInv, MoneyTypeOK, CountsAreRight, Confirmed, MoneyAddsUp,
                          SettledIsCovered
<1>8. QED
  BY <1>3, <1>6, <1>7 DEF MoneyInv, MoneyAddsUp

-------------------------------------------------------------------------------
(* Payments and their confirmation. *)

\* One more payment is confirmed; nothing that was counted is lost.
LEMMA ConfirmedGrow ==
  ASSUME MoneyInv, NEW p \in Payments, payment' = [payment EXCEPT ![p] = "CONFIRMED"],
         UNCHANGED credited
  PROVE  /\ payment' \in [Payments -> PaymentStates]
         /\ IsFiniteSet(Confirmed)' /\ Total(Confirmed, PaymentAmount)' \in Nat
         /\ Total(Confirmed, PaymentAmount) <= Total(Confirmed, PaymentAmount)'
         /\ Confirmed' = Confirmed \union {p}
         /\ \A r \in Clerk : ClerkIsRight(r) => ClerkIsRight(r)'
<1>1. payment \in [Payments -> PaymentStates] /\ IsFiniteSet(Confirmed)
        /\ Total(Confirmed, PaymentAmount) \in Nat /\ PaymentAmount \in [Payments -> Nat]
  BY MoneyAssumption DEF MoneyInv, MoneyTypeOK, CountsAreRight
<1>2. payment' \in [Payments -> PaymentStates] /\ Confirmed' = Confirmed \union {p}
  BY <1>1 DEF PaymentStates, Confirmed
<1>3. /\ IsFiniteSet(Confirmed \union {p})
      /\ Total(Confirmed \union {p}, PaymentAmount) \in Int
      /\ Total(Confirmed, PaymentAmount) <= Total(Confirmed \union {p}, PaymentAmount)
  BY <1>1, ConfirmedPayments, TotalGrows
<1>4. Total(Confirmed, PaymentAmount)' = Total(Confirmed \union {p}, PaymentAmount)
  BY <1>2
<1>5. ASSUME NEW r \in Clerk, ClerkIsRight(r) PROVE ClerkIsRight(r)'
  <2>1. CASE r.task = "confirm"
    <3>1. r.for \in Payments /\ r.amount \in Nat
            /\ r.amount <= Total(Confirmed \union {r.for}, PaymentAmount)
      BY <1>5, <2>1 DEF ClerkIsRight, Counted, Clerk
    <3>2. Confirmed \union {r.for} \in SUBSET Payments /\ IsFiniteSet(Confirmed \union {r.for})
      BY <1>1, <3>1, ConfirmedPayments, FS_AddElement
    <3>3. /\ Total(Confirmed \union {r.for}, PaymentAmount) \in Int
          /\ Total((Confirmed \union {r.for}) \union {p}, PaymentAmount) \in Int
          /\ Total(Confirmed \union {r.for}, PaymentAmount)
               <= Total((Confirmed \union {r.for}) \union {p}, PaymentAmount)
      BY <1>1, <3>2, TotalGrows
    <3>4. (Confirmed \union {r.for}) \union {p} = Confirmed' \union {r.for}
      BY <1>2
    <3>5. r.amount <= Total(Confirmed' \union {r.for}, PaymentAmount)
      BY <3>1, <3>3, <3>4
    <3>6. QED
      BY <2>1, <3>1, <3>5 DEF ClerkIsRight, Counted
  <2>2. CASE r.task # "confirm"
    BY <1>5, <2>2 DEF ClerkIsRight
  <2>3. QED
    BY <2>1, <2>2
<1>6. QED
  BY <1>1, <1>2, <1>3, <1>4, <1>5

LEMMA PayStep ==
  ASSUME MoneyInv, NEW c \in Clerks, PayCommit(c)
  PROVE  MoneyInv'
<1> DEFINE p == clerk[c].for
<1>1. /\ clerk' = [clerk EXCEPT ![c] = IdleClerk]
      /\ UNCHANGED <<balance, posted, refunded, credited, notes>>
      /\ p \in Payments
  BY DEF PayCommit, Ends, MoneyInv, ClerksAreRight, ClerkIsRight
<1>2. /\ payment \in [Payments -> PaymentStates] /\ PaymentAmount \in [Payments -> Nat]
      /\ invoice \in [status : InvoiceStates, credits : Nat] /\ InvoiceTotal \in Nat
      /\ Total(Confirmed, PaymentAmount) \in Nat /\ IsFiniteSet(Confirmed)
  BY MoneyAssumption DEF MoneyInv, MoneyTypeOK, CountsAreRight
<1> HIDE DEF p
<1>3. \/ UNCHANGED <<payment, invoice>>
      \/ /\ payment[p] = "none" /\ payment' = [payment EXCEPT ![p] = "PENDING_RECONCILIATION"]
         /\ UNCHANGED invoice
      \/ /\ payment[p] = "none" /\ payment' = [payment EXCEPT ![p] = "CONFIRMED"]
         /\ \/ /\ invoice' = [invoice EXCEPT !.status = "PAID"]
               /\ PaymentAmount[p] >= InvoiceTotal
            \/ UNCHANGED invoice
  BY DEF PayCommit, p
<1>4. ASSUME UNCHANGED <<Confirmed, invoice>>, payment' \in [Payments -> PaymentStates]
      PROVE  MoneyInv'
  <2>1. \A x : ClerkIsRight(x)' = ClerkIsRight(x)
    BY <1>1, <1>4 DEF ClerkIsRight, Counted
  <2>2. clerk' \in [Clerks -> Clerk] /\ ClerksAreRight'
    BY <1>1, <2>1, IdleClerkType, ClerksGoOn
  <2>3. QED
    BY <1>1, <1>4, <2>2 DEF MoneyInv, MoneyTypeOK, MoneyAddsUp, WalletAddsUp, SettledIsCovered,
                            CountsAreRight
<1>5. CASE UNCHANGED <<payment, invoice>>
  BY <1>2, <1>4, <1>5 DEF Confirmed
<1>6. CASE payment[p] = "none" /\ payment' = [payment EXCEPT ![p] = "PENDING_RECONCILIATION"]
             /\ UNCHANGED invoice
  <2>1. payment' \in [Payments -> PaymentStates] /\ Confirmed' = Confirmed
    BY <1>1, <1>2, <1>6 DEF PaymentStates, Confirmed
  <2>2. QED
    BY <1>4, <1>6, <2>1
<1>7. ASSUME payment[p] = "none", payment' = [payment EXCEPT ![p] = "CONFIRMED"],
             \/ /\ invoice' = [invoice EXCEPT !.status = "PAID"]
                /\ PaymentAmount[p] >= InvoiceTotal
             \/ UNCHANGED invoice
      PROVE  MoneyInv'
  <2>1. /\ payment' \in [Payments -> PaymentStates]
        /\ IsFiniteSet(Confirmed)' /\ Total(Confirmed, PaymentAmount)' \in Nat
        /\ Total(Confirmed, PaymentAmount) <= Total(Confirmed, PaymentAmount)'
        /\ Confirmed' = Confirmed \union {p}
        /\ \A r \in Clerk : ClerkIsRight(r) => ClerkIsRight(r)'
    BY <1>1, <1>7, ConfirmedGrow
  <2>2. clerk' \in [Clerks -> Clerk] /\ ClerksAreRight'
    BY <1>1, <2>1, IdleClerkType, ClerksGoOn
  <2>3. Total(Confirmed, PaymentAmount)' = Total(Confirmed, PaymentAmount) + PaymentAmount[p]
    <3>1. p \in Payments \ Confirmed /\ PaymentAmount \in [Payments -> Int]
      BY <1>1, <1>2, <1>7 DEF Confirmed
    <3>2. Total(Confirmed \union {p}, PaymentAmount)
            = Total(Confirmed, PaymentAmount) + PaymentAmount[p]
      BY <1>2, <3>1, ConfirmedPayments, TotalWith
    <3>3. QED
      BY <2>1, <3>2
  <2>4. PaymentAmount[p] \in Nat
    BY <1>1, <1>2
  <2>5. PaymentAmount[p] >= InvoiceTotal => Total(Confirmed, PaymentAmount)' >= InvoiceTotal
    BY <1>2, <2>3, <2>4
  <2>6. /\ invoice' \in [status : InvoiceStates, credits : Nat]
        /\ invoice'.credits = invoice.credits
        /\ invoice'.status = "PAID" =>
              invoice.status = "PAID" \/ PaymentAmount[p] >= InvoiceTotal
        /\ invoice'.status = "CREDITED" => invoice.status = "CREDITED"
    <3>1. CASE UNCHANGED invoice
      BY <1>2, <3>1
    <3>2. CASE invoice' = [invoice EXCEPT !.status = "PAID"] /\ PaymentAmount[p] >= InvoiceTotal
      BY <1>2, <3>2 DEF InvoiceStates
    <3>3. QED
      BY <1>7, <3>1, <3>2
  <2>7. SettledIsCovered'
    <3>1. invoice.status = "PAID" => Total(Confirmed, PaymentAmount) >= InvoiceTotal
      BY DEF MoneyInv, MoneyAddsUp, SettledIsCovered
    <3>2. invoice'.status = "PAID" => Total(Confirmed, PaymentAmount)' >= InvoiceTotal
      BY <1>2, <2>1, <2>5, <2>6, <3>1
    <3>3. QED
      BY <1>1, <2>6, <3>2 DEF MoneyInv, MoneyAddsUp, SettledIsCovered
  <2>8. MoneyTypeOK' /\ WalletAddsUp' /\ CountsAreRight'
    BY <1>1, <2>1, <2>2, <2>6 DEF MoneyInv, MoneyTypeOK, MoneyAddsUp, WalletAddsUp, CountsAreRight
  <2>9. QED
    BY <2>2, <2>7, <2>8 DEF MoneyInv, MoneyAddsUp
<1>8. QED
  BY <1>3, <1>5, <1>6, <1>7

LEMMA ConfirmStep ==
  ASSUME MoneyInv, NEW c \in Clerks, ConfirmCommit(c)
  PROVE  MoneyInv'
<1> DEFINE p == clerk[c].for
           status == IF clerk[c].amount >= InvoiceTotal THEN "PAID" ELSE "PARTIALLY_PAID"
<1>1. /\ clerk' = [clerk EXCEPT ![c] = IdleClerk]
      /\ UNCHANGED <<balance, posted, refunded, credited, notes>>
      /\ payment' = [payment EXCEPT ![p] = "CONFIRMED"]
      /\ p \in Payments /\ clerk[c].amount \in Nat
      /\ clerk[c].amount <= Total(Confirmed \union {p}, PaymentAmount)
  BY DEF ConfirmCommit, Ends, MoneyInv, ClerksAreRight, ClerkIsRight, Counted, MoneyTypeOK, Clerk
<1>2. /\ invoice \in [status : InvoiceStates, credits : Nat] /\ InvoiceTotal \in Nat
      /\ Total(Confirmed, PaymentAmount) \in Nat
  BY MoneyAssumption DEF MoneyInv, MoneyTypeOK, CountsAreRight
<1>3. /\ payment' \in [Payments -> PaymentStates]
      /\ IsFiniteSet(Confirmed)' /\ Total(Confirmed, PaymentAmount)' \in Nat
      /\ Total(Confirmed, PaymentAmount) <= Total(Confirmed, PaymentAmount)'
      /\ Confirmed' = Confirmed \union {p}
      /\ \A r \in Clerk : ClerkIsRight(r) => ClerkIsRight(r)'
  BY <1>1, ConfirmedGrow
<1>4. clerk' \in [Clerks -> Clerk] /\ ClerksAreRight'
  BY <1>1, <1>3, IdleClerkType, ClerksGoOn
<1>5. clerk[c].amount <= Total(Confirmed, PaymentAmount)'
  BY <1>1, <1>3
<1>6. UNCHANGED invoice \/ invoice' = [invoice EXCEPT !.status = status]
  BY DEF ConfirmCommit
<1>7. /\ invoice' \in [status : InvoiceStates, credits : Nat]
      /\ invoice'.credits = invoice.credits
      /\ invoice'.status = "PAID" =>
            invoice.status = "PAID" \/ clerk[c].amount >= InvoiceTotal
      /\ invoice'.status = "CREDITED" => invoice.status = "CREDITED"
  <2>1. CASE UNCHANGED invoice
    BY <1>2, <2>1
  <2>2. CASE invoice' = [invoice EXCEPT !.status = status]
    <3>1. status \in {"PAID", "PARTIALLY_PAID"} /\ (status = "PAID" => clerk[c].amount >= InvoiceTotal)
      OBVIOUS
    <3> HIDE DEF status
    <3>2. QED
      BY <1>2, <2>2, <3>1 DEF InvoiceStates
  <2>3. QED
    BY <1>6, <2>1, <2>2
<1>8. SettledIsCovered'
  <2>1. invoice.status = "PAID" => Total(Confirmed, PaymentAmount) >= InvoiceTotal
    BY DEF MoneyInv, MoneyAddsUp, SettledIsCovered
  <2>2. invoice'.status = "PAID" => Total(Confirmed, PaymentAmount)' >= InvoiceTotal
    BY <1>1, <1>2, <1>3, <1>5, <1>7, <2>1
  <2>3. QED
    BY <1>1, <1>7, <2>2 DEF MoneyInv, MoneyAddsUp, SettledIsCovered
<1>9. MoneyTypeOK' /\ WalletAddsUp' /\ CountsAreRight'
  BY <1>1, <1>3, <1>4, <1>7 DEF MoneyInv, MoneyTypeOK, MoneyAddsUp, WalletAddsUp, CountsAreRight
<1>10. QED
  BY <1>4, <1>8, <1>9 DEF MoneyInv, MoneyAddsUp

-------------------------------------------------------------------------------
(* Refunds and credit notes. *)

LEMMA RefundStep ==
  ASSUME MoneyInv, NEW c \in Clerks, RefundCommit(c)
  PROVE  MoneyInv'
<1> DEFINE p == clerk[c].for
<1>1. /\ clerk' = [clerk EXCEPT ![c] = IdleClerk]
      /\ UNCHANGED <<balance, posted, invoice, payment, credited>>
      /\ p \in Payments /\ notes < MaxNotes /\ notes' = notes + 1
  BY DEF RefundCommit, Ends, MoneyInv, ClerksAreRight, ClerkIsRight
<1>2. PICK amount \in 1..PaymentAmount[p] :
        refunded' = [refunded EXCEPT ![p] = IF p \in Manual THEN refunded[p] ELSE refunded[p] + amount]
  BY DEF RefundCommit
<1>3. refunded' \in [Payments -> Nat] /\ notes' \in 0..MaxNotes
  <2>1. PaymentAmount[p] \in Nat /\ refunded \in [Payments -> Nat] /\ notes \in 0..MaxNotes
          /\ MaxNotes \in Nat
    BY <1>1, MoneyAssumption DEF MoneyInv, MoneyTypeOK
  <2>2. amount \in Nat /\ refunded[p] \in Nat
    BY <1>1, <2>1
  <2>3. (IF p \in Manual THEN refunded[p] ELSE refunded[p] + amount) \in Nat
    BY <2>2
  <2>4. QED
    BY <1>1, <1>2, <2>1, <2>3
<1>4. \A x : ClerkIsRight(x)' = ClerkIsRight(x)
  BY <1>1 DEF ClerkIsRight, Counted, Confirmed
<1>5. clerk' \in [Clerks -> Clerk] /\ ClerksAreRight'
  BY <1>1, <1>4, IdleClerkType, ClerksGoOn
<1>6. QED
  BY <1>1, <1>3, <1>5 DEF MoneyInv, MoneyTypeOK, MoneyAddsUp, WalletAddsUp, SettledIsCovered,
                          CountsAreRight, Confirmed

LEMMA CreditStep ==
  ASSUME MoneyInv, NEW c \in Clerks, CreditCommit(c)
  PROVE  MoneyInv'
<1> DEFINE credits == clerk[c].amount + CreditAmount
           status == IF credits >= InvoiceTotal /\ clerk[c].status # "CREDITED"
                     THEN "CREDITED" ELSE invoice.status
<1>1. /\ clerk' = [clerk EXCEPT ![c] = IdleClerk]
      /\ UNCHANGED <<balance, posted, payment, refunded>>
      /\ notes < MaxNotes /\ notes' = notes + 1
      /\ credited' = credited + CreditAmount
      /\ invoice' = [status |-> status, credits |-> credits]
      /\ clerk[c].amount \in Nat /\ clerk[c].amount <= credited
  BY DEF CreditCommit, Ends, MoneyInv, ClerksAreRight, ClerkIsRight, MoneyTypeOK, Clerk
<1>2. /\ invoice \in [status : InvoiceStates, credits : Nat] /\ InvoiceTotal \in Nat
      /\ CreditAmount \in Nat /\ credited \in Nat /\ notes \in 0..MaxNotes /\ MaxNotes \in Nat
  BY MoneyAssumption DEF MoneyInv, MoneyTypeOK
<1>3. /\ credits \in Nat /\ credited' \in Nat /\ credits <= credited' /\ credited <= credited'
      /\ notes' \in 0..MaxNotes
  BY <1>1, <1>2
<1>4. /\ status \in InvoiceStates /\ (status = "PAID" => invoice.status = "PAID")
      /\ status = "CREDITED" => invoice.status = "CREDITED" \/ credits >= InvoiceTotal
  BY <1>2 DEF InvoiceStates
<1> HIDE DEF credits, status
<1>5. \A r \in Clerk : ClerkIsRight(r) => ClerkIsRight(r)'
  <2>1. \A r \in Clerk : r.amount \in Nat
    BY DEF Clerk
  <2>2. QED
    BY <1>1, <1>2, <1>3, <2>1 DEF ClerkIsRight, Counted, Confirmed
<1>6. clerk' \in [Clerks -> Clerk] /\ ClerksAreRight'
  BY <1>1, <1>5, IdleClerkType, ClerksGoOn
<1>7. invoice' \in [status : InvoiceStates, credits : Nat]
        /\ invoice'.status = status /\ invoice'.credits = credits
  BY <1>1, <1>3, <1>4
<1>8. SettledIsCovered'
  <2>1. invoice.status = "CREDITED" => credited >= InvoiceTotal
    BY DEF MoneyInv, MoneyAddsUp, SettledIsCovered
  <2>2. status = "CREDITED" => credited' >= InvoiceTotal
    BY <1>2, <1>3, <1>4, <2>1
  <2>3. QED
    BY <1>1, <1>4, <1>7, <2>2 DEF MoneyInv, MoneyAddsUp, SettledIsCovered, Confirmed
<1>9. MoneyTypeOK' /\ WalletAddsUp' /\ CountsAreRight'
  BY <1>1, <1>3, <1>6, <1>7 DEF MoneyInv, MoneyTypeOK, MoneyAddsUp, WalletAddsUp, CountsAreRight,
                                Confirmed
<1>10. QED
  BY <1>6, <1>8, <1>9 DEF MoneyInv, MoneyAddsUp

-------------------------------------------------------------------------------
(* The whole step. *)

LEMMA MoneyStep ==
  ASSUME MoneyInv, [MoneyNext]_moneyVars
  PROVE  MoneyInv'
<1>1. CASE UNCHANGED moneyVars
  <2>1. UNCHANGED <<balance, posted, invoice, payment, refunded, credited, notes, clerk>>
    BY <1>1 DEF moneyVars
  <2>2. \A x : ClerkIsRight(x)' = ClerkIsRight(x)
    BY <2>1 DEF ClerkIsRight, Counted, Confirmed
  <2>3. ClerksAreRight'
    <3> SUFFICES ASSUME NEW c \in Clerks PROVE ClerkIsRight(clerk[c])'
      BY DEF ClerksAreRight
    <3>1. ClerkIsRight(clerk[c])
      BY DEF MoneyInv, ClerksAreRight
    <3>2. QED
      BY <2>1, <3>1 DEF ClerkIsRight, Counted, Confirmed
  <2>4. QED
    BY <2>1, <2>3 DEF MoneyInv, MoneyTypeOK, MoneyAddsUp, WalletAddsUp, SettledIsCovered,
                      CountsAreRight, Confirmed
<1>2. ASSUME NEW c \in Clerks, WalletPost(c) \/ WalletOpen(c) \/ PayCommit(c) \/ ConfirmCommit(c)
                               \/ RefundCommit(c) \/ CreditCommit(c)
      PROVE  MoneyInv'
  BY <1>2, WalletStep, PayStep, ConfirmStep, RefundStep, CreditStep
<1>3. QED
  BY <1>1, <1>2, Readers DEF MoneyNext

LEMMA MoneyBegins == MoneyInit => MoneyInv
<1> SUFFICES ASSUME MoneyInit PROVE MoneyInv
  OBVIOUS
<1>1. Confirmed = {} /\ posted = {}
  BY DEF MoneyInit, Confirmed
<1>2. IsFiniteSet(posted) /\ IsFiniteSet(Confirmed)
  BY <1>1, FS_EmptySet
<1>3. Total(Confirmed, PaymentAmount) = 0
  <2>1. PaymentAmount \in [Payments -> Int]
    BY MoneyAssumption
  <2>2. QED
    BY <1>1, <1>2, <2>1, ConfirmedPayments, TotalBySteps
<1>4. MoneyTypeOK
  BY MoneyAssumption, IdleClerkType DEF MoneyInit, MoneyTypeOK, InvoiceStates, PaymentStates
<1>5. MoneyAddsUp /\ CountsAreRight
  BY <1>1, <1>2, <1>3 DEF MoneyInit, MoneyAddsUp, WalletAddsUp, SettledIsCovered, CountsAreRight
<1>6. ClerksAreRight
  BY IdleClerkType DEF MoneyInit, ClerksAreRight
<1>7. QED
  BY <1>4, <1>5, <1>6 DEF MoneyInv

LEMMA MoneyInvariant == MoneySpec => []MoneyInv
<1>1. MoneyInv /\ [MoneyNext]_moneyVars => MoneyInv'
  BY MoneyStep
<1>2. QED
  BY MoneyBegins, <1>1, PTL DEF MoneySpec

\* The balance is the sum of the wallet's transactions and never negative, and
\* an invoice shown as settled is covered, for any number of requests that read
\* before others commit and any amounts.
THEOREM MoneyAddsUpCorrect == MoneySpec => []MoneyAddsUp
<1>1. MoneyInv => MoneyAddsUp
  BY DEF MoneyInv
<1>2. QED
  BY MoneyInvariant, <1>1, PTL

-------------------------------------------------------------------------------
(***************************************************************************)
(* Webmail. The count that a tenant is charged for is the sum of the sizes *)
(* of the messages kept, until a deletion writes a count that it read too  *)
(* early.                                                                  *)
(***************************************************************************)

LEMMA TotalNatural ==
  ASSUME NEW D, NEW f \in [D -> Nat], NEW S \in SUBSET D, IsFiniteSet(S)
  PROVE  Total(S, f) \in Nat
<1>0. f \in [D -> Int]
  OBVIOUS
<1> DEFINE B == {n \in Nat : \E r \in SUBSET D :
                   IsFiniteSet(r) /\ Cardinality(r) = n /\ Total(r, f) \notin Nat}
<1> SUFFICES ASSUME Total(S, f) \notin Nat PROVE FALSE
  OBVIOUS
<1>1. B \in SUBSET Nat /\ B # {}
  <2>1. Cardinality(S) \in B
    BY FS_CardinalityType
  <2>2. QED
    BY <2>1
<1>2. PICK n \in B : \A m \in B : n <= m
  <2> HIDE DEF B
  <2>1. QED
    BY <1>1, LeastNatural
<1>3. PICK r \in SUBSET D : IsFiniteSet(r) /\ Cardinality(r) = n /\ Total(r, f) \notin Nat
  OBVIOUS
<1> DEFINE q == r \ {Pick(r)}
<1>4. r # {} /\ Total(r, f) = f[Pick(r)] + Total(q, f)
  BY <1>0, <1>3, TotalBySteps
<1>5. Pick(r) \in r
  BY <1>4, PickIn
<1>6. /\ IsFiniteSet(q) /\ Cardinality(q) \in Nat /\ Cardinality(q) < n /\ n \in Nat
      /\ q \in SUBSET D /\ f[Pick(r)] \in Nat
  BY <1>3, <1>5, Smaller
<1> HIDE DEF q
<1>7. Total(q, f) \notin Nat
  BY <1>3, <1>4, <1>6
<1>8. Cardinality(q) \in B
  BY <1>6, <1>7
<1>9. QED
  BY <1>2, <1>6, <1>8

-------------------------------------------------------------------------------
(* The invariant. *)

\* What the count is of.
KeptMail == {i \in Inbound : mailbox[i] \in {"folder", "trash"}}

\* The inbound messages deleted for good.
Gone == {i \in Inbound : mailbox[i] = "deleted"}

CountIsRight ==
    /\ stored <= MailQuota
    /\ ~drifted => /\ stored <= Total(KeptMail, Size)
                   /\ Total(KeptMail, Size) <= stored + Total(Gone, Surplus)
    /\ \A i \in Inbound : mailbox[i] # "none" <=> inbound[i] = "accepted"

\* What a deletion under way has read is the count still, unless it has been
\* written since, and then the message that will be given back is still kept.
DeletionIsRight(rec) ==
    LET x == rec.message IN
    x # NoMessage =>
      /\ mailbox[x] # "none"
      /\ ~drifted /\ ~rec.stale =>
           rec.read = stored /\ (Reclaimed(x) > 0 /\ rec.read > 0 => x \in KeptMail)

DeletionsAreRight == \A d \in Deleters : DeletionIsRight(deleter[d])

WebmailInv ==
    /\ WebmailTypeOK /\ CountIsRight /\ DeletionsAreRight
    /\ IsFiniteSet(KeptMail) /\ IsFiniteSet(Gone)

Deletion == [message : Messages \cup {NoMessage}, read : 0 .. MailQuota, stale : BOOLEAN]

LEMMA CountIsTheQuotas == QuotaCountsTheMail <=> CountIsRight
  BY DEF QuotaCountsTheMail, CountIsRight, KeptMail, Gone, Total

LEMMA WebmailSizes ==
  /\ KeptMail \in SUBSET Messages /\ KeptMail' \in SUBSET Messages /\ Inbound \subseteq Messages
  /\ Outbound \cap Inbound = {}
  /\ Gone \in SUBSET Messages /\ Gone' \in SUBSET Messages
  /\ Size \in [Messages -> Nat] /\ Size \in [Messages -> Int]
  /\ Surplus \in [Messages -> Nat] /\ Surplus \in [Messages -> Int]
  /\ MailQuota \in Nat /\ NoMessage \notin Messages
  BY WebmailAssumption DEF KeptMail, Gone, Messages

LEMMA NotDeletingType ==
  NotDeleting \in Deletion /\ NotDeleting.message = NoMessage
  BY WebmailAssumption DEF NotDeleting, Deletion

\* Nothing that is counted moves: the messages kept, the count, and the
\* deletions stay as they are.
LEMMA UncountedStep ==
  ASSUME WebmailInv, WebmailTypeOK', UNCHANGED <<stored, deleter, drifted>>, KeptMail' = KeptMail,
         Gone' = Gone,
         \A x \in Messages : mailbox[x] # "none" => mailbox'[x] # "none",
         \A i \in Inbound : mailbox'[i] # "none" <=> inbound'[i] = "accepted"
  PROVE  WebmailInv'
<1>1. CountIsRight' /\ IsFiniteSet(KeptMail)' /\ IsFiniteSet(Gone)'
  BY DEF WebmailInv, CountIsRight
<1>2. DeletionsAreRight'
  <2> SUFFICES ASSUME NEW d \in Deleters PROVE DeletionIsRight(deleter[d])'
    BY DEF DeletionsAreRight
  <2>1. DeletionIsRight(deleter[d]) /\ deleter[d].message \in Messages \cup {NoMessage}
    BY DEF WebmailInv, WebmailTypeOK, DeletionsAreRight
  <2>2. QED
    BY <2>1 DEF DeletionIsRight, Reclaimed
<1>3. QED
  BY <1>1, <1>2 DEF WebmailInv

LEMMA UncountedSteps ==
  ASSUME WebmailInv,
         \/ \E d \in Deliverers : \/ DeliveryIsRejected(d) \/ DeliveryIsUnfiled(d) \/ DeliveryFails(d)
                                  \/ \E i \in Inbound : DeliveryArrives(d, i)
         \/ \E k \in Outbound : SentIsFiled(k)
         \/ \E x \in Messages : MessageIsMoved(x)
  PROVE  WebmailInv'
<1>1. /\ WebmailTypeOK /\ mailbox \in [Messages -> {"none", "folder", "trash", "deleted"}]
      /\ inbound \in [Inbound -> {"none", "accepted", "unfiled", "rejected"}]
      /\ \A i \in Inbound : mailbox[i] # "none" <=> inbound[i] = "accepted"
  BY DEF WebmailInv, WebmailTypeOK, CountIsRight
<1>2. ASSUME NEW d \in Deliverers, DeliveryIsRejected(d) \/ DeliveryIsUnfiled(d)
      PROVE  WebmailInv'
  <2> DEFINE i == deliverer[d]
  <2>1. i \in Inbound /\ inbound[i] = "none"
    BY <1>1, <1>2 DEF DeliveryIsRejected, DeliveryIsUnfiled, WebmailTypeOK
  <2>2. PICK end \in {"rejected", "unfiled"} :
        /\ inbound' = [inbound EXCEPT ![i] = end]
        /\ deliverer' = [deliverer EXCEPT ![d] = NoMessage]
        /\ UNCHANGED <<mailbox, stored, deleter, drifted>>
    BY <1>2 DEF DeliveryIsRejected, DeliveryIsUnfiled, DeliveryEnds
  <2>3. WebmailTypeOK' /\ KeptMail' = KeptMail /\ Gone' = Gone
    BY <1>1, <2>1, <2>2 DEF WebmailTypeOK, KeptMail, Gone
  <2>4. \A j \in Inbound : mailbox'[j] # "none" <=> inbound'[j] = "accepted"
    BY <1>1, <2>1, <2>2
  <2>5. QED
    BY <2>2, <2>3, <2>4, UncountedStep
<1>3. ASSUME NEW d \in Deliverers, DeliveryFails(d) \/ \E i \in Inbound : DeliveryArrives(d, i)
      PROVE  WebmailInv'
  <2>1. PICK i \in Inbound \cup {NoMessage} : deliverer' = [deliverer EXCEPT ![d] = i]
    BY <1>3 DEF DeliveryFails, DeliveryArrives, DeliveryEnds
  <2>2. UNCHANGED <<inbound, mailbox, stored, deleter, drifted>>
    BY <1>3 DEF DeliveryFails, DeliveryArrives
  <2>3. WebmailTypeOK' /\ KeptMail' = KeptMail /\ Gone' = Gone
    BY <1>1, <2>1, <2>2 DEF WebmailTypeOK, KeptMail, Gone
  <2>4. QED
    BY <1>1, <2>2, <2>3, UncountedStep
<1>4. ASSUME NEW k \in Outbound, SentIsFiled(k) PROVE WebmailInv'
  <2>1. k \in Messages /\ k \notin Inbound
    BY WebmailSizes DEF Messages
  <2>2. /\ mailbox' = [mailbox EXCEPT ![k] = "folder"]
        /\ UNCHANGED <<inbound, stored, deliverer, deleter, drifted>>
    BY <1>4 DEF SentIsFiled
  <2>3. WebmailTypeOK' /\ \A x \in Messages : x # k => mailbox'[x] = mailbox[x]
    BY <1>1, <2>1, <2>2 DEF WebmailTypeOK
  <2>4. KeptMail' = KeptMail /\ Gone' = Gone /\ mailbox'[k] = "folder"
    BY <1>1, <2>1, <2>2, <2>3, WebmailSizes DEF KeptMail, Gone
  <2>5. QED
    BY <1>1, <2>1, <2>2, <2>3, <2>4, WebmailSizes, UncountedStep
<1>5. ASSUME NEW x \in Messages, MessageIsMoved(x) PROVE WebmailInv'
  <2>1. PICK place \in {"folder", "trash"} : mailbox' = [mailbox EXCEPT ![x] = place]
    BY <1>5 DEF MessageIsMoved
  <2>2. /\ mailbox[x] \in {"folder", "trash"}
        /\ UNCHANGED <<inbound, stored, deliverer, deleter, drifted>>
    BY <1>5 DEF MessageIsMoved
  <2>3. WebmailTypeOK' /\ \A y \in Messages : y # x => mailbox'[y] = mailbox[y]
    BY <1>1, <2>1, <2>2 DEF WebmailTypeOK
  <2>4. mailbox'[x] \in {"folder", "trash"}
    BY <1>1, <2>1
  <2>5. KeptMail' = KeptMail /\ Gone' = Gone
    BY <2>2, <2>3, <2>4, WebmailSizes DEF KeptMail, Gone
  <2>6. QED
    BY <1>1, <2>2, <2>3, <2>4, <2>5, WebmailSizes, UncountedStep
<1>6. QED
  BY <1>2, <1>3, <1>4, <1>5

-------------------------------------------------------------------------------
(* The count is read, and written. *)

LEMMA DeletionReadStep ==
  ASSUME WebmailInv, NEW d \in Deleters, NEW x \in Messages, DeletionReads(d, x)
  PROVE  WebmailInv'
<1> DEFINE rec == [message |-> x, read |-> stored, stale |-> FALSE]
<1>1. /\ deleter' = [deleter EXCEPT ![d] = rec] /\ mailbox[x] = "trash"
      /\ UNCHANGED <<inbound, mailbox, stored, deliverer, drifted>>
      /\ stored \in 0 .. MailQuota /\ deleter \in [Deleters -> Deletion]
  BY DEF DeletionReads, WebmailInv, WebmailTypeOK, Deletion
<1>2. rec \in Deletion
  <2>1. PICK no \in BOOLEAN : no = FALSE
    OBVIOUS
  <2>2. QED
    BY <1>1, <2>1 DEF Deletion
<1>3. Reclaimed(x) > 0 => x \in KeptMail
  BY <1>1 DEF Reclaimed, KeptMail
<1>4. DeletionIsRight(rec)
  BY <1>1, <1>3 DEF DeletionIsRight
<1> HIDE DEF rec
<1>5. /\ deleter' \in [Deleters -> Deletion] /\ deleter'[d] = rec
      /\ \A e \in Deleters : e # d => deleter'[e] = deleter[e]
  BY <1>1, <1>2
<1>6. WebmailTypeOK' /\ KeptMail' = KeptMail /\ Gone' = Gone
  BY <1>1, <1>5 DEF WebmailInv, WebmailTypeOK, Deletion, KeptMail, Gone
<1>7. CountIsRight'
  BY <1>1, <1>6 DEF WebmailInv, CountIsRight
<1>8. DeletionsAreRight'
  <2> SUFFICES ASSUME NEW e \in Deleters PROVE DeletionIsRight(deleter[e])'
    BY DEF DeletionsAreRight
  <2>1. DeletionIsRight(deleter[e])
    BY DEF WebmailInv, DeletionsAreRight
  <2>2. QED
    BY <1>1, <1>4, <1>5, <1>6, <2>1 DEF DeletionIsRight, Reclaimed
<1>9. QED
  BY <1>6, <1>7, <1>8 DEF WebmailInv

\* Deletions under way when the count is written.
LEMMA CountWrittenEffect ==
  ASSUME WebmailTypeOK
  PROVE  /\ CountWritten \in [Deleters -> Deletion]
         /\ \A d \in Deleters : /\ CountWritten[d].message = deleter[d].message
                                /\ CountWritten[d].read = deleter[d].read
                                /\ CountWritten[d].message # NoMessage => CountWritten[d].stale
<1>1. ASSUME NEW d \in Deleters
      PROVE  /\ CountWritten[d] \in Deletion
             /\ CountWritten[d].message = deleter[d].message
             /\ CountWritten[d].read = deleter[d].read
             /\ CountWritten[d].message # NoMessage => CountWritten[d].stale
  <2>1. deleter[d] \in Deletion
    BY DEF WebmailTypeOK, Deletion
  <2>2. CASE deleter[d].message = NoMessage
    <3>1. CountWritten[d] = deleter[d]
      BY <2>2 DEF CountWritten
    <3>2. QED
      BY <2>1, <2>2, <3>1
  <2>3. CASE deleter[d].message # NoMessage
    <3>1. PICK yes \in BOOLEAN : yes = TRUE
      OBVIOUS
    <3>2. CountWritten[d] = [deleter[d] EXCEPT !.stale = yes]
      BY <2>3, <3>1 DEF CountWritten
    <3>3. QED
      BY <2>1, <3>1, <3>2 DEF Deletion
  <2>4. QED
    BY <2>2, <2>3
<1>2. CountWritten \in [Deleters -> Deletion]
  BY <1>1 DEF CountWritten
<1>3. QED
  BY <1>1, <1>2

LEMMA StoreStep ==
  ASSUME WebmailInv, NEW d \in Deliverers, DeliveryIsStored(d)
  PROVE  WebmailInv'
<1> DEFINE i == deliverer[d]
<1>1. /\ i \in Inbound /\ i \in Messages /\ inbound[i] = "none" /\ stored + Size[i] <= MailQuota
      /\ inbound' = [inbound EXCEPT ![i] = "accepted"]
      /\ mailbox' = [mailbox EXCEPT ![i] = "folder"]
      /\ stored' = stored + Size[i] /\ deleter' = CountWritten /\ drifted' = drifted
      /\ deliverer' = [deliverer EXCEPT ![d] = NoMessage]
  BY WebmailSizes
  DEF DeliveryIsStored, DeliveryEnds, MessageFits, WebmailInv, WebmailTypeOK
<1>2. /\ WebmailTypeOK /\ IsFiniteSet(KeptMail) /\ CountIsRight /\ stored \in 0 .. MailQuota
      /\ mailbox \in [Messages -> {"none", "folder", "trash", "deleted"}]
      /\ inbound \in [Inbound -> {"none", "accepted", "unfiled", "rejected"}]
  BY DEF WebmailInv, WebmailTypeOK
<1> HIDE DEF i
<1>3. /\ mailbox'[i] = "folder" /\ \A x \in Messages : x # i => mailbox'[x] = mailbox[x]
      /\ inbound'[i] = "accepted" /\ \A j \in Inbound : j # i => inbound'[j] = inbound[j]
  BY <1>1, <1>2
<1>4. i \notin KeptMail /\ KeptMail' = KeptMail \union {i} /\ Gone' = Gone
  <2>1. mailbox[i] = "none"
    BY <1>1, <1>2 DEF CountIsRight
  <2>2. QED
    BY <1>1, <1>3, <2>1, WebmailSizes DEF KeptMail, Gone
<1>5. IsFiniteSet(KeptMail') /\ Total(KeptMail', Size) = Total(KeptMail, Size) + Size[i]
  <2>1. KeptMail \in SUBSET Messages /\ i \in Messages \ KeptMail /\ Size \in [Messages -> Int]
    BY <1>1, <1>4, WebmailSizes
  <2>2. IsFiniteSet(KeptMail)
    BY <1>2
  <2>3. IsFiniteSet(KeptMail \union {i}) /\ Total(KeptMail \union {i}, Size) = Total(KeptMail, Size) + Size[i]
    BY ONLY <2>1, <2>2, TotalWith
  <2>4. QED
    BY <1>4, <2>3
<1>6. /\ deleter' \in [Deleters -> Deletion]
      /\ \A e \in Deleters : /\ deleter'[e].message = deleter[e].message
                             /\ deleter'[e].read = deleter[e].read
                             /\ deleter'[e].message # NoMessage => deleter'[e].stale
  BY <1>1, <1>2, CountWrittenEffect
<1>7. stored' \in 0 .. MailQuota
  BY <1>1, <1>2, WebmailSizes
<1>8. WebmailTypeOK'
  <2>1. mailbox' \in [Messages -> {"none", "folder", "trash", "deleted"}]
          /\ inbound' \in [Inbound -> {"none", "accepted", "unfiled", "rejected"}]
    BY <1>1, <1>2
  <2>2. deliverer' \in [Deliverers -> Inbound \cup {NoMessage}] /\ drifted' \in BOOLEAN
    BY <1>1, <1>2 DEF WebmailTypeOK
  <2>3. QED
    BY <1>6, <1>7, <2>1, <2>2 DEF WebmailTypeOK, Deletion
<1>9. CountIsRight'
  <2>1. IsFiniteSet(Gone)
    BY DEF WebmailInv
  <2>2. Total(KeptMail, Size) \in Nat /\ Total(Gone, Surplus) \in Nat /\ Size[i] \in Nat
    BY <1>1, <1>2, <2>1, WebmailSizes, TotalNatural
  <2>3. stored' \in Nat /\ stored \in Nat /\ stored' = stored + Size[i] /\ stored' <= MailQuota
    BY <1>1, <1>2, <1>7, WebmailSizes
  <2>4. ~drifted' => /\ stored' <= Total(KeptMail', Size)
                     /\ Total(KeptMail', Size) <= stored' + Total(Gone', Surplus)
    BY <1>1, <1>2, <1>4, <1>5, <2>2, <2>3 DEF CountIsRight
  <2>5. \A j \in Inbound : mailbox'[j] # "none" <=> inbound'[j] = "accepted"
    BY <1>1, <1>2, <1>3, WebmailSizes DEF CountIsRight
  <2>6. QED
    BY <2>3, <2>4, <2>5 DEF CountIsRight
<1>10. DeletionsAreRight'
  <2> SUFFICES ASSUME NEW e \in Deleters PROVE DeletionIsRight(deleter[e])'
    BY DEF DeletionsAreRight
  <2>1. DeletionIsRight(deleter[e]) /\ deleter[e].message \in Messages \cup {NoMessage}
    BY DEF WebmailInv, DeletionsAreRight, WebmailTypeOK
  <2>2. QED
    BY <1>1, <1>3, <1>6, <2>1 DEF DeletionIsRight
<1>11. QED
  BY <1>4, <1>5, <1>8, <1>9, <1>10 DEF WebmailInv

LEMMA LargerOfTwo ==
  ASSUME NEW n \in Int
  PROVE  Max({0, n}) = IF n >= 0 THEN n ELSE 0
<1> DEFINE m == IF n >= 0 THEN n ELSE 0
<1>1. m \in {0, n} /\ \A y \in {0, n} : m >= y
  OBVIOUS
<1>2. \A x \in {0, n} : (\A y \in {0, n} : x >= y) => x = m
  OBVIOUS
<1> HIDE DEF m
<1>3. Max({0, n}) = m
  BY <1>1, <1>2 DEF Max
<1>4. QED
  BY <1>3 DEF m

\* What a deletion gives back, and what it leaves of the count it has read.
LEMMA GivenBack ==
  ASSUME NEW x \in Messages
  PROVE  /\ Size[x] \in Nat /\ Surplus[x] \in Nat /\ Reclaimed(x) \in Nat
         /\ x \in Inbound => Reclaimed(x) = Size[x] + Surplus[x]
         /\ x \notin Inbound => Reclaimed(x) = 0
  BY WebmailSizes DEF Reclaimed

LEMMA LeftOver ==
  ASSUME WebmailInv, NEW d \in Deleters, NEW x \in Messages, x = deleter[d].message
  PROVE  /\ Max({0, deleter[d].read - Reclaimed(x)}) \in 0 .. MailQuota
         /\ Max({0, deleter[d].read - Reclaimed(x)})
              = IF deleter[d].read >= Reclaimed(x) THEN deleter[d].read - Reclaimed(x) ELSE 0
<1>1. deleter[d].read \in 0 .. MailQuota /\ MailQuota \in Nat /\ Reclaimed(x) \in Nat
  BY WebmailSizes, GivenBack DEF WebmailInv, WebmailTypeOK
<1>2. Max({0, deleter[d].read - Reclaimed(x)})
        = IF deleter[d].read - Reclaimed(x) >= 0 THEN deleter[d].read - Reclaimed(x) ELSE 0
  BY <1>1, LargerOfTwo
<1>3. QED
  BY <1>1, <1>2

LEMMA DeletionWriteStep ==
  ASSUME WebmailInv, NEW d \in Deleters, DeletionWrites(d)
  PROVE  WebmailInv'
<1> DEFINE read == deleter[d].read
<1>1. PICK x \in Messages : x = deleter[d].message /\ x # NoMessage
  BY DEF DeletionWrites, WebmailInv, WebmailTypeOK
<1> DEFINE left == Max({0, read - Reclaimed(x)})
<1>2. /\ mailbox' = [mailbox EXCEPT ![x] = "deleted"]
      /\ UNCHANGED <<inbound, deliverer>>
      /\ left = read => deleter' = [deleter EXCEPT ![d] = NotDeleting] /\ stored' = stored
      /\ left # read => deleter' = [CountWritten EXCEPT ![d] = NotDeleting] /\ stored' = left
      /\ drifted' = (drifted \/ (deleter[d].stale /\ Reclaimed(x) > 0))
  BY <1>1 DEF DeletionWrites
<1>3. /\ left \in 0 .. MailQuota
      /\ left = IF read >= Reclaimed(x) THEN read - Reclaimed(x) ELSE 0
  BY <1>1, LeftOver
<1> HIDE DEF left
<1>4. /\ WebmailTypeOK /\ IsFiniteSet(KeptMail) /\ IsFiniteSet(Gone) /\ CountIsRight
      /\ stored \in 0 .. MailQuota
      /\ mailbox \in [Messages -> {"none", "folder", "trash", "deleted"}]
      /\ read \in 0 .. MailQuota /\ Size[x] \in Nat /\ drifted \in BOOLEAN
      /\ DeletionIsRight(deleter[d]) /\ deleter[d].stale \in BOOLEAN
      /\ deleter \in [Deleters -> Deletion]
  BY WebmailSizes DEF WebmailInv, WebmailTypeOK, DeletionsAreRight, Deletion
<1> HIDE DEF read
<1>5. /\ mailbox'[x] = "deleted" /\ \A y \in Messages : y # x => mailbox'[y] = mailbox[y]
      /\ mailbox[x] # "none"
  BY <1>1, <1>2, <1>4 DEF DeletionIsRight
<1>6. KeptMail' = KeptMail \ {x} /\ Gone' = IF x \in Inbound THEN Gone \union {x} ELSE Gone
  BY <1>5, WebmailSizes DEF KeptMail, Gone
<1>7. IsFiniteSet(KeptMail') /\ IsFiniteSet(Gone')
  BY <1>4, <1>6, FS_Subset, FS_AddElement
<1>8. /\ deleter' \in [Deleters -> Deletion] /\ deleter'[d] = NotDeleting
      /\ \A e \in Deleters : e # d =>
            /\ deleter'[e].message = deleter[e].message /\ deleter'[e].read = deleter[e].read
            /\ left # read /\ deleter'[e].message # NoMessage => deleter'[e].stale
            /\ left = read => deleter'[e] = deleter[e]
  <2>1. CASE left = read
    BY <1>2, <1>4, <2>1, NotDeletingType
  <2>2. CASE left # read
    <3>1. CountWritten \in [Deleters -> Deletion]
            /\ \A e \in Deleters : /\ CountWritten[e].message = deleter[e].message
                                   /\ CountWritten[e].read = deleter[e].read
                                   /\ CountWritten[e].message # NoMessage => CountWritten[e].stale
      BY <1>4, CountWrittenEffect
    <3>2. /\ deleter' \in [Deleters -> Deletion] /\ deleter'[d] = NotDeleting
          /\ \A e \in Deleters : e # d => deleter'[e] = CountWritten[e]
      BY <1>2, <2>2, <3>1, NotDeletingType
    <3>3. QED
      BY <2>2, <3>1, <3>2
  <2>3. QED
    BY <2>1, <2>2
<1>9. stored' \in 0 .. MailQuota /\ drifted' \in BOOLEAN /\ (~drifted' => ~drifted)
  BY <1>2, <1>3, <1>4
<1>10. WebmailTypeOK'
  <2>1. mailbox' \in [Messages -> {"none", "folder", "trash", "deleted"}]
    BY <1>2, <1>4
  <2>2. QED
    BY <1>2, <1>4, <1>8, <1>9, <2>1 DEF WebmailTypeOK, Deletion
<1>11. ~drifted' => /\ stored' <= Total(KeptMail', Size)
                    /\ Total(KeptMail', Size) <= stored' + Total(Gone', Surplus)
  <2> SUFFICES ASSUME ~drifted'
               PROVE  /\ stored' <= Total(KeptMail', Size)
                      /\ Total(KeptMail', Size) <= stored' + Total(Gone', Surplus)
    OBVIOUS
  <2> DEFINE T == Total(KeptMail, Size)
             U == Total(KeptMail', Size)
             G == Total(Gone, Surplus)
             H == Total(Gone', Surplus)
  <2>1. ~drifted /\ stored <= T /\ T <= stored + G
    BY <1>4, <1>9 DEF CountIsRight
  <2>2. T \in Nat /\ U \in Nat /\ G \in Nat /\ H \in Nat
    BY <1>4, <1>7, WebmailSizes, TotalNatural
  <2>3. x \in KeptMail => T = Size[x] + U
    BY <1>4, <1>6, WebmailSizes, TotalWithout
  <2>4. x \notin KeptMail => U = T
    BY <1>6
  <2>5. G <= H
    <3>1. CASE x \in Inbound
      BY <1>4, <1>6, <3>1, WebmailSizes, TotalGrows
    <3>2. CASE x \notin Inbound
      BY <1>6, <2>2, <3>2
    <3>3. QED
      BY <3>1, <3>2
  <2>6. x \in Inbound /\ x \notin Gone => H = G + Surplus[x]
    <3> SUFFICES ASSUME x \in Inbound, x \notin Gone PROVE H = G + Surplus[x]
      OBVIOUS
    <3>1. /\ Gone \in SUBSET Messages /\ x \in Messages \ Gone /\ IsFiniteSet(Gone)
          /\ Surplus \in [Messages -> Int]
      BY <1>4, WebmailSizes
    <3>2. Total(Gone \union {x}, Surplus) = Total(Gone, Surplus) + Surplus[x]
      BY ONLY <3>1, TotalWith
    <3>3. QED
      BY <1>6, <3>2
  <2>7. x \in KeptMail => x \in Inbound /\ x \notin Gone
    BY DEF KeptMail, Gone
  <2> HIDE DEF T, U, G, H
  <2>8. /\ Size[x] \in Nat /\ Surplus[x] \in Nat /\ Reclaimed(x) \in Nat
        /\ x \in Inbound => Reclaimed(x) = Size[x] + Surplus[x]
        /\ x \notin Inbound => Reclaimed(x) = 0
    BY GivenBack
  <2>9. stored \in Nat /\ read \in Nat
    BY <1>4, WebmailSizes
  <2>10. U <= T
    BY <2>2, <2>3, <2>4, <2>8
  <2>11. Reclaimed(x) > 0 =>
           ~deleter[d].stale /\ read = stored /\ (read > 0 => x \in KeptMail)
    <3>1. Reclaimed(x) > 0 => ~deleter[d].stale
      BY <1>2
    <3>2. QED
      BY <1>1, <1>4, <2>1, <3>1 DEF DeletionIsRight, read
  <2>12. CASE Reclaimed(x) = 0
    <3>1. stored' = stored
      BY <1>2, <1>3, <2>9, <2>12
    <3>2. U = T
      BY <2>2, <2>3, <2>4, <2>7, <2>8, <2>12
    <3>3. QED
      BY <2>1, <2>2, <2>5, <2>9, <3>1, <3>2 DEF T, U, G, H
  <2>13. CASE Reclaimed(x) > 0 /\ read = 0
    <3>1. stored' = 0 /\ stored = 0
      BY <1>2, <1>3, <2>8, <2>11, <2>13
    <3>2. QED
      BY <2>1, <2>2, <2>5, <2>10, <3>1 DEF T, U, G, H
  <2>14. CASE Reclaimed(x) > 0 /\ read > 0
    <3>1. /\ left # read /\ stored' = left /\ read = stored
          /\ x \in KeptMail /\ T = Size[x] + U /\ H = G + Surplus[x]
          /\ Reclaimed(x) = Size[x] + Surplus[x]
      BY <1>2, <1>3, <2>3, <2>6, <2>7, <2>8, <2>9, <2>11, <2>14
    <3>2. stored' <= U /\ U <= stored' + H
      BY <1>3, <2>1, <2>2, <2>8, <2>9, <3>1
    <3>3. QED
      BY <3>2 DEF U, H
  <2>15. QED
    BY <2>8, <2>9, <2>12, <2>13, <2>14
<1>12. CountIsRight'
  <2>1. \A i \in Inbound : mailbox'[i] # "none" <=> inbound'[i] = "accepted"
    BY <1>2, <1>4, <1>5, WebmailSizes DEF CountIsRight
  <2>2. QED
    BY <1>9, <1>11, <2>1, WebmailSizes DEF CountIsRight
<1>13. DeletionsAreRight'
  <2> SUFFICES ASSUME NEW e \in Deleters PROVE DeletionIsRight(deleter[e])'
    BY DEF DeletionsAreRight
  <2>1. CASE e = d
    BY <1>8, <2>1, NotDeletingType DEF DeletionIsRight
  <2>2. CASE e # d /\ left # read
    <3>1. DeletionIsRight(deleter[e]) /\ deleter[e].message \in Messages \cup {NoMessage}
      BY <1>4 DEF WebmailInv, DeletionsAreRight, Deletion
    <3>2. /\ deleter'[e].message = deleter[e].message /\ deleter'[e].read = deleter[e].read
          /\ deleter'[e].message # NoMessage => deleter'[e].stale
      BY <1>8, <2>2
    <3>3. QED
      BY <1>5, <1>9, <3>1, <3>2 DEF DeletionIsRight, Reclaimed
  <2>3. CASE e # d /\ left = read
    <3>1. DeletionIsRight(deleter[e]) /\ deleter[e].message \in Messages \cup {NoMessage}
      BY <1>4 DEF WebmailInv, DeletionsAreRight, Deletion
    <3>2. deleter'[e] = deleter[e] /\ stored' = stored /\ (~drifted' => ~drifted)
      BY <1>2, <1>8, <1>9, <2>3
    <3>3. Reclaimed(x) = 0 \/ read = 0
      BY <1>3, <1>4, <2>3, GivenBack
    <3>4. ~drifted' /\ ~deleter[e].stale /\ Reclaimed(deleter[e].message) > 0
            /\ deleter[e].message # NoMessage /\ deleter[e].read > 0
            => deleter[e].message \in KeptMail'
      <4> SUFFICES ASSUME ~drifted', ~deleter[e].stale, Reclaimed(deleter[e].message) > 0,
                          deleter[e].message # NoMessage, deleter[e].read > 0
                   PROVE  deleter[e].message \in KeptMail'
        OBVIOUS
      <4>1. deleter[e].message \in KeptMail /\ deleter[e].read = stored
        BY <3>1, <3>2 DEF DeletionIsRight
      <4>2. deleter[e].message # x
        <5> SUFFICES ASSUME deleter[e].message = x PROVE FALSE
          OBVIOUS
        <5>1. Reclaimed(x) > 0
          OBVIOUS
        <5>2. ~deleter[d].stale
          BY <1>2, <5>1
        <5>3. read = 0
          BY <3>3, <5>1, GivenBack
        <5>4. read = stored
          BY <1>1, <1>4, <3>2, <5>2 DEF DeletionIsRight, read
        <5>5. QED
          BY <4>1, <5>3, <5>4
      <4>3. QED
        BY <1>6, <4>1, <4>2
    <3>5. QED
      BY <1>5, <3>1, <3>2, <3>4 DEF DeletionIsRight, Reclaimed
  <2>4. QED
    BY <2>1, <2>2, <2>3
<1>14. QED
  BY <1>7, <1>10, <1>12, <1>13 DEF WebmailInv

-------------------------------------------------------------------------------
(* The whole step. *)

LEMMA WebmailStep ==
  ASSUME WebmailInv, [WebmailNext]_webmailVars
  PROVE  WebmailInv'
<1>1. CASE UNCHANGED webmailVars
  <2>1. UNCHANGED <<inbound, mailbox, stored, deliverer, deleter, drifted>>
    BY <1>1 DEF webmailVars
  <2>2. WebmailTypeOK' /\ KeptMail' = KeptMail /\ Gone' = Gone
    BY <2>1 DEF WebmailInv, WebmailTypeOK, KeptMail, Gone
  <2>3. QED
    BY <2>1, <2>2, UncountedStep DEF WebmailInv, CountIsRight
<1>2. ASSUME NEW d \in Deliverers, DeliveryIsStored(d) PROVE WebmailInv'
  BY <1>2, StoreStep
<1>3. ASSUME NEW d \in Deleters,
             DeletionWrites(d) \/ \E x \in Messages : DeletionReads(d, x)
      PROVE  WebmailInv'
  BY <1>3, DeletionReadStep, DeletionWriteStep
<1>4. QED
  BY <1>1, <1>2, <1>3, UncountedSteps DEF WebmailNext

LEMMA WebmailBegins == WebmailInit => WebmailInv
<1> SUFFICES ASSUME WebmailInit PROVE WebmailInv
  OBVIOUS
<1>1. KeptMail = {} /\ IsFiniteSet(KeptMail) /\ Gone = {} /\ IsFiniteSet(Gone)
  <2>1. KeptMail = {} /\ Gone = {}
    BY WebmailSizes DEF WebmailInit, KeptMail, Gone
  <2>2. QED
    BY <2>1, FS_EmptySet
<1>2. Total(KeptMail, Size) = 0 /\ Total(Gone, Surplus) = 0
  BY <1>1, WebmailSizes, TotalBySteps
<1>3. WebmailTypeOK
  <2>1. inbound \in [Inbound -> {"none", "accepted", "unfiled", "rejected"}]
          /\ mailbox \in [Messages -> {"none", "folder", "trash", "deleted"}]
    BY DEF WebmailInit
  <2>2. stored \in 0 .. MailQuota /\ deliverer \in [Deliverers -> Inbound \cup {NoMessage}]
    BY WebmailSizes DEF WebmailInit
  <2>3. deleter \in [Deleters -> Deletion] /\ drifted \in BOOLEAN
    BY NotDeletingType DEF WebmailInit
  <2>4. QED
    BY <2>1, <2>2, <2>3 DEF WebmailTypeOK, Deletion
<1>4. CountIsRight
  BY <1>2, WebmailSizes DEF WebmailInit, CountIsRight
<1>5. DeletionsAreRight
  BY NotDeletingType DEF WebmailInit, DeletionsAreRight, DeletionIsRight
<1>6. QED
  BY <1>1, <1>3, <1>4, <1>5 DEF WebmailInv

LEMMA WebmailInvariant == WebmailSpec => []WebmailInv
<1>1. WebmailInv /\ [WebmailNext]_webmailVars => WebmailInv'
  BY WebmailStep
<1>2. QED
  BY WebmailBegins, <1>1, PTL DEF WebmailSpec

\* The count of stored bytes is within the quota, and says neither more than the
\* inbound messages kept nor less by more than the surplus given back for deleted
\* ones, for any messages, sizes and requests, until a deletion ends on a count
\* that was changed since it read it.
THEOREM QuotaCountsTheMailCorrect == WebmailSpec => []QuotaCountsTheMail
<1>1. WebmailInv => QuotaCountsTheMail
  BY CountIsTheQuotas DEF WebmailInv
<1>2. QED
  BY WebmailInvariant, <1>1, PTL

-------------------------------------------------------------------------------
(***************************************************************************)
(* DKIM keys. The file under the selector of a row holds the key of that   *)
(* row, and a pair that is still to be inserted is in its file and in no   *)
(* other hand.                                                             *)
(***************************************************************************)

\* Versions count rows, so no selector is out of range; the file of a row's
\* selector holds the row's key.
RowIsRight(k) ==
    /\ dkim[k].selector \in Selectors
    /\ Version(k) <= Cardinality(KeyRows)
    /\ keyFile[dkim[k].selector] = k

\* What a request has read or made holds until its commit: a pair that is to be
\* inserted has its file and no row, a key that was found is not forgotten.
KeyReqIsRight(req) ==
    /\ req.step = "generate" => req.version \in 1..(Cardinality(KeyRows) + 1)
    /\ req.step = "insert" =>
          /\ req.key \in DkimKeys \ KeyRows
          /\ req.selector \in Selectors /\ req.selector[2] <= Cardinality(KeyRows) + 1
          /\ keyFile[req.selector] = req.key
    /\ req.step \in {"resolve", "activate"} => req.key \in KeyRows
    /\ req.step = "activate" => req.key \in found /\ req.prior \subseteq KeyRows

KeyRowsAreRight == \A k \in KeyRows : RowIsRight(k)
KeyReqsAreRight == \A r \in KeyRequests : KeyReqIsRight(keyReq[r])

\* No pair is inserted by two requests.
InsertsDiffer ==
    \A r, q \in KeyRequests :
        r # q /\ keyReq[r].step = "insert" /\ keyReq[q].step = "insert" =>
            keyReq[r].key # keyReq[q].key

SelectorWasFound == domain.selector # NoKey => domain.selector \in found

KeysInv ==
    /\ KeysTypeOK /\ KeyRowsAreRight /\ KeyReqsAreRight
    /\ InsertsDiffer /\ SelectorWasFound

-------------------------------------------------------------------------------
(* Rows and counts, and what the steps write. *)

LEMMA RowsAreCounted ==
  ASSUME KeysTypeOK
  PROVE  /\ KeyRows \in SUBSET DkimKeys /\ IsFiniteSet(KeyRows)
         /\ Cardinality(KeyRows) \in Nat /\ Cardinality(DkimKeys) \in Nat
         /\ Cardinality(KeyRows) <= Cardinality(DkimKeys)
<1>1. KeyRows \in SUBSET DkimKeys
  BY DEF KeyRows
<1>2. QED
  BY <1>1, KeysAssumption, FS_Subset, FS_CardinalityType

\* The version of a row is a number.
LEMMA VersionsCount ==
  ASSUME KeysInv, NEW k \in KeyRows
  PROVE  /\ k \in DkimKeys /\ dkim[k] \in KeyRow
         /\ Version(k) \in 0 .. Cardinality(KeyRows)
<1>1. k \in DkimKeys /\ dkim[k] \in KeyRow /\ RowIsRight(k)
  BY DEF KeysInv, KeysTypeOK, KeyRowsAreRight, KeyRows
<1>2. Version(k) \in Nat
  BY <1>1 DEF RowIsRight, Selectors, Version
<1>3. QED
  BY <1>1, <1>2, RowsAreCounted DEF RowIsRight, KeysInv

\* The next version is in range of the rows there are.
LEMMA NextVersion ==
  ASSUME KeysInv
  PROVE  1 + Max({0} \union {Version(k) : k \in KeyRows}) \in 1 .. Cardinality(KeyRows) + 1
<1> DEFINE V == {0} \union {Version(k) : k \in KeyRows}
<1>1. V \in SUBSET (0 .. Cardinality(KeyRows)) /\ V # {} /\ Cardinality(KeyRows) \in Nat
  BY VersionsCount, RowsAreCounted DEF KeysInv
<1> HIDE DEF V
<1>2. \E x \in V : \A y \in V : x >= y
  BY <1>1, BoundedMax
<1>3. Max(V) \in V
  BY <1>2 DEF Max
<1>4. 1 + Max(V) \in 1 .. Cardinality(KeyRows) + 1
  <2>1. Max(V) \in 0 .. Cardinality(KeyRows)
    BY <1>1, <1>3
  <2>2. ASSUME NEW n \in 0 .. Cardinality(KeyRows) PROVE 1 + n \in 1 .. Cardinality(KeyRows) + 1
    BY <1>1, <2>2
  <2>3. QED
    BY <2>1, <2>2
<1>5. QED
  BY <1>4 DEF V

LEMMA IdleReqType ==
  /\ IdleReq \in KeyReq
  /\ IdleReq.step = "idle" /\ IdleReq.key = NoKey
<1>1. {} \in SUBSET DkimKeys
  OBVIOUS
<1>2. PICK no \in BOOLEAN : no = FALSE
  OBVIOUS
<1>3. PICK S \in SUBSET DkimKeys : S = {}
  BY <1>1
<1>4. IdleReq = [step |-> "idle", key |-> NoKey, version |-> 0, selector |-> NoSelector,
                 status |-> "DNS_REQUIRED", selected |-> no, active |-> no, prior |-> S]
  BY <1>2, <1>3 DEF IdleReq
<1>5. QED
  BY <1>4 DEF KeyReq, DomainStates

\* The tables of keys and files stay, and no request begins to insert.
LEMMA RequestStep ==
  ASSUME KeysInv, dkim' = dkim, keyFile' = keyFile,
         day' \in 0 .. LastDay, domain' \in Domain, domain'.selector = domain.selector,
         dnsAnswers' \in SUBSET DkimKeys, found' \in SUBSET DkimKeys, found \subseteq found',
         keyReq' \in [KeyRequests -> KeyReq],
         \A q \in KeyRequests :
            \/ keyReq'[q] = keyReq[q]
            \/ keyReq'[q].step # "insert" /\ KeyReqIsRight(keyReq[q])'
  PROVE  KeysInv'
<1>1. KeyRows' = KeyRows
  BY DEF KeyRows
<1>2. KeysTypeOK'
  BY DEF KeysInv, KeysTypeOK
<1>3. KeyRowsAreRight'
  BY <1>1 DEF KeysInv, KeyRowsAreRight, RowIsRight, Version
<1>4. KeyReqsAreRight'
  <2> SUFFICES ASSUME NEW q \in KeyRequests PROVE KeyReqIsRight(keyReq[q])'
    BY DEF KeyReqsAreRight
  <2>1. CASE keyReq'[q] = keyReq[q]
    BY <1>1, <2>1 DEF KeysInv, KeyReqsAreRight, KeyReqIsRight
  <2>2. QED
    BY <2>1
<1>5. InsertsDiffer'
  BY DEF KeysInv, InsertsDiffer
<1>6. SelectorWasFound'
  BY DEF KeysInv, SelectorWasFound
<1>7. QED
  BY <1>2, <1>3, <1>4, <1>5, <1>6 DEF KeysInv

LEMMA RotateReadStep ==
  ASSUME KeysInv, NEW r \in KeyRequests, RotateRead(r)
  PROVE  KeysInv'
<1> DEFINE version == 1 + Max({0} \union {Version(k) : k \in KeyRows})
<1> DEFINE new == [IdleReq EXCEPT !.step = "generate", !.version = version]
<1>1. /\ keyReq' = [keyReq EXCEPT ![r] = new]
      /\ UNCHANGED <<day, domain, dkim, keyFile, dnsAnswers, found>>
  BY DEF RotateRead
<1>2. KeysTypeOK /\ Cardinality(KeyRows) \in Nat
  BY RowsAreCounted DEF KeysInv
<1>3. version \in 1 .. Cardinality(KeyRows) + 1
  BY NextVersion
<1> HIDE DEF version
<1>4. new \in KeyReq /\ new.step = "generate" /\ new.version = version
  <2>1. version \in Nat
    BY <1>2, <1>3
  <2>2. QED
    BY <2>1, IdleReqType DEF KeyReq
<1> HIDE DEF new
<1>5. keyReq' \in [KeyRequests -> KeyReq] /\ keyReq'[r] = new
      /\ \A q \in KeyRequests : q # r => keyReq'[q] = keyReq[q]
  BY <1>1, <1>2, <1>4 DEF KeysTypeOK
<1>6. KeyRows' = KeyRows
  BY <1>1 DEF KeyRows
<1>7. KeyReqIsRight(keyReq[r])'
  BY <1>3, <1>4, <1>5, <1>6 DEF KeyReqIsRight
<1>8. QED
  BY <1>1, <1>2, <1>4, <1>5, <1>7, RequestStep DEF KeysTypeOK

\* A request ends, and leaves the tables.
LEMMA KeyRequestEnds ==
  ASSUME KeysTypeOK, NEW r \in KeyRequests, keyReq' = [keyReq EXCEPT ![r] = IdleReq]
  PROVE  /\ keyReq' \in [KeyRequests -> KeyReq] /\ keyReq'[r].step = "idle"
         /\ \A q \in KeyRequests : q # r => keyReq'[q] = keyReq[q]
         /\ KeyReqIsRight(keyReq[r])'
<1>1. keyReq' \in [KeyRequests -> KeyReq] /\ keyReq'[r] = IdleReq
         /\ \A q \in KeyRequests : q # r => keyReq'[q] = keyReq[q]
  BY IdleReqType DEF KeysTypeOK
<1>2. QED
  BY <1>1, IdleReqType DEF KeyReqIsRight

LEMMA RotateGenerateStep ==
  ASSUME KeysInv, NEW r \in KeyRequests, RotateGenerate(r)
  PROVE  KeysInv'
<1> DEFINE selector == <<day, keyReq[r].version>>
<1>1. keyReq[r].step = "generate" /\ keyReq[r] \in KeyReq /\ KeysTypeOK
      /\ UNCHANGED <<day, domain, dkim, dnsAnswers, found>>
  BY DEF RotateGenerate, KeysInv, KeysTypeOK
<1>2. KeyRows' = KeyRows /\ KeyRows \in SUBSET DkimKeys /\ Cardinality(KeyRows) \in Nat
  BY <1>1, RowsAreCounted DEF KeyRows
<1>3. keyReq[r].version \in 1 .. Cardinality(KeyRows) + 1
  BY <1>1 DEF KeysInv, KeyReqsAreRight, KeyReqIsRight
<1>4. selector \in Selectors /\ selector[2] <= Cardinality(KeyRows) + 1
  BY <1>1, <1>2, <1>3, RowsAreCounted DEF Selectors, KeysTypeOK
<1> HIDE DEF selector
<1>5. CASE ~ NameFree(selector)
  <2>1. keyReq' = [keyReq EXCEPT ![r] = IdleReq] /\ keyFile' = keyFile
    BY <1>5 DEF RotateGenerate, selector
  <2>2. keyReq' \in [KeyRequests -> KeyReq] /\ keyReq'[r].step = "idle"
         /\ (\A q \in KeyRequests : q # r => keyReq'[q] = keyReq[q])
         /\ KeyReqIsRight(keyReq[r])'
    BY <1>1, <2>1, KeyRequestEnds
  <2>3. QED
    BY <1>1, <2>1, <2>2, RequestStep DEF KeysTypeOK
<1>6. CASE NameFree(selector)
  <2> DEFINE new(k) == [keyReq[r] EXCEPT !.step = "insert", !.key = k, !.selector = selector]
  <2>1. PICK k \in Fresh : /\ keyFile' = [keyFile EXCEPT ![selector] = k]
                           /\ keyReq' = [keyReq EXCEPT ![r] = new(k)]
    BY <1>6 DEF RotateGenerate, selector
  <2>2. /\ k \in DkimKeys /\ k \notin KeyRows
        /\ \A q \in KeyRequests : keyReq[q].key # k
    BY <2>1 DEF Fresh
  <2>3. /\ new(k) \in KeyReq /\ new(k).step = "insert" /\ new(k).key = k
        /\ new(k).selector = selector
    BY <1>1, <1>4, <2>2 DEF KeyReq
  <2> HIDE DEF new
  <2>4. keyReq' \in [KeyRequests -> KeyReq] /\ keyReq'[r] = new(k)
        /\ \A q \in KeyRequests : q # r => keyReq'[q] = keyReq[q]
    BY <1>1, <2>1, <2>3 DEF KeysTypeOK
  <2>5. /\ keyFile' \in [Selectors -> DkimKeys \union {NoKey}] /\ keyFile'[selector] = k
        /\ \A s \in Selectors : s # selector => keyFile'[s] = keyFile[s]
        /\ keyFile[selector] = NoKey
    BY <1>1, <1>4, <1>6, <2>1, <2>2 DEF KeysTypeOK, NameFree
  <2>6. KeysTypeOK'
    BY <1>1, <2>4, <2>5 DEF KeysTypeOK
  <2>7. \A s \in Selectors : keyFile[s] \in DkimKeys => keyFile'[s] = keyFile[s]
    BY <2>5, KeysAssumption
  <2>8. KeyRowsAreRight'
    BY <1>1, <1>2, <2>7 DEF KeysInv, KeyRowsAreRight, RowIsRight, Version
  <2>9. KeyReqsAreRight'
    <3> SUFFICES ASSUME NEW q \in KeyRequests PROVE KeyReqIsRight(keyReq[q])'
      BY DEF KeyReqsAreRight
    <3>1. CASE q = r
      BY <1>2, <1>4, <2>2, <2>3, <2>4, <2>5, <3>1 DEF KeyReqIsRight
    <3>2. CASE q # r
      <4>1. keyReq'[q] = keyReq[q] /\ KeyReqIsRight(keyReq[q])
        BY <2>4, <3>2 DEF KeysInv, KeyReqsAreRight
      <4>2. QED
        BY <1>1, <1>2, <2>7, <4>1 DEF KeyReqIsRight
    <3>3. QED
      BY <3>1, <3>2
  <2>10. InsertsDiffer'
    BY <2>2, <2>3, <2>4 DEF KeysInv, InsertsDiffer
  <2>11. SelectorWasFound'
    BY <1>1 DEF KeysInv, SelectorWasFound
  <2>12. QED
    BY <2>6, <2>8, <2>9, <2>10, <2>11 DEF KeysInv
<1>7. QED
  BY <1>5, <1>6

LEMMA RotateInsertStep ==
  ASSUME KeysInv, NEW r \in KeyRequests, RotateInsert(r)
  PROVE  KeysInv'
<1> DEFINE key == keyReq[r].key
<1> DEFINE new == [state |-> "PENDING_DNS", selector |-> keyReq[r].selector]
<1>1. /\ keyReq[r].step = "insert" /\ KeysTypeOK
      /\ keyReq' = [keyReq EXCEPT ![r] = IdleReq]
      /\ UNCHANGED <<day, domain, keyFile, dnsAnswers, found>>
  BY DEF RotateInsert, KeysInv
<1>2. /\ key \in DkimKeys \ KeyRows /\ keyReq[r].selector \in Selectors
      /\ keyReq[r].selector[2] <= Cardinality(KeyRows) + 1
      /\ keyFile[keyReq[r].selector] = key
  BY <1>1 DEF KeysInv, KeyReqsAreRight, KeyReqIsRight
<1>3. /\ keyReq' \in [KeyRequests -> KeyReq] /\ keyReq'[r].step = "idle"
      /\ \A q \in KeyRequests : q # r => keyReq'[q] = keyReq[q]
      /\ KeyReqIsRight(keyReq[r])'
  BY <1>1, KeyRequestEnds
<1>4. CASE dkim' = dkim
  BY <1>1, <1>3, <1>4, RequestStep DEF KeysTypeOK
<1>5. CASE dkim' = [dkim EXCEPT ![key] = new]
  <2>1. new \in KeyRow /\ new.state = "PENDING_DNS" /\ new.selector = keyReq[r].selector
    BY <1>2 DEF KeyRow, KeyStates
  <2> HIDE DEF new
  <2>2. /\ dkim' \in [DkimKeys -> KeyRow] /\ dkim'[key] = new
        /\ \A k \in DkimKeys : k # key => dkim'[k] = dkim[k]
    BY <1>1, <1>2, <1>5, <2>1 DEF KeysTypeOK
  <2> HIDE DEF key
  <2>3. KeyRows' = KeyRows \union {key}
    BY <1>2, <2>1, <2>2 DEF KeyRows
  <2>4. Cardinality(KeyRows') = Cardinality(KeyRows) + 1 /\ Cardinality(KeyRows) \in Nat
    BY <1>1, <1>2, <2>3, RowsAreCounted, FS_AddElement
  <2>5. KeysTypeOK'
    BY <1>1, <1>3, <2>2 DEF KeysTypeOK
  <2>6. KeyRowsAreRight'
    <3> SUFFICES ASSUME NEW k \in KeyRows' PROVE RowIsRight(k)'
      BY DEF KeyRowsAreRight
    <3>1. CASE k = key
      BY <1>1, <1>2, <2>1, <2>2, <2>4, <3>1 DEF RowIsRight, Version
    <3>2. CASE k # key
      <4>1. k \in KeyRows /\ dkim'[k] = dkim[k] /\ RowIsRight(k)
        BY <2>2, <2>3, <3>2 DEF KeysInv, KeyRowsAreRight, KeyRows
      <4>2. Version(k) \in 0 .. Cardinality(KeyRows)
        BY <4>1, VersionsCount
      <4>3. QED
        BY <1>1, <2>4, <4>1, <4>2 DEF RowIsRight, Version
    <3>3. QED
      BY <3>1, <3>2
  <2>7. KeyReqsAreRight'
    <3> SUFFICES ASSUME NEW q \in KeyRequests, q # r PROVE KeyReqIsRight(keyReq[q])'
      BY <1>3 DEF KeyReqsAreRight
    <3>1. keyReq'[q] = keyReq[q] /\ KeyReqIsRight(keyReq[q]) /\ keyReq[q] \in KeyReq
      BY <1>1, <1>3 DEF KeysInv, KeyReqsAreRight, KeysTypeOK
    <3>2. keyReq[q].step = "insert" => keyReq[q].key # key
      BY <1>1 DEF KeysInv, InsertsDiffer, key
    <3>3. keyReq[q].step = "generate" => keyReq[q].version \in 1 .. Cardinality(KeyRows') + 1
      BY <2>4, <3>1 DEF KeyReqIsRight
    <3>4. ASSUME keyReq[q].step = "insert"
          PROVE  keyReq[q].selector \in Selectors
                 /\ keyReq[q].selector[2] <= Cardinality(KeyRows') + 1
      BY <2>4, <3>1, <3>4 DEF KeyReqIsRight, Selectors
    <3>5. QED
      BY <1>1, <2>3, <3>1, <3>2, <3>3, <3>4 DEF KeyReqIsRight
  <2>8. InsertsDiffer'
    BY <1>3 DEF KeysInv, InsertsDiffer
  <2>9. SelectorWasFound'
    BY <1>1 DEF KeysInv, SelectorWasFound
  <2>10. QED
    BY <2>5, <2>6, <2>7, <2>8, <2>9 DEF KeysInv
<1>6. QED
  BY <1>4, <1>5 DEF RotateInsert

\* The steps of a verification and a check, and those of the tenant, the
\* registry and the day: no row and no file is made.
LEMMA VerifyReadStep ==
  ASSUME KeysInv, NEW r \in KeyRequests, NEW k \in DkimKeys, VerifyRead(r, k)
  PROVE  KeysInv'
<1>1. PICK selected \in BOOLEAN, active \in BOOLEAN :
         /\ selected = (domain.selector = k)
         /\ active = (dkim[k].state = "ACTIVE")
  OBVIOUS
<1> DEFINE new == [IdleReq EXCEPT !.step = "resolve", !.key = k, !.selected = selected,
                                  !.active = active]
<1>2. /\ k \in KeyRows /\ KeysTypeOK /\ keyReq' = [keyReq EXCEPT ![r] = new]
      /\ UNCHANGED <<day, domain, dkim, keyFile, dnsAnswers, found>>
  BY <1>1 DEF VerifyRead, KeysInv
<1>3. new \in KeyReq /\ new.step = "resolve" /\ new.key = k
  BY IdleReqType DEF KeyReq
<1> HIDE DEF new
<1>4. keyReq' \in [KeyRequests -> KeyReq] /\ keyReq'[r] = new
      /\ \A q \in KeyRequests : q # r => keyReq'[q] = keyReq[q]
  BY <1>2, <1>3 DEF KeysTypeOK
<1>5. KeyRows' = KeyRows
  BY <1>2 DEF KeyRows
<1>6. KeyReqIsRight(keyReq[r])'
  BY <1>2, <1>3, <1>4, <1>5 DEF KeyReqIsRight
<1>7. QED
  BY <1>2, <1>3, <1>4, <1>6, RequestStep DEF KeysTypeOK

LEMMA VerifyResolveStep ==
  ASSUME KeysInv, NEW r \in KeyRequests, VerifyResolve(r)
  PROVE  KeysInv'
<1> DEFINE k == keyReq[r].key
<1>1. /\ keyReq[r].step = "resolve" /\ KeysTypeOK /\ keyReq[r] \in KeyReq
      /\ found' = found \union ({k} \intersect dnsAnswers)
      /\ UNCHANGED <<day, domain, dkim, keyFile, dnsAnswers>>
  BY DEF VerifyResolve, KeysInv, KeysTypeOK
<1>2. k \in KeyRows /\ KeyRows' = KeyRows /\ k \in DkimKeys
  BY <1>1 DEF KeysInv, KeyReqsAreRight, KeyReqIsRight, KeyRows
<1>3. found' \in SUBSET DkimKeys /\ found \subseteq found'
  BY <1>1 DEF KeysTypeOK
<1>4. CASE ~ DnsMatches(k)
  <2>1. keyReq' = [keyReq EXCEPT ![r] = IdleReq]
    BY <1>4 DEF VerifyResolve
  <2>2. keyReq' \in [KeyRequests -> KeyReq] /\ keyReq'[r].step = "idle"
         /\ (\A q \in KeyRequests : q # r => keyReq'[q] = keyReq[q])
         /\ KeyReqIsRight(keyReq[r])'
    BY <1>1, <2>1, KeyRequestEnds
  <2>3. QED
    BY <1>1, <1>3, <2>2, RequestStep DEF KeysTypeOK
<1>5. CASE DnsMatches(k)
  <2> DEFINE prior == ActiveKeys \ {k}
  <2> DEFINE new == [keyReq[r] EXCEPT !.step = "activate", !.prior = prior]
  <2>1. keyReq' = [keyReq EXCEPT ![r] = new]
    BY <1>5 DEF VerifyResolve
  <2>2. prior \subseteq KeyRows /\ prior \in SUBSET DkimKeys /\ k \in found'
    BY <1>1, <1>5 DEF ActiveKeys, KeyRows, DnsMatches
  <2> HIDE DEF prior
  <2>3. new \in KeyReq /\ new.step = "activate" /\ new.key = k /\ new.prior = prior
    BY <1>1, <2>2 DEF KeyReq
  <2> HIDE DEF new
  <2>4. keyReq' \in [KeyRequests -> KeyReq] /\ keyReq'[r] = new
      /\ \A q \in KeyRequests : q # r => keyReq'[q] = keyReq[q]
    BY <1>1, <2>1, <2>3 DEF KeysTypeOK
  <2>5. KeyReqIsRight(keyReq[r])'
    BY <1>2, <2>2, <2>3, <2>4 DEF KeyReqIsRight
  <2>6. QED
    BY <1>1, <1>3, <2>3, <2>4, <2>5, RequestStep DEF KeysTypeOK
<1>6. QED
  BY <1>4, <1>5

LEMMA VerifyActivateStep ==
  ASSUME KeysInv, NEW r \in KeyRequests, VerifyActivate(r)
  PROVE  KeysInv'
<1> DEFINE req == keyReq[r]
<1>1. /\ req.step = "activate" /\ KeysTypeOK /\ req \in KeyReq
      /\ dkim' = [k \in DkimKeys |->
             IF k \in req.prior THEN [dkim[k] EXCEPT !.state = "RETIRED"]
             ELSE IF k = req.key /\ ~req.active THEN [dkim[k] EXCEPT !.state = "ACTIVE"]
             ELSE dkim[k]]
      /\ domain' = IF req.selected THEN domain ELSE [domain EXCEPT !.selector = req.key]
      /\ keyReq' = [keyReq EXCEPT ![r] = IdleReq]
      /\ UNCHANGED <<day, keyFile, dnsAnswers, found>>
  BY DEF VerifyActivate, KeysInv, KeysTypeOK
<1>2. /\ req.key \in KeyRows /\ req.key \in found /\ req.prior \subseteq KeyRows
      /\ req.key \in DkimKeys
  BY <1>1 DEF KeysInv, KeyReqsAreRight, KeyReqIsRight, KeyRows
<1> HIDE DEF req
<1>3. ASSUME NEW k \in DkimKeys
      PROVE  /\ dkim'[k] \in KeyRow /\ dkim'[k].selector = dkim[k].selector
             /\ dkim'[k].state # "none" <=> dkim[k].state # "none"
  <2>1. dkim[k] \in KeyRow /\ {"RETIRED", "ACTIVE"} \subseteq KeyStates
    BY <1>1 DEF KeysTypeOK, KeyStates
  <2>2. CASE k \in req.prior
    <3>1. dkim'[k] = [dkim[k] EXCEPT !.state = "RETIRED"] /\ dkim[k].state # "none"
      BY <1>1, <1>2, <2>2 DEF KeyRows
    <3>2. QED
      BY <2>1, <3>1 DEF KeyRow
  <2>3. CASE k \notin req.prior /\ k = req.key /\ ~req.active
    <3>1. dkim'[k] = [dkim[k] EXCEPT !.state = "ACTIVE"] /\ dkim[k].state # "none"
      BY <1>1, <1>2, <2>3 DEF KeyRows
    <3>2. QED
      BY <2>1, <3>1 DEF KeyRow
  <2>4. CASE k \notin req.prior /\ ~(k = req.key /\ ~req.active)
    BY <1>1, <2>1, <2>4
  <2>5. QED
    BY <2>2, <2>3, <2>4
<1>4. dkim' \in [DkimKeys -> KeyRow] /\ KeyRows' = KeyRows
      /\ \A k \in KeyRows : dkim'[k].selector = dkim[k].selector
  <2>1. dkim' \in [DkimKeys -> KeyRow]
    BY <1>1, <1>3
  <2>2. QED
    BY <1>3, <2>1 DEF KeyRows
<1>5. /\ domain' \in Domain
      /\ domain'.selector # NoKey => domain'.selector \in found
  <2>1. domain \in Domain /\ SelectorWasFound
    BY <1>1 DEF KeysTypeOK, KeysInv
  <2>2. CASE req.selected
    BY <1>1, <2>1, <2>2 DEF SelectorWasFound
  <2>3. CASE ~ req.selected
    BY <1>1, <1>2, <2>1, <2>3 DEF Domain
  <2>4. QED
    BY <2>2, <2>3
<1>6. /\ keyReq' \in [KeyRequests -> KeyReq] /\ keyReq'[r].step = "idle"
      /\ \A q \in KeyRequests : q # r => keyReq'[q] = keyReq[q]
      /\ KeyReqIsRight(keyReq[r])'
  BY <1>1, KeyRequestEnds
<1>7. KeysTypeOK'
  BY <1>1, <1>4, <1>5, <1>6 DEF KeysTypeOK
<1>8. KeyRowsAreRight'
  BY <1>1, <1>4 DEF KeysInv, KeyRowsAreRight, RowIsRight, Version
<1>9. KeyReqsAreRight'
  <2> SUFFICES ASSUME NEW q \in KeyRequests, q # r PROVE KeyReqIsRight(keyReq[q])'
    BY <1>6 DEF KeyReqsAreRight
  <2>1. keyReq'[q] = keyReq[q] /\ KeyReqIsRight(keyReq[q])
    BY <1>6 DEF KeysInv, KeyReqsAreRight
  <2>2. QED
    BY <1>1, <1>4, <2>1 DEF KeyReqIsRight
<1>10. InsertsDiffer'
  BY <1>6 DEF KeysInv, InsertsDiffer
<1>11. SelectorWasFound'
  BY <1>1, <1>5 DEF SelectorWasFound
<1>12. QED
  BY <1>7, <1>8, <1>9, <1>10, <1>11 DEF KeysInv

LEMMA CheckReadStep ==
  ASSUME KeysInv, NEW r \in KeyRequests, CheckRead(r)
  PROVE  KeysInv'
<1> DEFINE new(k) == [IdleReq EXCEPT !.step = "check", !.key = k, !.status = domain.status]
<1>1. KeysTypeOK /\ UNCHANGED <<day, domain, dkim, keyFile, dnsAnswers, found>>
  BY DEF CheckRead, KeysInv
<1>2. PICK k \in DkimKeys \union {NoKey} : keyReq' = [keyReq EXCEPT ![r] = new(k)]
  <2>1. CASE ActiveKeys = {}
    BY <2>1 DEF CheckRead
  <2>2. CASE ActiveKeys # {}
    BY <2>2 DEF CheckRead, ActiveKeys
  <2>3. QED
    BY <2>1, <2>2
<1>3. new(k) \in KeyReq /\ new(k).step = "check"
  BY <1>1, IdleReqType DEF KeyReq, KeysTypeOK, Domain
<1> HIDE DEF new
<1>4. keyReq' \in [KeyRequests -> KeyReq] /\ keyReq'[r] = new(k)
      /\ \A q \in KeyRequests : q # r => keyReq'[q] = keyReq[q]
  BY <1>1, <1>2, <1>3 DEF KeysTypeOK
<1>5. KeyReqIsRight(keyReq[r])'
  BY <1>3, <1>4 DEF KeyReqIsRight
<1>6. QED
  BY <1>1, <1>3, <1>4, <1>5, RequestStep DEF KeysTypeOK

\* The status alone is written.
LEMMA StatusStep ==
  ASSUME KeysTypeOK, NEW status \in DomainStates,
         domain' = domain \/ domain' = [domain EXCEPT !.status = status]
  PROVE  domain' \in Domain /\ domain'.selector = domain.selector
BY DEF KeysTypeOK, Domain

LEMMA CheckWriteStep ==
  ASSUME KeysInv, NEW r \in KeyRequests, CheckWrite(r)
  PROVE  KeysInv'
<1>1. /\ KeysTypeOK /\ keyReq' = [keyReq EXCEPT ![r] = IdleReq]
      /\ UNCHANGED <<day, dkim, keyFile, dnsAnswers, found>>
  BY DEF CheckWrite, KeysInv
<1>2. domain' \in Domain /\ domain'.selector = domain.selector
  <2> DEFINE read == keyReq[r].status
  <2> DEFINE status(good) == CASE read = "SUSPENDED" -> read
                               [] good -> "VERIFIED"
                               [] OTHER -> "DNS_REQUIRED"
  <2>1. PICK good \in {FALSE, keyReq[r].key \in dnsAnswers} :
             domain' = IF status(good) = read THEN domain
                       ELSE [domain EXCEPT !.status = status(good)]
    BY DEF CheckWrite
  <2>2. status(good) \in DomainStates
    <3>1. CASE read = "SUSPENDED"
      BY <3>1 DEF DomainStates
    <3>2. CASE read # "SUSPENDED" /\ good
      BY <3>2 DEF DomainStates
    <3>3. CASE read # "SUSPENDED" /\ ~good
      BY <3>3 DEF DomainStates
    <3>4. QED
      BY <3>1, <3>2, <3>3
  <2> HIDE DEF status
  <2>3. domain' = domain \/ domain' = [domain EXCEPT !.status = status(good)]
    BY <2>1
  <2>4. QED
    BY <1>1, <2>2, <2>3, StatusStep
<1>3. /\ keyReq' \in [KeyRequests -> KeyReq] /\ keyReq'[r].step = "idle"
      /\ \A q \in KeyRequests : q # r => keyReq'[q] = keyReq[q]
      /\ KeyReqIsRight(keyReq[r])'
  BY <1>1, KeyRequestEnds
<1>4. QED
  BY <1>1, <1>2, <1>3, RequestStep DEF KeysTypeOK

LEMMA OutsideKeysStep ==
  ASSUME KeysInv,
         \/ Midnight \/ DomainVerify \/ DomainSuspend \/ \E k \in DkimKeys : Publish(k)
         \/ UNCHANGED keysVars
  PROVE  KeysInv'
<1>1. KeysTypeOK /\ dkim' = dkim /\ keyFile' = keyFile /\ found' = found /\ keyReq' = keyReq
  BY DEF KeysInv, Midnight, DomainVerify, DomainSuspend, Publish, keysVars
<1>2. day' \in 0 .. LastDay
  BY <1>1, KeysAssumption
  DEF KeysTypeOK, Midnight, DomainVerify, DomainSuspend, Publish, keysVars
<1>3. dnsAnswers' \in SUBSET DkimKeys
  BY <1>1 DEF KeysTypeOK, Midnight, DomainVerify, DomainSuspend, Publish, keysVars
<1>4. domain' \in Domain /\ domain'.selector = domain.selector
  <2>1. CASE DomainVerify
    <3>1. PICK status \in DomainStates : domain' = [domain EXCEPT !.status = status]
      BY <2>1 DEF DomainVerify, DomainStates
    <3>2. QED
      BY <1>1, <3>1, StatusStep
  <2>2. CASE DomainSuspend
    <3>1. "SUSPENDED" \in DomainStates /\ domain' = [domain EXCEPT !.status = "SUSPENDED"]
      BY <2>2 DEF DomainSuspend, DomainStates
    <3>2. QED
      BY <1>1, <3>1, StatusStep
  <2>3. CASE domain' = domain
    BY <1>1, <2>3 DEF KeysTypeOK
  <2>4. QED
    BY <2>1, <2>2, <2>3 DEF Midnight, Publish, keysVars
<1>5. QED
  BY <1>1, <1>2, <1>3, <1>4, RequestStep DEF KeysTypeOK

LEMMA KeyReqDiesStep ==
  ASSUME KeysInv, NEW r \in KeyRequests, KeyReqDies(r)
  PROVE  KeysInv'
<1>1. /\ KeysTypeOK /\ keyReq' = [keyReq EXCEPT ![r] = IdleReq]
      /\ UNCHANGED <<day, domain, dkim, keyFile, dnsAnswers, found>>
  BY DEF KeyReqDies, KeysInv
<1>2. /\ keyReq' \in [KeyRequests -> KeyReq] /\ keyReq'[r].step = "idle"
      /\ \A q \in KeyRequests : q # r => keyReq'[q] = keyReq[q]
      /\ KeyReqIsRight(keyReq[r])'
  BY <1>1, KeyRequestEnds
<1>3. QED
  BY <1>1, <1>2, RequestStep DEF KeysTypeOK

LEMMA KeysStep ==
  ASSUME KeysInv, [KeysNext]_keysVars
  PROVE  KeysInv'
<1>1. ASSUME NEW r \in KeyRequests,
             \/ RotateRead(r) \/ RotateGenerate(r) \/ RotateInsert(r)
             \/ VerifyResolve(r) \/ VerifyActivate(r) \/ CheckRead(r) \/ CheckWrite(r)
             \/ KeyReqDies(r)
             \/ \E k \in DkimKeys : VerifyRead(r, k)
      PROVE  KeysInv'
  BY <1>1, RotateReadStep, RotateGenerateStep, RotateInsertStep, VerifyReadStep,
     VerifyResolveStep, VerifyActivateStep, CheckReadStep, CheckWriteStep, KeyReqDiesStep
<1>2. QED
  BY <1>1, OutsideKeysStep DEF KeysNext

LEMMA KeysBegin == KeysInit => KeysInv
<1> SUFFICES ASSUME KeysInit PROVE KeysInv
  OBVIOUS
<1>1. KeyRows = {}
  BY DEF KeysInit, KeyRows
<1>2. KeysTypeOK
  <2>1. NewDomain \in Domain
    BY DEF NewDomain, Domain, DomainStates
  <2>2. [state |-> "none", selector |-> NoSelector] \in KeyRow
    BY DEF KeyRow, KeyStates
  <2>3. dkim \in [DkimKeys -> KeyRow] /\ keyFile \in [Selectors -> DkimKeys \union {NoKey}]
    BY <2>2 DEF KeysInit
  <2>4. keyReq \in [KeyRequests -> KeyReq] /\ day \in 0 .. LastDay
    BY IdleReqType, KeysAssumption DEF KeysInit
  <2>5. dnsAnswers \in SUBSET DkimKeys /\ found \in SUBSET DkimKeys
    BY DEF KeysInit
  <2>6. QED
    BY <2>1, <2>3, <2>4, <2>5 DEF KeysInit, KeysTypeOK
<1>3. KeyRowsAreRight
  BY <1>1 DEF KeyRowsAreRight
<1>4. KeyReqsAreRight
  BY IdleReqType DEF KeysInit, KeyReqsAreRight, KeyReqIsRight
<1>5. InsertsDiffer
  BY IdleReqType DEF KeysInit, InsertsDiffer
<1>6. SelectorWasFound
  BY DEF KeysInit, NewDomain, SelectorWasFound
<1>7. QED
  BY <1>2, <1>3, <1>4, <1>5, <1>6 DEF KeysInv

LEMMA KeysInvariant == KeysSpec => []KeysInv
<1>1. KeysInv /\ [KeysNext]_keysVars => KeysInv'
  BY KeysStep
<1>2. QED
  BY KeysBegin, <1>1, PTL DEF KeysSpec

\* For any keys, requests and days, the private key that is stored under the
\* selector of a committed key is that key's, and the selector a domain signs
\* with was found in DNS (dkim_rotate, dkim_verify).
THEOREM DkimKeysAreTheirOwnAlways == KeysSpec => []DkimKeysAreTheirOwn
<1>1. KeysInv => DkimKeysAreTheirOwn
  BY DEF KeysInv, KeyRowsAreRight, RowIsRight, SelectorWasFound, DkimKeysAreTheirOwn
<1>2. QED
  BY KeysInvariant, <1>1, PTL

-------------------------------------------------------------------------------
(***************************************************************************)
(* Durable results. An operation that is completed has one result, and a   *)
(* plan to purge names results that were reported.                         *)
(***************************************************************************)

\* The results of an operation.
AnswersOf(t) == {k \in ResultKeys : outcome[k] # NoOutcome /\ outcome[k].task = t}

\* An operation that is completed has one result, and another has none.
OneAnswerEach ==
    \A t \in Tasks : IF task[t].state = "COMPLETED"
                     THEN \E k \in ResultKeys : AnswersOf(t) = {k}
                     ELSE AnswersOf(t) = {}

ResultsInv ==
    /\ ResultsTypeOK /\ OneAnswerEach
    /\ \A k \in plan.cutoff : outcome[k] # NoOutcome

-------------------------------------------------------------------------------
(* The steps. *)

LEMMA NoOutcomeIsNoRow == NoOutcome \notin OutcomeRow
BY ResultsAssumption DEF NoOutcome, OutcomeRow

\* Two columns of a row are written, each to something of its type.
LEMMA RewrappedRow ==
  ASSUME NEW row \in OutcomeRow, NEW kid \in 0..LastKid, NEW n \in Nat
  PROVE  \E new \in OutcomeRow :
           /\ new = [row EXCEPT !.kid = kid, !.sealed = n]
           /\ new.task = row.task /\ new.digest = row.digest /\ new.body = row.body
<1>1. PICK one \in OutcomeRow : one = [row EXCEPT !.kid = kid]
  BY DEF OutcomeRow
<1>2. one.task = row.task /\ one.digest = row.digest /\ one.body = row.body
  BY <1>1 DEF OutcomeRow
<1>3. PICK new \in OutcomeRow : new = [one EXCEPT !.sealed = n]
  BY DEF OutcomeRow
<1>4. new.task = one.task /\ new.digest = one.digest /\ new.body = one.body
  BY <1>3 DEF OutcomeRow
<1>5. QED
  BY <1>1, <1>2, <1>3, <1>4

\* The results are where they were, with what they said.
SameAnswers ==
    /\ outcome' \in [ResultKeys -> OutcomeRow \union {NoOutcome}]
    /\ \A k \in ResultKeys : /\ (outcome'[k] = NoOutcome) <=> (outcome[k] = NoOutcome)
                             /\ outcome'[k].task = outcome[k].task
                             /\ outcome'[k].digest = outcome[k].digest

LEMMA SameAnswersStay ==
  ASSUME ResultsInv, SameAnswers, task' \in [Tasks -> Task],
         \A t \in Tasks : (task'[t].state = "COMPLETED") <=> (task[t].state = "COMPLETED")
  PROVE  OneAnswerEach'
<1>1. ASSUME NEW t \in Tasks PROVE AnswersOf(t)' = AnswersOf(t)
  BY DEF SameAnswers, AnswersOf
<1>2. QED
  BY <1>1 DEF ResultsInv, OneAnswerEach

LEMMA OneResultIsCounted ==
  ASSUME OneAnswerEach'
  PROVE  \A t \in Tasks : (task'[t].state = "COMPLETED")
           <=> (Cardinality({k \in ResultKeys : outcome'[k] # NoOutcome /\ outcome'[k].task = t}) = 1)
<1> SUFFICES ASSUME NEW t \in Tasks
             PROVE  (task'[t].state = "COMPLETED") <=> (Cardinality(AnswersOf(t)') = 1)
  BY DEF AnswersOf
<1>1. CASE task'[t].state = "COMPLETED"
  <2>1. PICK k \in ResultKeys : AnswersOf(t)' = {k}
    BY <1>1 DEF OneAnswerEach
  <2>2. QED
    BY <1>1, <2>1, FS_Singleton
<1>2. CASE task'[t].state # "COMPLETED"
  <2>1. AnswersOf(t)' = {}
    BY <1>2 DEF OneAnswerEach
  <2>2. QED
    BY <1>2, <2>1, FS_EmptySet
<1>3. QED
  BY <1>1, <1>2

\* A step that leaves the results as they are.
LEMMA ResultsRest ==
  ASSUME ResultsInv, UNCHANGED outcome, task' \in [Tasks -> Task],
         \A t \in Tasks : (task'[t].state = "COMPLETED") <=> (task[t].state = "COMPLETED"),
         hold' \in [Holds -> {"none", "ACTIVE", "RELEASED"}],
         legalHold' \in {"none", "STANDARD", "LEGAL_HOLD"}, activeKid' \in 0..LastKid,
         plan'.cutoff \in SUBSET Reported
  PROVE  ResultsInv' /\ AnswersStand
<1>1. SameAnswers
  BY DEF SameAnswers, ResultsInv, ResultsTypeOK
<1>2. OneAnswerEach'
  BY <1>1, SameAnswersStay
<1>3. ResultsTypeOK'
  BY DEF ResultsInv, ResultsTypeOK, Reported
<1>4. \A k \in plan'.cutoff : outcome'[k] # NoOutcome
  BY DEF Reported
<1>5. AnswersStand
  BY <1>2, OneResultIsCounted DEF AnswersStand, Purged
<1>6. QED
  BY <1>2, <1>3, <1>4, <1>5 DEF ResultsInv

LEMMA TaskStep ==
  ASSUME ResultsInv, NEW t \in Tasks,
         FailIntegration(t) \/ RecoverIntegration(t) \/ CancelIntegration(t)
  PROVE  ResultsInv' /\ AnswersStand
<1>1. task \in [Tasks -> Task] /\ task[t] \in Task
  BY DEF ResultsInv, ResultsTypeOK
<1>2. \E new \in Task : /\ task' = [task EXCEPT ![t] = new]
                        /\ new.state # "COMPLETED" /\ task[t].state # "COMPLETED"
  <2>1. CASE FailIntegration(t)
    <3>1. PICK s \in {"DEAD_LETTER", "RETRY"} :
            s = IF task[t].attempts + 1 >= TaskMaxAttempts THEN "DEAD_LETTER" ELSE "RETRY"
      OBVIOUS
    <3> DEFINE new == [attempts |-> task[t].attempts + 1, state |-> s]
    <3>2. new \in Task /\ new.state # "COMPLETED"
      BY <1>1 DEF Task
    <3>3. task' = [task EXCEPT ![t] = new] /\ task[t].state # "COMPLETED"
      BY <2>1, <3>1, <1>1 DEF FailIntegration
    <3>4. QED
      BY <3>2, <3>3
  <2>2. CASE RecoverIntegration(t)
    <3> DEFINE new == [task[t] EXCEPT !.state = "PENDING"]
    <3>1. new \in Task /\ new.state # "COMPLETED"
      BY <1>1 DEF Task
    <3>2. task' = [task EXCEPT ![t] = new] /\ task[t].state # "COMPLETED"
      BY <2>2, <1>1 DEF RecoverIntegration
    <3>3. QED
      BY <3>1, <3>2
  <2>3. CASE CancelIntegration(t)
    <3> DEFINE new == [task[t] EXCEPT !.state = "CANCELLED"]
    <3>1. new \in Task /\ new.state # "COMPLETED"
      BY <1>1 DEF Task
    <3>2. task' = [task EXCEPT ![t] = new] /\ task[t].state # "COMPLETED"
      BY <2>3, <1>1 DEF CancelIntegration
    <3>3. QED
      BY <3>1, <3>2
  <2>4. QED
    BY <2>1, <2>2, <2>3
<1>3. /\ task' \in [Tasks -> Task]
      /\ \A u \in Tasks : (task'[u].state = "COMPLETED") <=> (task[u].state = "COMPLETED")
  BY <1>1, <1>2
<1>4. UNCHANGED <<outcome, hold, legalHold, activeKid, plan>>
  BY DEF FailIntegration, RecoverIntegration, CancelIntegration
<1>5. /\ hold \in [Holds -> {"none", "ACTIVE", "RELEASED"}]
      /\ legalHold \in {"none", "STANDARD", "LEGAL_HOLD"} /\ activeKid \in 0..LastKid
      /\ plan.cutoff \in SUBSET Reported
  BY DEF ResultsInv, ResultsTypeOK, Reported
<1>6. QED
  BY <1>3, <1>4, <1>5, ResultsRest

LEMMA MaintenanceStep ==
  ASSUME ResultsInv, Closure \/ NewKid \/ PurgePlan \/ \E h \in Holds : ResultHold(h)
  PROVE  ResultsInv' /\ AnswersStand
<1>1. /\ hold \in [Holds -> {"none", "ACTIVE", "RELEASED"}] /\ task \in [Tasks -> Task]
      /\ legalHold \in {"none", "STANDARD", "LEGAL_HOLD"} /\ activeKid \in 0..LastKid
      /\ plan.cutoff \in SUBSET Reported
  BY DEF ResultsInv, ResultsTypeOK, Reported
<1>2. UNCHANGED <<outcome, task>>
  BY DEF Closure, NewKid, PurgePlan, ResultHold
<1>3. hold' \in [Holds -> {"none", "ACTIVE", "RELEASED"}]
  BY <1>1 DEF Closure, NewKid, PurgePlan, ResultHold
<1>4. legalHold' \in {"none", "STANDARD", "LEGAL_HOLD"}
  BY <1>1 DEF Closure, NewKid, PurgePlan, ResultHold
<1>5. activeKid' \in 0..LastKid
  BY <1>1, ResultsAssumption DEF Closure, NewKid, PurgePlan, ResultHold
<1>6. plan'.cutoff \in SUBSET Reported
  <2>1. CASE PurgePlan
    BY <2>1 DEF PurgePlan
  <2>2. CASE ~PurgePlan
    <3>1. plan' = plan
      BY <2>2 DEF Closure, NewKid, ResultHold
    <3>2. QED
      BY <1>1, <3>1
  <2>3. QED
    BY <2>1, <2>2
<1>7. QED
  BY <1>1, <1>2, <1>3, <1>4, <1>5, <1>6, ResultsRest

\* Rows are sealed again, some of them without their payload.
LEMMA RowsAreSealed ==
  ASSUME ResultsInv, NEW S, S \subseteq Reported,
         UNCHANGED <<task, hold, legalHold, activeKid, plan>>,
         outcome' \in [ResultKeys -> OutcomeRow \union {NoOutcome}],
         \A k \in ResultKeys \ S : outcome'[k] = outcome[k],
         \A k \in S : /\ outcome'[k] \in OutcomeRow
                      /\ outcome'[k].task = outcome[k].task
                      /\ outcome'[k].digest = outcome[k].digest,
         \A k \in S : \/ outcome'[k].body = outcome[k].body
                      \/ Ciphertext(k) \in plan.eligible /\ ~Held(outcome[k].task)
  PROVE  ResultsInv' /\ AnswersStand
<1>1. S \subseteq ResultKeys /\ \A k \in S : outcome[k] # NoOutcome
  BY DEF Reported
<1>2. SameAnswers
  BY <1>1, NoOutcomeIsNoRow DEF SameAnswers
<1>3. OneAnswerEach'
  BY <1>2, SameAnswersStay DEF ResultsInv, ResultsTypeOK
<1>4. ResultsTypeOK'
  BY DEF ResultsInv, ResultsTypeOK
<1>5. \A k \in plan'.cutoff : outcome'[k] # NoOutcome
  BY <1>2 DEF SameAnswers, ResultsInv, ResultsTypeOK
<1>6. ASSUME NEW k \in Reported
      PROVE  /\ outcome'[k].task = outcome[k].task /\ outcome'[k].digest = outcome[k].digest
             /\ Purged(k) => Ciphertext(k) \in plan.eligible /\ ~Held(outcome[k].task)
  <2>1. k \in ResultKeys
    BY DEF Reported
  <2>2. CASE k \in S
    BY <2>2 DEF Purged
  <2>3. CASE k \notin S
    <3>1. outcome'[k] = outcome[k]
      BY <2>1, <2>3
    <3>2. QED
      BY <3>1 DEF Purged
  <2>4. QED
    BY <2>2, <2>3
<1>7. AnswersStand
  BY <1>3, <1>6, OneResultIsCounted DEF AnswersStand
<1>8. QED
  BY <1>3, <1>4, <1>5, <1>7 DEF ResultsInv

LEMMA RewrapStep ==
  ASSUME ResultsInv, RewrapBatch
  PROVE  ResultsInv' /\ AnswersStand
<1> DEFINE stale == {k \in Reported : outcome[k].kid # activeKid}
           New(k) == [outcome[k] EXCEPT !.kid = activeKid, !.sealed = outcome[k].sealed + 1]
<1>1. /\ outcome \in [ResultKeys -> OutcomeRow \union {NoOutcome}] /\ activeKid \in 0..LastKid
  BY DEF ResultsInv, ResultsTypeOK
<1>0. PICK first \in stale, last \in stale :
        /\ outcome' = [k \in ResultKeys |->
              IF k \in stale /\ first <= k /\ k <= last THEN New(k) ELSE outcome[k]]
        /\ UNCHANGED <<task, hold, legalHold, activeKid, plan>>
  BY DEF RewrapBatch
<1> DEFINE S == {k \in stale : first <= k /\ k <= last}
<1>2. /\ outcome' = [k \in ResultKeys |-> IF k \in S THEN New(k) ELSE outcome[k]]
      /\ UNCHANGED <<task, hold, legalHold, activeKid, plan>>
  BY <1>0
<1>3. S \subseteq Reported /\ S \subseteq ResultKeys
  BY DEF Reported
<1>4. ASSUME NEW k \in S
      PROVE  /\ New(k) \in OutcomeRow /\ New(k).task = outcome[k].task
             /\ New(k).digest = outcome[k].digest /\ New(k).body = outcome[k].body
  <2>1. PICK row \in OutcomeRow : row = outcome[k]
    BY <1>1, <1>3 DEF Reported
  <2>2. PICK n \in Nat : n = row.sealed + 1
    BY DEF OutcomeRow
  <2>3. PICK new \in OutcomeRow :
          /\ new = [row EXCEPT !.kid = activeKid, !.sealed = n]
          /\ new.task = row.task /\ new.digest = row.digest /\ new.body = row.body
    BY <1>1, RewrappedRow
  <2>4. New(k) = new
    BY <2>1, <2>2, <2>3
  <2>5. QED
    BY <2>1, <2>3, <2>4
<1> HIDE DEF S, New, stale
<1>5. \A k \in ResultKeys \ S : outcome'[k] = outcome[k]
  BY <1>2
<1>6. \A k \in S : outcome'[k] = New(k)
  BY <1>2, <1>3
<1>7. outcome' \in [ResultKeys -> OutcomeRow \union {NoOutcome}]
  BY <1>1, <1>2, <1>4
<1>8. \A k \in S : /\ outcome'[k] \in OutcomeRow
                   /\ outcome'[k].task = outcome[k].task
                   /\ outcome'[k].digest = outcome[k].digest
                   /\ outcome'[k].body = outcome[k].body
  BY <1>4, <1>6
<1>9. QED
  BY <1>2, <1>3, <1>5, <1>7, <1>8, RowsAreSealed

LEMMA PurgeStep ==
  ASSUME ResultsInv, PurgeApply
  PROVE  ResultsInv' /\ AnswersStand
<1> DEFINE S == Eligible(plan.cutoff, plan.after)
<1>1. /\ outcome \in [ResultKeys -> OutcomeRow \union {NoOutcome}] /\ activeKid \in 0..LastKid
  BY DEF ResultsInv, ResultsTypeOK
<1>2. /\ outcome' = [k \in ResultKeys |-> IF k \in S THEN Tombstone(outcome[k]) ELSE outcome[k]]
      /\ plan.eligible = {Ciphertext(k) : k \in S}
      /\ UNCHANGED <<task, hold, legalHold, activeKid, plan>>
  BY DEF PurgeApply, Approved
<1>3. S \subseteq plan.cutoff /\ \A k \in S : ~Held(outcome[k].task)
  BY DEF Eligible, Page
<1>4. S \subseteq Reported /\ S \subseteq ResultKeys
  BY <1>3 DEF ResultsInv, ResultsTypeOK, Reported
<1>5. ASSUME NEW k \in S
      PROVE  /\ Tombstone(outcome[k]) \in OutcomeRow
             /\ Tombstone(outcome[k]).task = outcome[k].task
             /\ Tombstone(outcome[k]).digest = outcome[k].digest
  <2>1. PICK row \in OutcomeRow : row = outcome[k]
    BY <1>1, <1>4 DEF Reported
  <2>2. PICK b \in BOOLEAN : b = FALSE
    OBVIOUS
  <2>3. PICK n \in Nat : n = row.sealed + 1
    BY DEF OutcomeRow
  <2>4. PICK one \in OutcomeRow : one = [row EXCEPT !.body = b]
    BY DEF OutcomeRow
  <2>5. one.task = row.task /\ one.digest = row.digest
    BY <2>4 DEF OutcomeRow
  <2>6. PICK new \in OutcomeRow :
          /\ new = [one EXCEPT !.kid = activeKid, !.sealed = n]
          /\ new.task = one.task /\ new.digest = one.digest /\ new.body = one.body
    BY ONLY RewrappedRow, one \in OutcomeRow, n \in Nat, <1>1
  <2>7. Tombstone(row) = new
    BY <2>2, <2>3, <2>4, <2>6 DEF Tombstone
  <2>8. QED
    BY <2>1, <2>5, <2>6, <2>7
<1>6. \A k \in S : Ciphertext(k) \in plan.eligible
  BY <1>2
<1> HIDE DEF S
<1>7. \A k \in ResultKeys \ S : outcome'[k] = outcome[k]
  BY <1>2
<1>8. \A k \in S : outcome'[k] = Tombstone(outcome[k])
  BY <1>2, <1>4
<1>9. outcome' \in [ResultKeys -> OutcomeRow \union {NoOutcome}]
  BY <1>1, <1>2, <1>5
<1>10. \A k \in S : /\ outcome'[k] \in OutcomeRow
                    /\ outcome'[k].task = outcome[k].task
                    /\ outcome'[k].digest = outcome[k].digest
  BY <1>5, <1>8
<1>11. QED
  BY <1>2, <1>3, <1>4, <1>6, <1>7, <1>9, <1>10, RowsAreSealed

LEMMA ResultStep ==
  ASSUME ResultsInv, NEW t \in Tasks, NEW k \in ResultKeys, NEW p \in Payloads, Result(t, k, p)
  PROVE  ResultsInv' /\ AnswersStand
<1>1. PICK b \in BOOLEAN : b = TRUE
  OBVIOUS
<1> DEFINE new == [task |-> t, digest |-> p, body |-> b, kid |-> activeKid, sealed |-> 1]
           done == [task[t] EXCEPT !.state = "COMPLETED"]
<1>2. /\ outcome \in [ResultKeys -> OutcomeRow \union {NoOutcome}] /\ task \in [Tasks -> Task]
      /\ activeKid \in 0..LastKid
  BY DEF ResultsInv, ResultsTypeOK
<1>3. /\ outcome[k] = NoOutcome /\ task[t].state # "COMPLETED"
      /\ outcome' = [outcome EXCEPT ![k] = new] /\ task' = [task EXCEPT ![t] = done]
      /\ UNCHANGED <<hold, legalHold, activeKid, plan>>
  BY <1>1, <1>2 DEF Result, Reported, Resultable
<1>4. new \in OutcomeRow /\ new.task = t
  BY <1>2 DEF OutcomeRow
<1>5. done \in Task /\ done.state = "COMPLETED"
  BY <1>2 DEF Task
<1>6. new # NoOutcome
  BY <1>4, NoOutcomeIsNoRow
<1> HIDE DEF new, done
<1>7. /\ outcome' \in [ResultKeys -> OutcomeRow \union {NoOutcome}] /\ outcome'[k] = new
      /\ \A j \in ResultKeys \ {k} : outcome'[j] = outcome[j]
  BY <1>2, <1>3, <1>4
<1>8. /\ task' \in [Tasks -> Task] /\ task'[t].state = "COMPLETED"
      /\ \A u \in Tasks \ {t} : task'[u] = task[u]
  BY <1>2, <1>3, <1>5
<1>9. AnswersOf(t)' = {k}
  <2>1. AnswersOf(t) = {}
    BY <1>3 DEF ResultsInv, OneAnswerEach
  <2>2. QED
    BY <2>1, <1>4, <1>6, <1>7 DEF AnswersOf
<1>10. ASSUME NEW u \in Tasks \ {t} PROVE AnswersOf(u)' = AnswersOf(u)
  BY <1>3, <1>4, <1>7 DEF AnswersOf
<1>11. OneAnswerEach'
  <2> SUFFICES ASSUME NEW u \in Tasks
               PROVE  IF task'[u].state = "COMPLETED" THEN \E j \in ResultKeys : AnswersOf(u)' = {j}
                      ELSE AnswersOf(u)' = {}
    BY DEF OneAnswerEach
  <2>1. CASE u = t
    BY <2>1, <1>8, <1>9
  <2>2. CASE u # t
    <3>1. AnswersOf(u)' = AnswersOf(u) /\ task'[u] = task[u]
      BY <2>2, <1>8, <1>10
    <3>2. QED
      BY <3>1 DEF ResultsInv, OneAnswerEach
  <2>3. QED
    BY <2>1, <2>2
<1>12. ResultsTypeOK'
  BY <1>3, <1>7, <1>8 DEF ResultsInv, ResultsTypeOK
<1>13. \A j \in plan'.cutoff : outcome'[j] # NoOutcome
  BY <1>3, <1>6, <1>7 DEF ResultsInv, ResultsTypeOK
<1>14. \A j \in Reported : outcome'[j] = outcome[j]
  BY <1>3, <1>7 DEF Reported
<1>15. AnswersStand
  BY <1>11, <1>14, OneResultIsCounted DEF AnswersStand, Purged
<1>16. QED
  BY <1>11, <1>12, <1>13, <1>15 DEF ResultsInv

LEMMA ResultsStep ==
  ASSUME ResultsInv, ResultsNext
  PROVE  ResultsInv' /\ AnswersStand
BY TaskStep, ResultStep, MaintenanceStep, RewrapStep, PurgeStep DEF ResultsNext

LEMMA ResultsStutter ==
  ASSUME ResultsInv, UNCHANGED resultsVars
  PROVE  ResultsInv'
BY DEF ResultsInv, ResultsTypeOK, OneAnswerEach, AnswersOf, resultsVars

LEMMA ResultsBegin == ResultsInit => ResultsInv
<1> SUFFICES ASSUME ResultsInit PROVE ResultsInv
  OBVIOUS
<1>1. PICK S \in SUBSET ResultKeys : S = {}
  OBVIOUS
<1>2. /\ task \in [Tasks -> Task] /\ outcome \in [ResultKeys -> OutcomeRow \union {NoOutcome}]
      /\ hold \in [Holds -> {"none", "ACTIVE", "RELEASED"}]
      /\ legalHold \in {"none", "STANDARD", "LEGAL_HOLD"}
  BY DEF ResultsInit, Task
<1>3. activeKid \in 0..LastKid /\ plan.cutoff = S
  BY <1>1, ResultsAssumption DEF ResultsInit, NoPlan
<1>4. ResultsTypeOK
  BY <1>2, <1>3 DEF ResultsTypeOK
<1>5. OneAnswerEach
  BY DEF ResultsInit, OneAnswerEach, AnswersOf
<1>6. QED
  BY <1>1, <1>3, <1>4, <1>5 DEF ResultsInv

\* What an operation answered stands: every step keeps its one result, and a
\* payload goes only as the plan said, and unheld.
THEOREM ResultsStandAlways == ResultsSpec => ResultsStand
<1>1. ResultsInv /\ [ResultsNext]_resultsVars => ResultsInv'
  BY ResultsStep, ResultsStutter
<1>2. ResultsInv /\ [ResultsNext]_resultsVars => [AnswersStand]_resultsVars
  BY ResultsStep
<1>3. QED
  BY ResultsBegin, <1>1, <1>2, PTL DEF ResultsSpec, ResultsStand
===============================================================================
