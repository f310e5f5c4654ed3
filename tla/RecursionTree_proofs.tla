------------------------ MODULE RecursionTree_proofs ------------------------
(***************************************************************************)
(* RecursionTree's type invariant, the bounds of the tree and the account  *)
(* of its spending, for every set of signatures and every budget.          *)
(*                                                                         *)
(* Two of them speak of a sum over the stack: the subcalls of its nodes    *)
(* and (in the invariant) the turns they may still take.  IsSum says what  *)
(* the recursive functions SpentUpTo and Unspent are; the lemmas on it,    *)
(* proved by induction over a set of naturals, say how a sum follows a     *)
(* step: the last value changes, one is added, one is dropped.  The steps  *)
(* of the tree are of these three kinds (TopChanges, NodeAdded,            *)
(* NodeLeaves), and each action is one of them.                            *)
(***************************************************************************)
EXTENDS RecursionTree, FiniteSetTheorems, SequenceTheorems, WellFoundedInduction, TLAPS

\* sum[d] is w[1] + ... + w[d], for every d up to n.
IsSum(sum, w, n) ==
  /\ sum \in [0 .. n -> Nat]
  /\ sum[0] = 0
  /\ \A i \in 1 .. n : sum[i] = sum[i - 1] + w[i]

\* Every inhabited set of naturals has a least member.
LEMMA Least ==
  ASSUME NEW T, T \subseteq Nat, T # {}
  PROVE  \E x \in T : \A y \in T : ~(y < x)
<1> DEFINE R == {p \in Nat \X Nat : p[1] < p[2]}
<1>1. IsWellFoundedOn(R, Nat)
  BY NatLessThanWellFounded DEF OpToRel
<1>2. \E x \in T : \A y \in T : <<y, x>> \notin R
  <2> HIDE DEF R
  <2>1. QED
    BY <1>1, WFMin
<1>3. QED
  BY <1>2

\* Induction over the naturals, for a set of those that have a property.
LEMMA Induction ==
  ASSUME NEW P, 0 \in P, \A n \in P \cap Nat : n + 1 \in P
  PROVE  Nat \subseteq P
<1> SUFFICES ASSUME Nat \ P # {} PROVE FALSE
  OBVIOUS
<1>1. PICK x \in Nat \ P : \A y \in Nat \ P : ~(y < x)
  BY Least
<1>2. x # 0 /\ x - 1 \in Nat
  BY <1>1
<1>3. x - 1 \in P
  BY <1>1, <1>2
<1>4. (x - 1) + 1 \in P
  BY <1>2, <1>3
<1>5. QED
  BY <1>1, <1>2, <1>4

\* The sums of the first values of a sequence of naturals exist.
LEMMA SumExists ==
  ASSUME NEW n \in Nat, NEW w \in [1 .. n -> Nat]
  PROVE  \E sum : IsSum(sum, w, n)
<1> DEFINE P == {k \in Nat : k <= n => \E sum : IsSum(sum, w, k)}
<1>1. 0 \in P
  <2>1. IsSum([i \in 0 .. 0 |-> 0], w, 0)
    BY DEF IsSum
  <2>2. QED
    BY <2>1
<1>2. ASSUME NEW k \in P \cap Nat PROVE k + 1 \in P
  <2>1. CASE k + 1 <= n
    <3>1. PICK sum : IsSum(sum, w, k)
      BY <2>1
    <3> DEFINE longer == [i \in 0 .. k + 1 |-> IF i <= k THEN sum[i] ELSE sum[k] + w[k + 1]]
    <3>2. longer \in [0 .. k + 1 -> Nat]
      BY <2>1, <3>1 DEF IsSum
    <3>3. \A i \in 1 .. k + 1 : longer[i] = longer[i - 1] + w[i]
      BY <2>1, <3>1 DEF IsSum
    <3>4. longer[0] = 0
      BY <3>1 DEF IsSum
    <3>5. IsSum(longer, w, k + 1)
      BY <3>2, <3>3, <3>4 DEF IsSum
    <3>6. QED
      BY <3>5
  <2>2. CASE ~(k + 1 <= n)
    BY <2>2
  <2>3. QED
    BY <2>1, <2>2
<1>3. n \in P
  <2> HIDE DEF P
  <2>1. QED
    BY <1>1, <1>2, Induction
<1>4. QED
  BY <1>3

\* A function defined by the recursion of a sum is one.
LEMMA SumIs ==
  ASSUME NEW n \in Nat, NEW w \in [1 .. n -> Nat], NEW f,
         f = [d \in 0 .. n |-> IF d = 0 THEN 0 ELSE f[d - 1] + w[d]]
  PROVE  IsSum(f, w, n)
<1>1. PICK sum : IsSum(sum, w, n)
  BY SumExists
<1> DEFINE P == {d \in Nat : d <= n => f[d] = sum[d]}
<1>2. 0 \in P
  BY <1>1 DEF IsSum
<1>3. ASSUME NEW d \in P \cap Nat PROVE d + 1 \in P
  <2>1. CASE d + 1 <= n
    <3>1. d + 1 \in 0 .. n /\ d + 1 \in 1 .. n /\ d + 1 # 0 /\ (d + 1) - 1 = d
      BY <2>1
    <3>2. f[d + 1] = f[d] + w[d + 1]
      BY <3>1
    <3>3. sum[d + 1] = sum[d] + w[d + 1]
      BY <1>1, <3>1 DEF IsSum
    <3>4. f[d] = sum[d]
      BY <2>1
    <3>5. QED
      BY <3>2, <3>3, <3>4
  <2>2. CASE ~(d + 1 <= n)
    BY <2>2
  <2>3. QED
    BY <2>1, <2>2
<1>4. Nat \subseteq P
  <2> HIDE DEF P
  <2>1. QED
    BY <1>2, <1>3, Induction
<1>5. ASSUME NEW d \in 0 .. n PROVE f[d] = sum[d]
  <2>1. d \in Nat /\ d <= n
    OBVIOUS
  <2>2. d \in P
    BY <1>4, <2>1
  <2>3. QED
    BY <2>1, <2>2
<1>6. f = [d \in 0 .. n |-> f[d]] /\ sum = [d \in 0 .. n |-> sum[d]]
  BY <1>1 DEF IsSum
<1>7. f = sum
  BY <1>5, <1>6
<1>8. QED
  BY <1>1, <1>7

\* Two sums of the same values are the same.
LEMMA SumAgrees ==
  ASSUME NEW n \in Nat, NEW m \in Nat, NEW w, NEW v, NEW sum, NEW other,
         IsSum(sum, w, n), IsSum(other, v, m),
         NEW k \in Nat, k <= n, k <= m, \A i \in 1 .. k : w[i] = v[i]
  PROVE  sum[k] = other[k]
<1> DEFINE P == {j \in Nat : j <= k => sum[j] = other[j]}
<1>1. 0 \in P
  BY DEF IsSum
<1>2. ASSUME NEW j \in P \cap Nat PROVE j + 1 \in P
  <2>1. CASE j + 1 <= k
    <3>1. sum[j] = other[j] /\ w[j + 1] = v[j + 1]
      BY <2>1
    <3>2. j + 1 \in 1 .. n /\ j + 1 \in 1 .. m /\ (j + 1) - 1 = j
      BY <2>1
    <3>3. sum[j + 1] = sum[j] + w[j + 1] /\ other[j + 1] = other[j] + v[j + 1]
      BY <3>2 DEF IsSum
    <3>4. QED
      BY <3>1, <3>3
  <2>2. CASE ~(j + 1 <= k)
    BY <2>2
  <2>3. QED
    BY <2>1, <2>2
<1>3. k \in P
  <2> HIDE DEF P
  <2>1. QED
    BY <1>1, <1>2, Induction
<1>4. QED
  BY <1>3

\* The last value changes.
LEMMA SumOfTop ==
  \A n \in Nat \ {0} : \A w, v \in [1 .. n -> Nat] : \A sum, other :
    IsSum(sum, w, n) /\ IsSum(other, v, n) /\ (\A i \in 1 .. n - 1 : w[i] = v[i])
      => other[n] + w[n] = sum[n] + v[n]
<1> TAKE n \in Nat \ {0}
<1> TAKE w, v \in [1 .. n -> Nat]
<1> TAKE sum, other
<1> HAVE IsSum(sum, w, n) /\ IsSum(other, v, n) /\ (\A i \in 1 .. n - 1 : w[i] = v[i])
<1>1. sum[n - 1] = other[n - 1]
  <2>1. n - 1 \in Nat /\ n - 1 <= n
    OBVIOUS
  <2>2. QED
    BY <2>1, SumAgrees
<1>2. sum[n] = sum[n - 1] + w[n] /\ other[n] = other[n - 1] + v[n]
  BY DEF IsSum
<1>3. sum[n - 1] \in Nat /\ w[n] \in Nat /\ v[n] \in Nat
  BY DEF IsSum
<1>4. QED
  BY <1>1, <1>2, <1>3

\* A value is added.
LEMMA SumOfMore ==
  \A n \in Nat : \A w \in [1 .. n -> Nat], v \in [1 .. n + 1 -> Nat] : \A sum, other :
    IsSum(sum, w, n) /\ IsSum(other, v, n + 1) /\ (\A i \in 1 .. n : w[i] = v[i])
      => other[n + 1] = sum[n] + v[n + 1]
<1> TAKE n \in Nat
<1> TAKE w \in [1 .. n -> Nat], v \in [1 .. n + 1 -> Nat]
<1> TAKE sum, other
<1> HAVE IsSum(sum, w, n) /\ IsSum(other, v, n + 1) /\ (\A i \in 1 .. n : w[i] = v[i])
<1>1. sum[n] = other[n]
  <2>1. n + 1 \in Nat /\ n <= n + 1
    OBVIOUS
  <2>2. QED
    BY <2>1, SumAgrees
<1>2. QED
  BY <1>1 DEF IsSum

\* The last value is dropped and the one before it may change.
LEMMA SumOfLess ==
  \A n \in Nat \ {0, 1} : \A w \in [1 .. n -> Nat], v \in [1 .. n - 1 -> Nat] : \A sum, other :
    IsSum(sum, w, n) /\ IsSum(other, v, n - 1) /\ (\A i \in 1 .. n - 2 : w[i] = v[i])
      => other[n - 1] + w[n - 1] + w[n] = sum[n] + v[n - 1]
<1> TAKE n \in Nat \ {0, 1}
<1> TAKE w \in [1 .. n -> Nat], v \in [1 .. n - 1 -> Nat]
<1> TAKE sum, other
<1> HAVE IsSum(sum, w, n) /\ IsSum(other, v, n - 1) /\ (\A i \in 1 .. n - 2 : w[i] = v[i])
<1>1. sum[n - 2] = other[n - 2]
  <2>1. n - 1 \in Nat /\ n - 2 \in Nat /\ n - 2 <= n /\ n - 2 <= n - 1
    OBVIOUS
  <2>2. QED
    BY <2>1, SumAgrees
<1>2. /\ sum[n] = sum[n - 1] + w[n] /\ sum[n - 1] = sum[n - 2] + w[n - 1]
      /\ other[n - 1] = other[n - 2] + v[n - 1]
  <2>1. /\ n \in 1 .. n /\ n - 1 \in 1 .. n /\ n - 1 \in 1 .. n - 1
        /\ (n - 1) - 1 = n - 2
    OBVIOUS
  <2>2. sum[n] = sum[n - 1] + w[n]
    BY <2>1 DEF IsSum
  <2>3. sum[n - 1] = sum[n - 2] + w[n - 1]
    BY <2>1 DEF IsSum
  <2>4. other[n - 1] = other[n - 2] + v[n - 1]
    BY <2>1 DEF IsSum
  <2>5. QED
    BY <2>2, <2>3, <2>4
<1>3. /\ sum[n - 2] \in Nat /\ w[n] \in Nat /\ w[n - 1] \in Nat
      /\ v[n - 1] \in Nat
  BY DEF IsSum
<1>4. QED
  BY <1>1, <1>2, <1>3
-----------------------------------------------------------------------------
\* A function on 1 .. n is a sequence.
LEMMA FunctionIsSeq ==
  ASSUME NEW S, NEW n \in Nat, NEW f \in [1 .. n -> S]
  PROVE  f \in Seq(S) /\ Len(f) = n
  BY SeqDef

\* The constants, one by one.
LEMMA Constants ==
  /\ MaxTurns \in Nat /\ MaxDepth \in Nat /\ MaxSubcalls \in Nat
  /\ MaxNodes \in Nat \ {0}
  BY TreeAssumption

\* The nodes of the stack, one by one.
LEMMA StackHas ==
  ASSUME TypeOK
  PROVE  /\ Len(stack) \in Nat \ {0}
         /\ DOMAIN stack = 1 .. Len(stack)
         /\ \A d \in 1 .. Len(stack) : stack[d] \in Node
         /\ Top \in Node
<1>1. stack \in Seq(Node) /\ stack # <<>>
  BY DEF TypeOK
<1>2. Len(stack) \in Nat \ {0} /\ DOMAIN stack = 1 .. Len(stack)
  BY <1>1, EmptySeq, LenProperties
<1>3. \A d \in 1 .. Len(stack) : stack[d] \in Node
  BY <1>1, ElementOfSeq
<1>4. QED
  BY <1>2, <1>3 DEF Top

(***************************************************************************)
(* What Update, Spawn and Pop do to the stack.                             *)
(***************************************************************************)
\* The top node is exchanged.
LEMMA Updated ==
  ASSUME TypeOK, NEW node \in Node, Update(node)
  PROVE  /\ stack' \in Seq(Node) /\ stack' # <<>> /\ Len(stack') = Len(stack)
         /\ \A d \in 1 .. Len(stack) - 1 : stack'[d] = stack[d]
         /\ stack'[Len(stack)] = node
<1>1. stack \in Seq(Node) /\ Len(stack) \in 1 .. Len(stack) /\ Len(stack) \in Nat \ {0}
  BY StackHas DEF TypeOK
<1>2. /\ stack' \in Seq(Node) /\ Len(stack') = Len(stack)
      /\ \A d \in 1 .. Len(stack) : stack'[d] = IF d = Len(stack) THEN node ELSE stack[d]
  BY <1>1, ExceptSeq DEF Update
<1>3. QED
  BY <1>1, <1>2, EmptySeq

\* A node is put on top of the others.
LEMMA Pushed ==
  ASSUME TypeOK, NEW node \in Node, NEW caller \in Node, NEW others,
         others \in [1 .. Len(stack) -> Node],
         stack' = [d \in 1 .. Len(stack) + 1 |->
                     IF d < Len(stack) THEN others[d]
                     ELSE IF d = Len(stack) THEN caller ELSE node]
  PROVE  /\ stack' \in Seq(Node) /\ stack' # <<>> /\ Len(stack') = Len(stack) + 1
         /\ \A d \in 1 .. Len(stack) - 1 : stack'[d] = others[d]
         /\ stack'[Len(stack)] = caller /\ stack'[Len(stack) + 1] = node
<1>1. Len(stack) \in Nat \ {0} /\ Len(stack) + 1 \in Nat
  <2>1. PICK n \in Nat \ {0} : n = Len(stack)
    BY StackHas
  <2>2. n + 1 \in Nat
    OBVIOUS
  <2>3. QED
    BY <2>1, <2>2
<1>2. stack' \in [1 .. Len(stack) + 1 -> Node]
  BY <1>1
<1>3. stack' \in Seq(Node) /\ Len(stack') = Len(stack) + 1
  BY <1>1, <1>2, FunctionIsSeq
<1>4. stack' # <<>>
  BY <1>1, <1>3, EmptySeq
<1>5. QED
  BY <1>1, <1>3, <1>4

\* The top node is taken off.
LEMMA Popped ==
  ASSUME TypeOK, Depth # 0, NEW caller \in Node, Pop(caller)
  PROVE  /\ Len(stack) > 1
         /\ stack' \in Seq(Node) /\ stack' # <<>> /\ Len(stack') = Len(stack) - 1
         /\ \A d \in 1 .. Len(stack) - 2 : stack'[d] = stack[d]
         /\ stack'[Len(stack) - 1] = caller
<1>1. Len(stack) \in Nat /\ Len(stack) > 1 /\ Len(stack) - 1 \in Nat
  BY StackHas DEF Depth
<1>2. PICK n \in Nat : n = Len(stack) /\ n > 1
  BY <1>1
<1>3. stack' = [d \in 1 .. n - 1 |-> IF d = n - 1 THEN caller ELSE stack[d]]
  BY <1>2 DEF Pop
<1>4. \A d \in 1 .. n : stack[d] \in Node
  BY <1>2, StackHas
<1>5. stack' \in [1 .. n - 1 -> Node] /\ n - 1 \in Nat
  BY <1>2, <1>3, <1>4
<1>6. stack' \in Seq(Node) /\ Len(stack') = n - 1
  BY <1>5, FunctionIsSeq
<1>7. stack' # <<>>
  BY <1>2, <1>6, EmptySeq
<1>8. /\ \A d \in 1 .. n - 2 : stack'[d] = stack[d]
      /\ stack'[n - 1] = caller
  BY <1>2, <1>3
<1>9. QED
  BY <1>1, <1>2, <1>6, <1>7, <1>8

(***************************************************************************)
(* Spawn: the caller as the call leaves it, a fresh node above it, and in  *)
(* the nodes below the maps that wait count the new node.                  *)
(***************************************************************************)
LEMMA Spawned ==
  ASSUME TypeOK, NEW sig \in Signatures, NEW caller \in Node, Spawn(sig, caller)
  PROVE  /\ stack' \in Seq(Node) /\ stack' # <<>> /\ Len(stack') = Len(stack) + 1
         /\ \A d \in 1 .. Len(stack) - 1 : stack'[d] = Nesting(stack[d])
         /\ stack'[Len(stack)] = caller
         /\ stack'[Len(stack) + 1] = NewNode(sig, ChildLimit)
         /\ \A d \in 1 .. Len(stack) : Nesting(stack[d]) \in Node
<1> DEFINE others == [d \in 1 .. Len(stack) |-> Nesting(stack[d])]
<1>1. \A d \in 1 .. Len(stack) : Nesting(stack[d]) \in Node
  <2>1. ASSUME NEW node \in Node PROVE Nesting(node) \in Node
    BY DEF Nesting, Node
  <2>2. QED
    BY <2>1, StackHas
<1>2. others \in [1 .. Len(stack) -> Node]
  BY <1>1
<1>3. NewNode(sig, ChildLimit) \in Node
  <2>1. Top.limit \in Nat
    BY StackHas DEF Node
  <2>2. ChildLimit \in Nat
    BY <2>1 DEF ChildLimit, Larger
  <2>3. QED
    BY <2>2 DEF NewNode, Node
<1>4. stack' = [d \in 1 .. Len(stack) + 1 |->
                  IF d < Len(stack) THEN others[d]
                  ELSE IF d = Len(stack) THEN caller ELSE NewNode(sig, ChildLimit)]
  <2>1. Len(stack) \in Nat
    BY StackHas
  <2>2. QED
    BY <2>1 DEF Spawn
<1>5. /\ stack' \in Seq(Node) /\ stack' # <<>> /\ Len(stack') = Len(stack) + 1
      /\ \A d \in 1 .. Len(stack) - 1 : stack'[d] = others[d]
      /\ stack'[Len(stack)] = caller
      /\ stack'[Len(stack) + 1] = NewNode(sig, ChildLimit)
  <2> HIDE DEF others
  <2>1. QED
    BY <1>2, <1>3, <1>4, Pushed
<1>6. \A d \in 1 .. Len(stack) - 1 : stack'[d] = Nesting(stack[d])
  <2>1. PICK n \in Nat \ {0} : n = Len(stack)
    BY StackHas
  <2>2. \A d \in 1 .. n - 1 : d \in 1 .. n
    OBVIOUS
  <2>3. QED
    BY <1>5, <2>1, <2>2
<1>7. QED
  BY <1>1, <1>5, <1>6
-----------------------------------------------------------------------------
\* What each node of the stack has spent, and the turns each may still take.
Spending == [d \in 1 .. Len(stack) |-> Absorb(stack[d])]
Allowance == [d \in 1 .. Len(stack) |-> stack[d].limit - stack[d].here]

\* The turns that the first d nodes of the stack may still take.
Unspent[d \in 0 .. Len(stack)] ==
  IF d = 0 THEN 0 ELSE Unspent[d - 1] + Allowance[d]

\* No node passes its limit, and no limit passes the root's, or two.
WithinLimits ==
  \A d \in 1 .. Len(stack) :
    /\ stack[d].here <= stack[d].limit
    /\ stack[d].limit <= Larger(2, MaxTurns)

\* SpentUpTo and Unspent are sums over the stack.
LEMMA SpentIs ==
  TypeOK => /\ Spending \in [1 .. Len(stack) -> Nat]
            /\ IsSum(SpentUpTo, Spending, Len(stack))
<1> SUFFICES ASSUME TypeOK
             PROVE  /\ Spending \in [1 .. Len(stack) -> Nat]
                    /\ IsSum(SpentUpTo, Spending, Len(stack))
  OBVIOUS
<1>1. PICK n \in Nat : n = Len(stack)
  BY StackHas
<1>2. Spending \in [1 .. n -> Nat]
  <2>1. ASSUME NEW node \in Node PROVE Absorb(node) \in Nat
    BY DEF Absorb, Node
  <2>2. QED
    BY <1>1, <2>1, StackHas DEF Spending
<1>3. PICK sum : IsSum(sum, Spending, n)
  BY <1>1, <1>2, SumExists
<1> DEFINE Is(f) == f = [d \in 0 .. Len(stack) |->
                           IF d = 0 THEN 0 ELSE f[d - 1] + Absorb(stack[d])]
<1>4. Is(sum)
  <2>1. sum = [d \in 0 .. n |-> sum[d]]
    BY <1>3 DEF IsSum
  <2>2. \A d \in 0 .. n : sum[d] = IF d = 0 THEN 0 ELSE sum[d - 1] + Absorb(stack[d])
    BY <1>1, <1>3 DEF IsSum, Spending
  <2>3. QED
    BY <1>1, <2>1, <2>2
<1>5. SpentUpTo = CHOOSE f : Is(f)
  BY DEF SpentUpTo
<1>6. Is(SpentUpTo)
  <2> HIDE DEF Is
  <2>1. QED
    BY <1>4, <1>5
<1>7. SpentUpTo = [d \in 0 .. n |-> IF d = 0 THEN 0 ELSE SpentUpTo[d - 1] + Spending[d]]
  BY <1>1, <1>6 DEF Spending
<1>8. IsSum(SpentUpTo, Spending, n)
  BY <1>2, <1>7, SumIs
<1>9. QED
  BY <1>1, <1>2, <1>8

\* The allowances are naturals as long as no node passes its limit.
LEMMA UnspentIs ==
  TypeOK /\ WithinLimits => /\ Allowance \in [1 .. Len(stack) -> Nat]
                            /\ IsSum(Unspent, Allowance, Len(stack))
<1> SUFFICES ASSUME TypeOK, WithinLimits
             PROVE  /\ Allowance \in [1 .. Len(stack) -> Nat]
                    /\ IsSum(Unspent, Allowance, Len(stack))
  OBVIOUS
<1>1. PICK n \in Nat : n = Len(stack)
  BY StackHas
<1>2. Allowance \in [1 .. n -> Nat]
  <2>1. ASSUME NEW d \in 1 .. n PROVE stack[d].limit - stack[d].here \in Nat
    <3>1. stack[d].limit \in Nat /\ stack[d].here \in Nat
      BY <1>1, StackHas DEF Node
    <3>2. stack[d].here <= stack[d].limit
      BY <1>1 DEF WithinLimits
    <3>3. QED
      BY <3>1, <3>2
  <2>2. QED
    BY <1>1, <2>1 DEF Allowance
<1>3. PICK sum : IsSum(sum, Allowance, n)
  BY <1>1, <1>2, SumExists
<1> DEFINE Is(f) == f = [d \in 0 .. Len(stack) |->
                           IF d = 0 THEN 0 ELSE f[d - 1] + Allowance[d]]
<1>4. Is(sum)
  <2>1. sum = [d \in 0 .. n |-> sum[d]]
    BY <1>3 DEF IsSum
  <2>2. \A d \in 0 .. n : sum[d] = IF d = 0 THEN 0 ELSE sum[d - 1] + Allowance[d]
    BY <1>1, <1>3 DEF IsSum
  <2>3. QED
    BY <1>1, <2>1, <2>2
<1>5. Unspent = CHOOSE f : Is(f)
  BY DEF Unspent
<1>6. Is(Unspent)
  <2> HIDE DEF Is
  <2>1. QED
    BY <1>4, <1>5
<1>7. Unspent = [d \in 0 .. n |-> IF d = 0 THEN 0 ELSE Unspent[d - 1] + Allowance[d]]
  BY <1>1, <1>6
<1>8. IsSum(Unspent, Allowance, n)
  BY <1>2, <1>7, SumIs
<1>9. QED
  BY <1>1, <1>2, <1>8

(***************************************************************************)
(* The turns taken and those the live nodes may still take are together    *)
(* no more than the nodes made so far allow.  (TreeIsBounded alone is not  *)
(* inductive: a node at its limit and one with turns left look the same.)  *)
(***************************************************************************)
TurnsLeft ==
  turns + Unspent[Len(stack)] <= MaxTurns + (nodes - 1) * Larger(2, MaxTurns \div 2)

\* The inductive invariant.
IInv ==
  /\ TypeOK
  /\ Depth <= MaxDepth
  /\ WithinLimits
  /\ TurnsLeft
  /\ MapFits
  /\ SpendingIsAccounted

\* The most turns a child may be allowed.
Ceiling == Larger(2, MaxTurns \div 2)

\* Its multiples, and that half of a limit stays under it.
LEMMA CeilingHolds ==
  /\ Ceiling \in Nat
  /\ \A n \in Nat : n * Ceiling \in Nat /\ (n + 1) * Ceiling = n * Ceiling + Ceiling
  /\ \A limit \in Nat :
       limit <= Larger(2, MaxTurns) =>
         /\ Larger(2, limit \div 2) <= Ceiling
         /\ Larger(2, limit \div 2) <= Larger(2, MaxTurns)
         /\ Larger(2, limit \div 2) \in Nat
<1>1. MaxTurns \in Nat
  BY Constants
<1>2. Ceiling \in Nat
  BY <1>1 DEF Ceiling, Larger
<1>3. \A n \in Nat : n * Ceiling \in Nat /\ (n + 1) * Ceiling = n * Ceiling + Ceiling
  BY <1>2
<1>4. ASSUME NEW limit \in Nat, limit <= Larger(2, MaxTurns)
      PROVE  /\ Larger(2, limit \div 2) <= Ceiling
             /\ Larger(2, limit \div 2) <= Larger(2, MaxTurns)
             /\ Larger(2, limit \div 2) \in Nat
  BY <1>1, <1>4 DEF Ceiling, Larger
<1>5. QED
  BY <1>2, <1>3, <1>4

\* The figures of the tree, in the terms of the induction.
LEMMA Figures ==
  ASSUME IInv
  PROVE  /\ Len(stack) \in Nat \ {0} /\ Len(stack) - 1 <= MaxDepth
         /\ Spending \in [1 .. Len(stack) -> Nat]
         /\ IsSum(SpentUpTo, Spending, Len(stack))
         /\ SpentUpTo[Len(stack)] \in Nat
         /\ subcalls = SpentUpTo[Len(stack)] + lost
         /\ Allowance \in [1 .. Len(stack) -> Nat]
         /\ IsSum(Unspent, Allowance, Len(stack))
         /\ Unspent[Len(stack)] \in Nat
         /\ turns + Unspent[Len(stack)] <= MaxTurns + (nodes - 1) * Ceiling
         /\ \A d \in 1 .. Len(stack) :
              /\ Spending[d] = Absorb(stack[d])
              /\ Allowance[d] = stack[d].limit - stack[d].here
              /\ stack[d].here <= stack[d].limit
              /\ stack[d].limit <= Larger(2, MaxTurns)
<1>1. TypeOK /\ WithinLimits
  BY DEF IInv
<1>2. Len(stack) \in Nat \ {0} /\ Len(stack) \in 0 .. Len(stack)
  BY <1>1, StackHas
<1>3. /\ Spending \in [1 .. Len(stack) -> Nat]
      /\ IsSum(SpentUpTo, Spending, Len(stack))
  BY <1>1, SpentIs
<1>4. /\ Allowance \in [1 .. Len(stack) -> Nat]
      /\ IsSum(Unspent, Allowance, Len(stack))
  BY <1>1, UnspentIs
<1>5. SpentUpTo[Len(stack)] \in Nat /\ Unspent[Len(stack)] \in Nat
  BY <1>2, <1>3, <1>4 DEF IsSum
<1>6. \A d \in 1 .. Len(stack) :
        /\ Spending[d] = Absorb(stack[d])
        /\ Allowance[d] = stack[d].limit - stack[d].here
  BY DEF Spending, Allowance
<1>7. \A d \in 1 .. Len(stack) :
        /\ stack[d].here <= stack[d].limit
        /\ stack[d].limit <= Larger(2, MaxTurns)
  BY <1>1 DEF WithinLimits
<1>8. QED
  BY <1>2, <1>3, <1>4, <1>5, <1>6, <1>7 DEF IInv, TurnsLeft, SpendingIsAccounted, Ceiling, Depth

(***************************************************************************)
(* The step that changes the node at the top.                              *)
(***************************************************************************)
\* The two sums, as state predicates, so that they hold in the next state too.
SpendingSummed ==
  /\ Spending \in [1 .. Len(stack) -> Nat]
  /\ IsSum(SpentUpTo, Spending, Len(stack))
AllowanceSummed ==
  /\ Allowance \in [1 .. Len(stack) -> Nat]
  /\ IsSum(Unspent, Allowance, Len(stack))

\* They hold wherever the types and the limits do ...
LEMMA Summed == (TypeOK => SpendingSummed) /\ (TypeOK /\ WithinLimits => AllowanceSummed)
  BY SpentIs, UnspentIs DEF SpendingSummed, AllowanceSummed

\* ... and after a step.
LEMMA SummedNext ==
  (TypeOK' => SpendingSummed') /\ (TypeOK' /\ WithinLimits' => AllowanceSummed')
  BY Summed, PTL

\* What a step of the top node must keep.
TopGoesTo(node) ==
  /\ node \in Node
  /\ Update(node)
  /\ UNCHANGED <<nodes, timeUp, lost, status>>
  /\ turns' \in Nat /\ subcalls' \in 0 .. MaxSubcalls
  /\ node.limit = Top.limit /\ node.here <= node.limit
  /\ turns' + Top.here = turns + node.here
  /\ subcalls' + Absorb(Top) = subcalls + Absorb(node)
  /\ node.sized /\ node.left > 1 => node.left + nodes <= MaxNodes + node.nested

\* Such a step keeps the invariant.
LEMMA TopChanges ==
  ASSUME IInv, NEW node, TopGoesTo(node)
  PROVE  IInv'
<1>1. PICK n \in Nat \ {0} : n = Len(stack)
  BY Figures
<1>2. /\ stack' \in Seq(Node) /\ stack' # <<>> /\ Len(stack') = n
      /\ \A d \in 1 .. n - 1 : stack'[d] = stack[d]
      /\ stack'[n] = node
  BY <1>1, Updated DEF IInv, TopGoesTo
<1>3. Top = stack[n] /\ Top \in Node /\ n \in 1 .. n
  BY <1>1, StackHas DEF IInv, Top
<1>4. TypeOK'
  BY <1>2 DEF IInv, TypeOK, TopGoesTo
<1>5. (Depth <= MaxDepth)'
  BY <1>1, <1>2 DEF IInv, Depth
<1>6. WithinLimits'
  <2>1. ASSUME NEW d \in 1 .. n
        PROVE  stack'[d].here <= stack'[d].limit /\ stack'[d].limit <= Larger(2, MaxTurns)
    <3>1. CASE d = n
      BY <1>1, <1>2, <1>3, <3>1, Figures DEF TopGoesTo
    <3>2. CASE d # n
      <4>1. d \in 1 .. n - 1
        BY <3>2
      <4>2. QED
        BY <1>1, <1>2, <4>1, Figures
    <3>3. QED
      BY <3>1, <3>2
  <2>2. QED
    BY <1>2, <2>1 DEF WithinLimits
<1>7. /\ TypeOK' /\ WithinLimits' => AllowanceSummed'
      /\ TypeOK' => SpendingSummed'
  BY SummedNext
<1>8. \A d \in 1 .. n - 1 : d \in 1 .. n
  OBVIOUS
<1>9. TurnsLeft'
  <2>1. Allowance' \in [1 .. n -> Nat] /\ IsSum(Unspent', Allowance', n)
    BY <1>2, <1>4, <1>6, <1>7 DEF AllowanceSummed
  <2>2. Allowance \in [1 .. n -> Nat] /\ IsSum(Unspent, Allowance, n)
    BY <1>1, Figures
  <2>3. \A d \in 1 .. n - 1 : Allowance[d] = Allowance'[d]
    BY <1>1, <1>2, <1>8 DEF Allowance
  <2>4. Unspent'[n] + Allowance[n] = Unspent[n] + Allowance'[n]
    BY <2>1, <2>2, <2>3, SumOfTop, SMTT(60)
  <2>5. Allowance[n] = Top.limit - Top.here /\ Allowance'[n] = node.limit - node.here
    BY <1>1, <1>2, <1>3 DEF Allowance
  <2>6. Unspent'[n] \in Nat /\ Unspent[n] \in Nat
    BY <2>1, <2>2 DEF IsSum
  <2>7. Top.limit \in Nat /\ Top.here \in Nat /\ node.here \in Nat /\ turns \in Nat
    BY <1>3 DEF Node, IInv, TypeOK, TopGoesTo
  <2>8. turns' \in Nat /\ turns' + Top.here = turns + node.here /\ node.limit = Top.limit
    BY DEF TopGoesTo
  <2>9. turns' + Unspent'[n] = turns + Unspent[n]
    BY <2>4, <2>5, <2>6, <2>7, <2>8
  <2>10. turns' + Unspent'[n] <= MaxTurns + (nodes' - 1) * Ceiling
    BY <1>1, <2>9, Figures DEF TopGoesTo
  <2>11. QED
    BY <1>2, <2>10 DEF TurnsLeft, Ceiling
<1>10. MapFits'
  <2>1. DOMAIN stack' = 1 .. n
    BY <1>2, LenProperties
  <2>2. ASSUME NEW d \in 1 .. n, stack'[d].sized, stack'[d].left > 1
        PROVE  stack'[d].left + nodes' <= MaxNodes + stack'[d].nested
    <3>1. CASE d = n
      BY <1>2, <2>2, <3>1 DEF TopGoesTo
    <3>2. CASE d # n
      <4>1. d \in 1 .. n - 1 /\ d \in DOMAIN stack
        BY <1>1, <3>2, StackHas DEF IInv
      <4>2. QED
        BY <1>2, <2>2, <4>1 DEF IInv, MapFits, TopGoesTo
    <3>3. QED
      BY <3>1, <3>2
  <2>3. QED
    BY <2>1, <2>2 DEF MapFits
<1>11. SpendingIsAccounted'
  <2>1. Spending' \in [1 .. n -> Nat] /\ IsSum(SpentUpTo', Spending', n)
    BY <1>2, <1>4, <1>7 DEF SpendingSummed
  <2>2. Spending \in [1 .. n -> Nat] /\ IsSum(SpentUpTo, Spending, n)
    BY <1>1, Figures
  <2>3. \A d \in 1 .. n - 1 : Spending[d] = Spending'[d]
    BY <1>1, <1>2, <1>8 DEF Spending
  <2>4. SpentUpTo'[n] + Spending[n] = SpentUpTo[n] + Spending'[n]
    BY <2>1, <2>2, <2>3, SumOfTop, SMTT(60)
  <2>5. Spending[n] = Absorb(Top) /\ Spending'[n] = Absorb(node)
    BY <1>1, <1>2, <1>3 DEF Spending, Absorb
  <2>6. /\ SpentUpTo'[n] \in Nat /\ SpentUpTo[n] \in Nat
        /\ Spending[n] \in Nat /\ Spending'[n] \in Nat
    BY <2>1, <2>2 DEF IsSum
  <2>7. subcalls' \in Nat /\ subcalls' + Absorb(Top) = subcalls + Absorb(node)
    BY Constants DEF TopGoesTo
  <2>8. subcalls = SpentUpTo[n] + lost /\ lost \in Nat
    BY <1>1, Figures DEF IInv, TypeOK
  <2>9. subcalls' = SpentUpTo'[n] + lost
    BY <2>4, <2>5, <2>6, <2>7, <2>8
  <2>10. QED
    BY <1>2, <2>9 DEF SpendingIsAccounted, TopGoesTo
<1>12. QED
  BY <1>4, <1>5, <1>6, <1>9, <1>10, <1>11 DEF IInv

(***************************************************************************)
(* The step that puts a fresh node on the stack.                           *)
(***************************************************************************)
CallerGoesTo(caller) ==
  /\ caller \in Node
  /\ caller.limit = Top.limit /\ caller.here = Top.here
  /\ Absorb(caller) = Absorb(Top)
  /\ caller.sized /\ caller.left > 1 => caller.left + nodes + 1 <= MaxNodes + caller.nested

\* A call that does so keeps the invariant.
LEMMA NodeAdded ==
  ASSUME IInv, NEW sig \in Signatures, NEW caller, CallerGoesTo(caller), Spawn(sig, caller)
  PROVE  IInv'
<1> DEFINE child == NewNode(sig, ChildLimit)
<1>1. PICK n \in Nat \ {0} : n = Len(stack)
  BY Figures
<1>2. /\ stack' \in Seq(Node) /\ stack' # <<>> /\ Len(stack') = n + 1
      /\ \A d \in 1 .. n - 1 : stack'[d] = Nesting(stack[d])
      /\ stack'[n] = caller
      /\ stack'[n + 1] = child
  BY <1>1, Spawned DEF IInv, CallerGoesTo
<1>3. Top = stack[n] /\ Top \in Node /\ n \in 1 .. n
  BY <1>1, StackHas DEF IInv, Top
<1>4. /\ ChildLimit <= Ceiling /\ ChildLimit <= Larger(2, MaxTurns) /\ ChildLimit \in Nat
  <2>1. Top.limit \in Nat /\ Top.limit <= Larger(2, MaxTurns)
    BY <1>1, <1>3, Figures DEF Node
  <2>2. QED
    BY <2>1, CeilingHolds DEF ChildLimit
<1>5. /\ child.limit = ChildLimit /\ child.here = 0 /\ child.left = 0
      /\ child.own = 0 /\ child.below = 0
  BY DEF NewNode
<1>6. \A d \in 1 .. n - 1 :
        /\ d \in 1 .. n /\ d \in DOMAIN stack /\ stack[d] \in Node
        /\ stack'[d].limit = stack[d].limit /\ stack'[d].here = stack[d].here
        /\ stack'[d].own = stack[d].own /\ stack'[d].below = stack[d].below
        /\ stack'[d].left = stack[d].left /\ stack'[d].sized = stack[d].sized
        /\ stack'[d].nested = IF stack[d].left > 0 THEN stack[d].nested + 1 ELSE stack[d].nested
  <2>1. ASSUME NEW node \in Node
        PROVE  /\ Nesting(node).limit = node.limit /\ Nesting(node).here = node.here
               /\ Nesting(node).own = node.own /\ Nesting(node).below = node.below
               /\ Nesting(node).left = node.left /\ Nesting(node).sized = node.sized
               /\ Nesting(node).nested = IF node.left > 0 THEN node.nested + 1 ELSE node.nested
    BY DEF Nesting, Node
  <2>2. ASSUME NEW d \in 1 .. n - 1
        PROVE  d \in 1 .. n /\ d \in DOMAIN stack /\ stack[d] \in Node
    BY <1>1, StackHas DEF IInv
  <2>3. QED
    BY <1>2, <2>1, <2>2
<1>7. /\ nodes' = nodes + 1 /\ nodes < MaxNodes /\ Depth < MaxDepth
      /\ UNCHANGED <<turns, subcalls, timeUp, lost, status>>
  BY DEF Spawn, MayRecurse
<1>8. TypeOK'
  <2>1. nodes' \in 1 .. MaxNodes
    BY <1>7, Constants DEF IInv, TypeOK
  <2>2. QED
    BY <1>2, <1>7, <2>1 DEF IInv, TypeOK
<1>9. (Depth <= MaxDepth)'
  BY <1>1, <1>2, <1>7, Constants DEF Depth
<1>10. WithinLimits'
  <2>1. ASSUME NEW d \in 1 .. n + 1
        PROVE  stack'[d].here <= stack'[d].limit /\ stack'[d].limit <= Larger(2, MaxTurns)
    <3>1. CASE d = n + 1
      BY <1>2, <1>4, <1>5, <3>1
    <3>2. CASE d = n
      BY <1>1, <1>2, <1>3, <3>2, Figures DEF CallerGoesTo
    <3>3. CASE d \in 1 .. n - 1
      BY <1>1, <1>6, <3>3, Figures
    <3>4. QED
      BY <3>1, <3>2, <3>3
  <2>2. QED
    BY <1>2, <2>1 DEF WithinLimits
<1>11. /\ TypeOK' /\ WithinLimits' => AllowanceSummed'
       /\ TypeOK' => SpendingSummed'
  BY SummedNext
<1>12. \A d \in 1 .. n : d \in 1 .. n + 1 /\ (d = n \/ d \in 1 .. n - 1)
  OBVIOUS
<1>13. n + 1 \in 1 .. n + 1
  OBVIOUS
<1>14. TurnsLeft'
  <2>1. Allowance' \in [1 .. n + 1 -> Nat] /\ IsSum(Unspent', Allowance', n + 1)
    BY <1>2, <1>8, <1>10, <1>11 DEF AllowanceSummed
  <2>2. Allowance \in [1 .. n -> Nat] /\ IsSum(Unspent, Allowance, n)
    BY <1>1, Figures
  <2>3. ASSUME NEW d \in 1 .. n PROVE Allowance[d] = Allowance'[d]
    <3>1. Allowance[d] = stack[d].limit - stack[d].here
      BY <1>1 DEF Allowance
    <3>2. Allowance'[d] = stack'[d].limit - stack'[d].here
      BY <1>2, <1>12 DEF Allowance
    <3>3. stack'[d].limit = stack[d].limit /\ stack'[d].here = stack[d].here
      BY <1>2, <1>3, <1>6, <1>12 DEF CallerGoesTo
    <3>4. QED
      BY <3>1, <3>2, <3>3
  <2>4. Unspent'[n + 1] = Unspent[n] + Allowance'[n + 1]
    BY <2>1, <2>2, <2>3, SumOfMore, SMTT(60)
  <2>5. Allowance'[n + 1] = ChildLimit
    <3>1. Allowance'[n + 1] = child.limit - child.here
      BY <1>2, <1>13 DEF Allowance
    <3>2. QED
      BY <1>4, <1>5, <3>1
  <2>6. Unspent[n] \in Nat
    BY <2>2 DEF IsSum
  <2>7. turns \in Nat /\ nodes \in Nat /\ nodes - 1 \in Nat /\ MaxTurns \in Nat
    BY Constants DEF IInv, TypeOK
  <2>8. turns + Unspent[n] <= MaxTurns + (nodes - 1) * Ceiling
    BY <1>1, Figures
  <2>9. (nodes' - 1) * Ceiling = (nodes - 1) * Ceiling + Ceiling /\ (nodes - 1) * Ceiling \in Nat
    <3>1. nodes' - 1 = (nodes - 1) + 1
      BY <1>7, <2>7
    <3>2. QED
      BY <2>7, <3>1, CeilingHolds
  <2>10. turns' + Unspent'[n + 1] <= MaxTurns + (nodes' - 1) * Ceiling
    <3>1. PICK before, after : before = (nodes - 1) * Ceiling /\ after = (nodes' - 1) * Ceiling
      OBVIOUS
    <3>2. /\ before \in Nat /\ after = before + Ceiling
          /\ turns + Unspent[n] <= MaxTurns + before
      BY <2>8, <2>9, <3>1
    <3>3. turns' + Unspent'[n + 1] <= MaxTurns + after
      BY <1>4, <1>7, <2>4, <2>5, <2>6, <2>7, <3>2, CeilingHolds
    <3>4. QED
      BY <3>1, <3>3
  <2>11. QED
    BY <1>2, <2>10 DEF TurnsLeft, Ceiling
<1>15. MapFits'
  <2>1. DOMAIN stack' = 1 .. n + 1
    BY <1>2, LenProperties
  <2>2. ASSUME NEW d \in 1 .. n + 1, stack'[d].sized, stack'[d].left > 1
        PROVE  stack'[d].left + nodes' <= MaxNodes + stack'[d].nested
    <3>1. CASE d = n + 1
      BY <1>2, <1>5, <2>2, <3>1
    <3>2. CASE d = n
      <4>1. caller.left + nodes + 1 <= MaxNodes + caller.nested
        BY <1>2, <2>2, <3>2 DEF CallerGoesTo
      <4>2. caller.left \in Nat /\ nodes \in Nat
        BY DEF CallerGoesTo, Node, IInv, TypeOK
      <4>3. caller.left + nodes' = caller.left + nodes + 1
        BY <1>7, <4>2
      <4>4. QED
        BY <1>2, <3>2, <4>1, <4>3
    <3>3. CASE d \in 1 .. n - 1
      <4>1. stack[d].left + nodes <= MaxNodes + stack[d].nested
        BY <1>6, <2>2, <3>3 DEF IInv, MapFits
      <4>2. /\ stack[d].left \in Nat /\ stack[d].nested \in Nat /\ nodes \in Nat
            /\ MaxNodes \in Nat
        BY <1>6, <3>3, Constants DEF Node, IInv, TypeOK
      <4>3. stack'[d].left = stack[d].left /\ stack'[d].nested = stack[d].nested + 1
        BY <1>6, <2>2, <3>3, <4>2
      <4>4. QED
        BY <1>7, <4>1, <4>2, <4>3
    <3>4. QED
      BY <3>1, <3>2, <3>3
  <2>3. QED
    BY <2>1, <2>2 DEF MapFits
<1>16. SpendingIsAccounted'
  <2>1. Spending' \in [1 .. n + 1 -> Nat] /\ IsSum(SpentUpTo', Spending', n + 1)
    BY <1>2, <1>8, <1>11 DEF SpendingSummed
  <2>2. Spending \in [1 .. n -> Nat] /\ IsSum(SpentUpTo, Spending, n)
    BY <1>1, Figures
  <2>3. ASSUME NEW d \in 1 .. n PROVE Spending[d] = Spending'[d]
    <3>1. Spending[d] = Absorb(stack[d])
      BY <1>1 DEF Spending
    <3>2. Spending'[d] = Absorb(stack'[d])
      BY <1>2, <1>12 DEF Spending, Absorb
    <3>3. CASE d = n
      BY <1>2, <1>3, <3>1, <3>2, <3>3 DEF CallerGoesTo
    <3>4. CASE d \in 1 .. n - 1
      BY <1>6, <3>1, <3>2, <3>4 DEF Absorb
    <3>5. QED
      BY <1>12, <3>3, <3>4
  <2>4. SpentUpTo'[n + 1] = SpentUpTo[n] + Spending'[n + 1]
    BY <2>1, <2>2, <2>3, SumOfMore, SMTT(60)
  <2>5. Spending'[n + 1] = 0
    <3>1. Spending'[n + 1] = Absorb(child)
      BY <1>2, <1>13 DEF Spending, Absorb
    <3>2. QED
      BY <1>5, <3>1 DEF Absorb
  <2>6. SpentUpTo[n] \in Nat /\ subcalls = SpentUpTo[n] + lost /\ lost \in Nat
    BY <1>1, Figures DEF IInv, TypeOK
  <2>7. subcalls' = SpentUpTo'[n + 1] + lost'
    BY <1>7, <2>4, <2>5, <2>6
  <2>8. QED
    BY <1>2, <2>7 DEF SpendingIsAccounted
<1>17. QED
  BY <1>8, <1>9, <1>10, <1>14, <1>15, <1>16 DEF IInv

(***************************************************************************)
(* The step that takes the top node off the stack.                         *)
(***************************************************************************)
CallerTakesBack(caller) ==
  /\ caller \in Node
  /\ caller.limit = Caller.limit /\ caller.here = Caller.here
  /\ Absorb(caller) + lost' = Absorb(Caller) + Absorb(Top) + lost
  /\ lost' \in Nat
  /\ caller.sized /\ caller.left > 1 => caller.left + nodes <= MaxNodes + caller.nested
  /\ UNCHANGED <<nodes, turns, subcalls, timeUp, status>>

\* The end of a node keeps the invariant.
LEMMA NodeLeaves ==
  ASSUME IInv, Depth # 0, NEW caller, CallerTakesBack(caller), Pop(caller)
  PROVE  IInv'
<1>1. PICK n \in Nat \ {0, 1} : n = Len(stack)
  <2>1. PICK n \in Nat \ {0} : n = Len(stack)
    BY Figures
  <2>2. n - 1 # 0
    BY <2>1 DEF Depth
  <2>3. n \in Nat \ {0, 1}
    BY <2>2
  <2>4. QED
    BY <2>1, <2>3
<1>2. /\ stack' \in Seq(Node) /\ stack' # <<>> /\ Len(stack') = n - 1
      /\ \A d \in 1 .. n - 2 : stack'[d] = stack[d]
      /\ stack'[n - 1] = caller
  BY <1>1, Popped DEF IInv, CallerTakesBack
<1>3. /\ n \in 1 .. n /\ n - 1 \in 1 .. n /\ n - 1 \in 1 .. n - 1 /\ n - 1 \in Nat
      /\ \A d \in 1 .. n - 1 : d = n - 1 \/ d \in 1 .. n - 2
      /\ \A d \in 1 .. n - 2 : d \in 1 .. n /\ d \in 1 .. n - 1
  OBVIOUS
<1>4. /\ Top = stack[n] /\ Top \in Node /\ Caller = stack[n - 1] /\ Caller \in Node
      /\ \A d \in 1 .. n : d \in DOMAIN stack
  BY <1>1, <1>3, StackHas DEF IInv, Top, Caller
<1>5. UNCHANGED <<nodes, turns, subcalls, timeUp, status>>
  BY DEF CallerTakesBack
<1>6. TypeOK'
  BY <1>2, <1>5 DEF IInv, TypeOK, CallerTakesBack
<1>7. (Depth <= MaxDepth)'
  BY <1>1, <1>2, Constants DEF IInv, Depth
<1>8. WithinLimits'
  <2>1. ASSUME NEW d \in 1 .. n - 1
        PROVE  stack'[d].here <= stack'[d].limit /\ stack'[d].limit <= Larger(2, MaxTurns)
    <3>1. CASE d = n - 1
      BY <1>1, <1>2, <1>3, <1>4, <3>1, Figures DEF CallerTakesBack
    <3>2. CASE d \in 1 .. n - 2
      BY <1>1, <1>2, <1>3, <3>2, Figures
    <3>3. QED
      BY <1>3, <3>1, <3>2
  <2>2. QED
    BY <1>2, <2>1 DEF WithinLimits
<1>9. /\ TypeOK' /\ WithinLimits' => AllowanceSummed'
      /\ TypeOK' => SpendingSummed'
  BY SummedNext
<1>10. TurnsLeft'
  <2>1. Allowance' \in [1 .. n - 1 -> Nat] /\ IsSum(Unspent', Allowance', n - 1)
    BY <1>2, <1>6, <1>8, <1>9 DEF AllowanceSummed
  <2>2. Allowance \in [1 .. n -> Nat] /\ IsSum(Unspent, Allowance, n)
    BY <1>1, Figures
  <2>3. \A d \in 1 .. n - 2 : Allowance[d] = Allowance'[d]
    BY <1>1, <1>2, <1>3 DEF Allowance
  <2>4. Unspent'[n - 1] + Allowance[n - 1] + Allowance[n] = Unspent[n] + Allowance'[n - 1]
    BY <2>1, <2>2, <2>3, SumOfLess, SMTT(60)
  <2>5. Allowance[n - 1] = Allowance'[n - 1]
    <3>1. Allowance[n - 1] = Caller.limit - Caller.here
      BY <1>1, <1>3, <1>4 DEF Allowance
    <3>2. Allowance'[n - 1] = caller.limit - caller.here
      BY <1>2, <1>3 DEF Allowance
    <3>3. QED
      BY <3>1, <3>2 DEF CallerTakesBack
  <2>6. /\ Unspent'[n - 1] \in Nat /\ Unspent[n] \in Nat
        /\ Allowance[n] \in Nat /\ Allowance[n - 1] \in Nat
    BY <1>3, <2>1, <2>2 DEF IsSum
  <2>7. Unspent'[n - 1] <= Unspent[n]
    BY <2>4, <2>5, <2>6
  <2>8. turns \in Nat /\ nodes \in Nat \ {0} /\ MaxTurns \in Nat
    BY Constants DEF IInv, TypeOK
  <2>9. PICK ceiling \in Nat : ceiling = MaxTurns + (nodes - 1) * Ceiling
    <3>1. nodes - 1 \in Nat
      BY <2>8
    <3>2. (nodes - 1) * Ceiling \in Nat
      BY <3>1, CeilingHolds
    <3>3. QED
      BY <2>8, <3>2
  <2>10. turns + Unspent[n] <= ceiling
    BY <1>1, <2>9, Figures
  <2>11. turns + Unspent'[n - 1] <= ceiling
    BY <2>6, <2>7, <2>8, <2>10
  <2>12. turns' + Unspent'[n - 1] <= MaxTurns + (nodes' - 1) * Ceiling
    BY <1>5, <2>9, <2>11
  <2>13. QED
    BY <1>2, <2>12 DEF TurnsLeft, Ceiling
<1>11. MapFits'
  <2>1. DOMAIN stack' = 1 .. n - 1
    BY <1>2, LenProperties
  <2>2. ASSUME NEW d \in 1 .. n - 1, stack'[d].sized, stack'[d].left > 1
        PROVE  stack'[d].left + nodes' <= MaxNodes + stack'[d].nested
    <3>1. CASE d = n - 1
      BY <1>2, <2>2, <3>1 DEF CallerTakesBack
    <3>2. CASE d \in 1 .. n - 2
      BY <1>2, <1>3, <1>4, <1>5, <2>2, <3>2 DEF IInv, MapFits
    <3>3. QED
      BY <1>3, <3>1, <3>2
  <2>3. QED
    BY <2>1, <2>2 DEF MapFits
<1>12. SpendingIsAccounted'
  <2>1. Spending' \in [1 .. n - 1 -> Nat] /\ IsSum(SpentUpTo', Spending', n - 1)
    BY <1>2, <1>6, <1>9 DEF SpendingSummed
  <2>2. Spending \in [1 .. n -> Nat] /\ IsSum(SpentUpTo, Spending, n)
    BY <1>1, Figures
  <2>3. \A d \in 1 .. n - 2 : Spending[d] = Spending'[d]
    BY <1>1, <1>2, <1>3 DEF Spending
  <2>4. SpentUpTo'[n - 1] + Spending[n - 1] + Spending[n] = SpentUpTo[n] + Spending'[n - 1]
    BY <2>1, <2>2, <2>3, SumOfLess, SMTT(60)
  <2>5. Spending[n] = Absorb(Top) /\ Spending[n - 1] = Absorb(Caller)
    BY <1>1, <1>3, <1>4 DEF Spending
  <2>6. Spending'[n - 1] = Absorb(caller)
    BY <1>2, <1>3 DEF Spending, Absorb
  <2>7. /\ SpentUpTo'[n - 1] \in Nat /\ SpentUpTo[n] \in Nat
        /\ Spending[n] \in Nat /\ Spending[n - 1] \in Nat /\ Spending'[n - 1] \in Nat
    BY <1>3, <2>1, <2>2 DEF IsSum
  <2>8. subcalls = SpentUpTo[n] + lost /\ lost \in Nat
    BY <1>1, Figures DEF IInv, TypeOK
  <2>9. /\ Absorb(caller) + lost' = Absorb(Caller) + Absorb(Top) + lost
        /\ lost' \in Nat
    BY DEF CallerTakesBack
  <2>10. subcalls' = SpentUpTo'[n - 1] + lost'
    BY <1>5, <2>4, <2>5, <2>6, <2>7, <2>8, <2>9
  <2>11. QED
    BY <1>2, <2>10 DEF SpendingIsAccounted
<1>13. QED
  BY <1>6, <1>7, <1>8, <1>10, <1>11, <1>12 DEF IInv

(***************************************************************************)
(* The step that leaves the stack and the figures alone.                   *)
(***************************************************************************)
LEMMA StackStays ==
  ASSUME IInv, UNCHANGED <<stack, nodes, turns, subcalls, lost>>,
         timeUp' \in BOOLEAN, status' \in {"running", "ended", "raised"}
  PROVE  IInv'
<1>1. PICK n \in Nat \ {0} : n = Len(stack)
  BY Figures
<1>2. TypeOK'
  BY DEF IInv, TypeOK
<1>3. (Depth <= MaxDepth)' /\ WithinLimits' /\ MapFits'
  BY DEF IInv, Depth, WithinLimits, MapFits
<1>4. Unspent' = Unspent /\ SpentUpTo' = SpentUpTo
  BY DEF Unspent, SpentUpTo, Allowance, Absorb
<1>5. TurnsLeft' /\ SpendingIsAccounted'
  BY <1>4 DEF IInv, TurnsLeft, SpendingIsAccounted
<1>6. QED
  BY <1>2, <1>3, <1>5 DEF IInv

\* What the invariant says of the node at the top.
LEMMA TopKeeps ==
  ASSUME IInv
  PROVE  /\ Top \in Node
         /\ Top.here <= Top.limit
         /\ Top.sized /\ Top.left > 1 => Top.left + nodes <= MaxNodes + Top.nested
         /\ nodes \in Nat /\ turns \in Nat /\ subcalls \in Nat /\ lost \in Nat
<1>1. PICK n \in Nat \ {0} : n = Len(stack)
  BY Figures
<1>2. Top = stack[n] /\ Top \in Node /\ n \in 1 .. n /\ n \in DOMAIN stack
  BY <1>1, StackHas DEF IInv, Top
<1>3. Top.here <= Top.limit
  BY <1>1, <1>2, Figures
<1>4. Top.sized /\ Top.left > 1 => Top.left + nodes <= MaxNodes + Top.nested
  BY <1>2 DEF IInv, MapFits
<1>5. nodes \in Nat /\ turns \in Nat /\ subcalls \in Nat /\ lost \in Nat
  BY Constants DEF IInv, TypeOK
<1>6. QED
  BY <1>2, <1>3, <1>4, <1>5

\* The same of its caller.
LEMMA CallerKeeps ==
  ASSUME IInv, Depth # 0
  PROVE  /\ Caller \in Node
         /\ Caller.sized /\ Caller.left > 1 =>
              Caller.left + nodes <= MaxNodes + Caller.nested
<1>1. PICK n \in Nat \ {0} : n = Len(stack)
  BY Figures
<1>2. n - 1 # 0
  BY <1>1 DEF Depth
<1>3. n - 1 \in 1 .. n
  BY <1>2
<1>4. Caller = stack[n - 1] /\ Caller \in Node /\ n - 1 \in DOMAIN stack
  BY <1>1, <1>3, StackHas DEF IInv, Caller
<1>5. QED
  BY <1>4 DEF IInv, MapFits

\* A run starts in the invariant.
LEMMA InitStarts == Init => IInv
<1> SUFFICES ASSUME Init PROVE IInv
  OBVIOUS
<1>1. PICK sig \in Signatures : stack = <<NewNode(sig, MaxTurns)>>
  BY DEF Init
<1>2. /\ nodes = 1 /\ turns = 0 /\ subcalls = 0 /\ timeUp = FALSE /\ lost = 0
      /\ status = "running"
  BY DEF Init
<1> DEFINE root == NewNode(sig, MaxTurns)
<1>3. /\ root \in Node /\ root.limit = MaxTurns /\ root.here = 0 /\ root.left = 0
      /\ root.own = 0 /\ root.below = 0
  BY Constants DEF NewNode, Node
<1> HIDE DEF root
<1>4. stack = <<root>>
  BY <1>1 DEF root
<1>5. stack \in Seq(Node) /\ stack # <<>> /\ Len(stack) = 1 /\ stack[1] = root
  BY <1>3, <1>4
<1>6. TypeOK
  <2>1. nodes \in 1 .. MaxNodes /\ turns \in Nat /\ subcalls \in 0 .. MaxSubcalls /\ lost \in Nat
    BY <1>2, Constants
  <2>2. timeUp \in BOOLEAN /\ status \in {"running", "ended", "raised"}
    BY <1>2
  <2>3. QED
    BY <1>5, <2>1, <2>2 DEF TypeOK
<1>7. Depth <= MaxDepth
  BY <1>5, Constants DEF Depth
<1>8. WithinLimits
  BY <1>3, <1>5, Constants DEF WithinLimits, Larger
<1>9. MapFits
  BY <1>3, <1>4 DEF MapFits
<1>10. /\ Spending \in [1 .. 1 -> Nat] /\ IsSum(SpentUpTo, Spending, 1)
       /\ Allowance \in [1 .. 1 -> Nat] /\ IsSum(Unspent, Allowance, 1)
  BY <1>5, <1>6, <1>8, Summed DEF SpendingSummed, AllowanceSummed
<1>11. 1 \in 1 .. 1 /\ 1 - 1 = 0
  OBVIOUS
<1>12. SpentUpTo[1] = SpentUpTo[0] + Spending[1] /\ SpentUpTo[0] = 0
  BY <1>10, <1>11 DEF IsSum
<1>13. Unspent[1] = Unspent[0] + Allowance[1] /\ Unspent[0] = 0
  BY <1>10, <1>11 DEF IsSum
<1>14. Spending[1] = 0
  BY <1>3, <1>5, <1>11 DEF Spending, Absorb
<1>15. Allowance[1] = MaxTurns
  <2>1. Allowance[1] = root.limit - root.here
    BY <1>5, <1>11 DEF Allowance
  <2>2. QED
    BY <1>3, <2>1, Constants
<1>16. SpendingIsAccounted
  BY <1>2, <1>5, <1>12, <1>14 DEF SpendingIsAccounted
<1>17. TurnsLeft
  <2>1. Unspent[1] = MaxTurns
    BY <1>13, <1>15, Constants
  <2>2. (nodes - 1) * Ceiling = 0
    BY <1>2, CeilingHolds
  <2>3. turns + Unspent[1] <= MaxTurns + (nodes - 1) * Ceiling
    BY <1>2, <2>1, <2>2, Constants
  <2>4. QED
    BY <1>5, <2>3 DEF TurnsLeft, Ceiling
<1>18. QED
  BY <1>6, <1>7, <1>8, <1>9, <1>16, <1>17 DEF IInv

\* Every step keeps it.
LEMMA NextKeeps == IInv /\ [Next]_vars => IInv'
<1> SUFFICES ASSUME IInv, [Next]_vars PROVE IInv'
  OBVIOUS
<1> DEFINE top == Top
<1>a. /\ top \in Node /\ top.here \in Nat /\ top.limit \in Nat /\ top.own \in Nat
      /\ top.below \in Nat /\ top.left \in Nat /\ top.nested \in Nat
  BY TopKeeps DEF Node
<1>b. /\ top.here <= top.limit
      /\ top.sized /\ top.left > 1 => top.left + nodes <= MaxNodes + top.nested
      /\ nodes \in Nat /\ turns \in Nat /\ subcalls \in Nat /\ lost \in Nat
      /\ subcalls \in 0 .. MaxSubcalls
  BY TopKeeps DEF IInv, TypeOK
<1>1. CASE AskTurn
  <2> DEFINE node == [top EXCEPT !.here = @ + 1, !.at = "block"]
  <2>1. node \in Node
    <3>1. top.here + 1 \in Nat
      BY <1>a
    <3>2. QED
      BY <1>a, <3>1 DEF Node
  <2>2. /\ node.limit = top.limit /\ node.here = top.here + 1 /\ node.own = top.own
        /\ node.below = top.below /\ node.sized = top.sized /\ node.left = top.left
        /\ node.nested = top.nested
    BY <1>a DEF Node
  <2>3. /\ Update(node) /\ turns' = turns + 1
        /\ UNCHANGED <<nodes, subcalls, timeUp, lost, status>> /\ ~(top.here >= top.limit)
    BY <1>1 DEF AskTurn, Exhausted
  <2> HIDE DEF node
  <2>4. TopGoesTo(node)
    <3>1. node.here <= node.limit /\ turns' \in Nat
      BY <1>a, <1>b, <2>2, <2>3
    <3>2. turns' + top.here = turns + node.here
      BY <1>a, <1>b, <2>2, <2>3
    <3>3. subcalls' + Absorb(top) = subcalls + Absorb(node)
      BY <2>2, <2>3 DEF Absorb
    <3>4. node.sized /\ node.left > 1 => node.left + nodes <= MaxNodes + node.nested
      BY <1>b, <2>2
    <3>5. QED
      BY <1>b, <2>1, <2>2, <2>3, <3>1, <3>2, <3>3, <3>4 DEF TopGoesTo
  <2>5. QED
    BY <2>4, TopChanges
<1>2. CASE AskCommit
  <2> DEFINE node == [top EXCEPT !.commits = @ + 1, !.at = "block"]
  <2>1. node \in Node
    <3>1. top.commits + 1 \in Nat
      BY <1>a DEF Node
    <3>2. QED
      BY <1>a, <3>1 DEF Node
  <2>2. /\ node.limit = top.limit /\ node.here = top.here /\ node.own = top.own
        /\ node.below = top.below /\ node.sized = top.sized /\ node.left = top.left
        /\ node.nested = top.nested
    BY <1>a DEF Node
  <2>3. Update(node) /\ UNCHANGED <<nodes, turns, subcalls, timeUp, lost, status>>
    BY <1>2 DEF AskCommit, ledger
  <2> HIDE DEF node
  <2>4. TopGoesTo(node)
    <3>1. subcalls' + Absorb(top) = subcalls + Absorb(node)
      BY <2>2, <2>3 DEF Absorb
    <3>2. node.sized /\ node.left > 1 => node.left + nodes <= MaxNodes + node.nested
      BY <1>b, <2>2
    <3>3. QED
      BY <1>b, <2>1, <2>2, <2>3, <3>1, <3>2 DEF TopGoesTo
  <2>5. QED
    BY <2>4, TopChanges
<1>3. CASE BlockEnds
  <2> DEFINE node == [top EXCEPT !.at = "ask"]
  <2>1. node \in Node
    BY <1>a DEF Node
  <2>2. /\ node.limit = top.limit /\ node.here = top.here /\ node.own = top.own
        /\ node.below = top.below /\ node.sized = top.sized /\ node.left = top.left
        /\ node.nested = top.nested
    BY <1>a DEF Node
  <2>3. Update(node) /\ UNCHANGED <<nodes, turns, subcalls, timeUp, lost, status>>
    BY <1>3 DEF BlockEnds, ledger
  <2> HIDE DEF node
  <2>4. TopGoesTo(node)
    <3>1. subcalls' + Absorb(top) = subcalls + Absorb(node)
      BY <2>2, <2>3 DEF Absorb
    <3>2. node.sized /\ node.left > 1 => node.left + nodes <= MaxNodes + node.nested
      BY <1>b, <2>2
    <3>3. QED
      BY <1>b, <2>1, <2>2, <2>3, <3>1, <3>2 DEF TopGoesTo
  <2>5. QED
    BY <2>4, TopChanges
<1>4. CASE Query
  <2> DEFINE node == [top EXCEPT !.own = @ + 1]
  <2>1. node \in Node
    BY <1>a DEF Node
  <2>2. /\ node.limit = top.limit /\ node.here = top.here /\ node.own = top.own + 1
        /\ node.below = top.below /\ node.sized = top.sized /\ node.left = top.left
        /\ node.nested = top.nested
    BY <1>a DEF Node
  <2>3. /\ Update(node) /\ subcalls' = subcalls + 1 /\ subcalls < MaxSubcalls
        /\ UNCHANGED <<nodes, turns, timeUp, lost, status>>
    BY <1>4 DEF Query
  <2> HIDE DEF node
  <2>4. TopGoesTo(node)
    <3>1. subcalls' \in 0 .. MaxSubcalls
      BY <1>b, <2>3, Constants
    <3>2. subcalls' + Absorb(top) = subcalls + Absorb(node)
      BY <1>a, <1>b, <2>2, <2>3 DEF Absorb
    <3>3. node.sized /\ node.left > 1 => node.left + nodes <= MaxNodes + node.nested
      BY <1>b, <2>2
    <3>4. QED
      BY <1>b, <2>1, <2>2, <2>3, <3>1, <3>2, <3>3 DEF TopGoesTo
  <2>5. QED
    BY <2>4, TopChanges
<1>5. CASE TimeRunsOut
  BY <1>5, StackStays DEF TimeRunsOut, IInv, TypeOK
<1>6. ASSUME NEW sig \in Signatures, Recurse(sig) PROVE IInv'
  <2>1. Spawn(sig, top) /\ top.left = 0
    BY <1>6 DEF Recurse
  <2>2. CallerGoesTo(top)
    BY <1>a, <2>1 DEF CallerGoesTo
  <2>3. QED
    BY <2>1, <2>2, NodeAdded
<1>7. ASSUME NEW sig \in Signatures, MapChild(sig) PROVE IInv'
  <2> DEFINE caller == [top EXCEPT !.left = @ - 1]
  <2>1. Spawn(sig, caller) /\ top.left > 0
    BY <1>7 DEF MapChild
  <2>2. caller \in Node
    BY <1>a, <2>1 DEF Node
  <2>3. /\ caller.limit = top.limit /\ caller.here = top.here /\ caller.own = top.own
        /\ caller.below = top.below /\ caller.sized = top.sized
        /\ caller.left = top.left - 1 /\ caller.nested = top.nested
    BY <1>a DEF Node
  <2> HIDE DEF caller
  <2>4. CallerGoesTo(caller)
    <3>1. ASSUME caller.sized, caller.left > 1
          PROVE  caller.left + nodes + 1 <= MaxNodes + caller.nested
      <4>1. top.sized /\ top.left > 1
        BY <1>a, <2>3, <3>1
      <4>2. top.left + nodes <= MaxNodes + top.nested
        BY <1>b, <4>1
      <4>3. QED
        BY <1>a, <1>b, <2>3, <4>2
    <3>2. Absorb(caller) = Absorb(top)
      BY <2>3 DEF Absorb
    <3>3. QED
      BY <2>2, <2>3, <3>1, <3>2 DEF CallerGoesTo
  <2>5. QED
    BY <2>1, <2>4, NodeAdded
<1>8. ASSUME NEW parts \in 1 .. MaxParts, NEW sized \in BOOLEAN, Map(parts, sized)
      PROVE  IInv'
  <2> DEFINE node == [top EXCEPT !.left = parts, !.sized = sized, !.nested = 0]
  <2>1. node \in Node
    <3>1. parts \in Nat /\ sized \in BOOLEAN
      <4>1. parts \in Nat
        OBVIOUS
      <4>2. QED
        BY <4>1
    <3>2. CASE sized = TRUE
      BY <1>a, <3>1, <3>2 DEF Node
    <3>3. CASE sized = FALSE
      BY <1>a, <3>1, <3>3 DEF Node
    <3>4. QED
      BY <3>1, <3>2, <3>3
  <2>2. /\ node.limit = top.limit /\ node.here = top.here /\ node.own = top.own
        /\ node.below = top.below /\ node.sized = sized /\ node.left = parts
        /\ node.nested = 0
    BY <1>a DEF Node
  <2>3. /\ Update(node) /\ UNCHANGED <<nodes, turns, subcalls, timeUp, lost, status>>
        /\ sized => parts <= Larger(1, MaxNodes - nodes)
    BY <1>8 DEF Map, ledger
  <2> HIDE DEF node
  <2>4. TopGoesTo(node)
    <3>1. subcalls' + Absorb(top) = subcalls + Absorb(node)
      BY <2>2, <2>3 DEF Absorb
    <3>2. ASSUME node.sized, node.left > 1
          PROVE  node.left + nodes <= MaxNodes + node.nested
      <4>1. parts > 1 /\ parts <= Larger(1, MaxNodes - nodes) /\ MaxNodes \in Nat
        BY <2>2, <2>3, <3>2, Constants
      <4>2. parts + nodes <= MaxNodes + 0
        BY <1>b, <4>1 DEF Larger
      <4>3. QED
        BY <2>2, <4>2
    <3>3. QED
      BY <1>b, <2>1, <2>2, <2>3, <3>1, <3>2 DEF TopGoesTo
  <2>5. QED
    BY <2>4, TopChanges
<1>9. CASE MapStops
  <2> DEFINE node == [top EXCEPT !.left = 0]
  <2>1. node \in Node
    BY <1>a DEF Node
  <2>2. /\ node.limit = top.limit /\ node.here = top.here /\ node.own = top.own
        /\ node.below = top.below /\ node.left = 0
    BY <1>a DEF Node
  <2>3. Update(node) /\ UNCHANGED <<nodes, turns, subcalls, timeUp, lost, status>>
    BY <1>9 DEF MapStops, ledger
  <2> HIDE DEF node
  <2>4. TopGoesTo(node)
    <3>1. subcalls' + Absorb(top) = subcalls + Absorb(node)
      BY <2>2, <2>3 DEF Absorb
    <3>2. ~(node.left > 1)
      BY <2>2
    <3>3. QED
      BY <1>b, <2>1, <2>2, <2>3, <3>1, <3>2 DEF TopGoesTo
  <2>5. QED
    BY <2>4, TopChanges
<1>10. CASE Return
  <2>1. CASE Depth = 0
    BY <1>10, <2>1, StackStays DEF Return, ledger, IInv, TypeOK
  <2>2. CASE Depth # 0
    <3> DEFINE caller == [Caller EXCEPT !.below = @ + Absorb(top)]
    <3>1. Pop(caller) /\ UNCHANGED <<nodes, turns, subcalls, timeUp, lost, status>>
      BY <1>10, <2>2 DEF Return, ledger
    <3>2. Absorb(top) \in Nat
      BY <1>a DEF Absorb
    <3>3. caller \in Node /\ Caller.own \in Nat /\ Caller.below \in Nat
      BY <2>2, <3>2, CallerKeeps DEF Node
    <3>4. /\ caller.limit = Caller.limit /\ caller.here = Caller.here
          /\ caller.own = Caller.own /\ caller.below = Caller.below + Absorb(top)
          /\ caller.sized = Caller.sized /\ caller.left = Caller.left
          /\ caller.nested = Caller.nested
      BY <2>2, CallerKeeps DEF Node
    <3> HIDE DEF caller
    <3>5. CallerTakesBack(caller)
      <4>1. Absorb(caller) + lost' = Absorb(Caller) + Absorb(top) + lost
        <5>1. Absorb(caller) = Absorb(Caller) + Absorb(top)
          <6>1. PICK given \in Nat : given = Absorb(top)
            BY <3>2
          <6>2. caller.own + caller.below = (Caller.own + Caller.below) + given
            BY <3>3, <3>4, <6>1
          <6>3. Absorb(caller) = caller.own + caller.below /\ Absorb(Caller) = Caller.own + Caller.below
            BY DEF Absorb
          <6>4. QED
            BY <6>1, <6>2, <6>3
        <5>2. QED
          BY <3>1, <5>1
      <4>2. caller.sized /\ caller.left > 1 => caller.left + nodes <= MaxNodes + caller.nested
        BY <2>2, <3>4, CallerKeeps
      <4>3. QED
        BY <1>b, <3>1, <3>3, <3>4, <4>1, <4>2 DEF CallerTakesBack
    <3>6. QED
      BY <2>2, <3>1, <3>5, NodeLeaves
  <2>3. QED
    BY <2>1, <2>2
<1>11. CASE Raise
  <2>1. CASE Depth = 0
    BY <1>11, <2>1, StackStays DEF Raise, ledger, IInv, TypeOK
  <2>2. CASE Depth # 0
    <3> DEFINE caller == [Caller EXCEPT !.left = 0]
    <3>1. /\ Pop(caller) /\ lost' = lost + Absorb(top)
          /\ UNCHANGED <<nodes, turns, subcalls, timeUp, status>>
      BY <1>11, <2>2 DEF Raise, ledger
    <3>2. Absorb(top) \in Nat
      BY <1>a DEF Absorb
    <3>3. caller \in Node /\ Caller.own \in Nat /\ Caller.below \in Nat
      BY <2>2, CallerKeeps DEF Node
    <3>4. /\ caller.limit = Caller.limit /\ caller.here = Caller.here
          /\ caller.own = Caller.own /\ caller.below = Caller.below /\ caller.left = 0
      BY <2>2, CallerKeeps DEF Node
    <3> HIDE DEF caller
    <3>5. CallerTakesBack(caller)
      <4>1. Absorb(caller) = Absorb(Caller) /\ Absorb(Caller) \in Nat
        BY <3>3, <3>4 DEF Absorb
      <4>2. /\ Absorb(caller) + lost' = Absorb(Caller) + Absorb(top) + lost
            /\ lost' \in Nat
        BY <1>b, <3>1, <3>2, <4>1
      <4>3. ~(caller.left > 1)
        BY <3>4
      <4>4. QED
        BY <3>1, <3>3, <3>4, <4>2, <4>3 DEF CallerTakesBack
    <3>6. QED
      BY <2>2, <3>1, <3>5, NodeLeaves
  <2>3. QED
    BY <2>1, <2>2
<1>12. CASE Done \/ UNCHANGED vars
  BY <1>12, StackStays DEF Done, vars, ledger, IInv, TypeOK
<1>13. QED
  BY <1>1, <1>2, <1>3, <1>4, <1>5, <1>6, <1>7, <1>8, <1>9, <1>10, <1>11, <1>12 DEF Next
-----------------------------------------------------------------------------
\* So it always holds.
LEMMA InvariantHolds == Spec => []IInv
  BY InitStarts, NextKeeps, PTL DEF Spec

\* RecursionTree's variables keep their types: nodes and subcalls their limits.
THEOREM TypeCorrect == Spec => []TypeOK
<1>1. IInv => TypeOK
  BY DEF IInv
<1>2. QED
  BY <1>1, InvariantHolds, PTL

(***************************************************************************)
(* Whatever mix of queries, maps, commit turns and failures a run is, the  *)
(* tree is no deeper than max_depth, takes no more turns than its nodes    *)
(* allow together, and the parts a map was let in with find their slots    *)
(* but for the nodes its children made (Budget.child, rlm_map).            *)
(***************************************************************************)
THEOREM BoundsCorrect == Spec => []TreeKeepsItsBounds
<1>1. IInv => TreeKeepsItsBounds
  <2> SUFFICES ASSUME IInv PROVE TreeKeepsItsBounds
    OBVIOUS
  <2>1. PICK limit : limit = MaxTurns + (nodes - 1) * Ceiling
    OBVIOUS
  <2>2. turns <= limit
    <3>1. PICK n \in Nat : n = Len(stack)
      BY Figures
    <3>2. Unspent[n] \in Nat /\ turns + Unspent[n] <= limit /\ turns \in Nat
      BY <2>1, <3>1, Figures, TopKeeps
    <3>3. nodes - 1 \in Nat /\ limit \in Nat
      <4>1. nodes - 1 \in Nat
        BY Constants DEF IInv, TypeOK
      <4>2. (nodes - 1) * Ceiling \in Nat
        BY <4>1, CeilingHolds
      <4>3. QED
        BY <2>1, <4>1, <4>2, Constants
    <3>4. QED
      BY <3>2, <3>3
  <2>3. QED
    BY <2>1, <2>2 DEF IInv, TreeKeepsItsBounds, TreeIsBounded, Ceiling
<1>2. QED
  BY <1>1, InvariantHolds, PTL

(***************************************************************************)
(* Every subcall charged to the ledger is in the figures of one live node, *)
(* absorbed by one or lost with a node that raised (RecursiveCaller).      *)
(***************************************************************************)
THEOREM SpendingCorrect == Spec => []SpendingIsAccounted
<1>1. IInv => SpendingIsAccounted
  BY DEF IInv
<1>2. QED
  BY <1>1, InvariantHolds, PTL
=============================================================================
