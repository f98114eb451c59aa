--------------------------- MODULE MultiTurnProofs ---------------------------
(***************************************************************************)
(* Proofs about MultiTurn, for any number of ranks, any numbers of         *)
(* requests and any max_turns.                                             *)
(*                                                                         *)
(* The ranks never talk about trajectories: each finds its responses by    *)
(* counting.  IInv says that the ranks are in the same part of the loop,   *)
(* that what a rank has left is what has no output, and that its responses *)
(* answer that, in order; the sequences of all ranks, one after another,   *)
(* have each rank's where it counts to (FlattenSlice).                     *)
(*                                                                         *)
(* DataInv is about the data of one trajectory.  Each turn goes to the     *)
(* last entry or to a new one in the messages, the ids and the mask        *)
(* alike; log-probabilities are those of the unmasked tokens or, once a    *)
(* response has been cut, more, so that their number tells.                *)
(***************************************************************************)
EXTENDS MultiTurn, CommonLemmas, TLAPS

-----------------------------------------------------------------------------
(* Concatenations.                                                         *)

\* A flattened concatenation is the concatenation of the flattened sequences.
LEMMA FlattenConcat ==
  ASSUME NEW T, NEW s \in Seq(Seq(T)), NEW t \in Seq(Seq(T))
  PROVE  FlattenSeq(s \o t) = FlattenSeq(s) \o FlattenSeq(t)
<1> DEFINE S == {k \in Nat : \A u \in Seq(Seq(T)) :
                   Len(u) = k => FlattenSeq(s \o u) = FlattenSeq(s) \o FlattenSeq(u)}
<1>t. ASSUME NEW u \in Seq(Seq(T)) PROVE FlattenSeq(u) \in Seq(T)
  <2>1. u \in [1..Len(u) -> Seq(T)] /\ Len(u) \in Nat
    OBVIOUS
  <2>2. QED
    BY <2>1, FlattenMembers
<1>1. 0 \in S
  <2>1. ASSUME NEW u \in Seq(Seq(T)), Len(u) = 0
        PROVE  FlattenSeq(s \o u) = FlattenSeq(s) \o FlattenSeq(u)
    <3>1. u = <<>>
      BY <2>1, EmptySeq
    <3>2. FlattenSeq(u) = <<>>
      BY <3>1 DEF FlattenSeq
    <3>3. s \o u = s /\ FlattenSeq(s) \o <<>> = FlattenSeq(s)
      BY <3>1, <1>t
    <3>4. QED
      BY <3>2, <3>3
  <2>2. QED
    BY <2>1
<1>2. ASSUME NEW k \in Nat, k \in S
      PROVE  k + 1 \in S
  <2>1. ASSUME NEW u \in Seq(Seq(T)), Len(u) = k + 1
        PROVE  FlattenSeq(s \o u) = FlattenSeq(s) \o FlattenSeq(u)
    <3> DEFINE f == SubSeq(u, 1, k)
               l == u[k + 1]
    <3>1. f \in Seq(Seq(T)) /\ Len(f) = k /\ l \in Seq(T) /\ u = Append(f, l)
      BY <2>1
    <3>2. FlattenSeq(s \o f) = FlattenSeq(s) \o FlattenSeq(f)
      BY <1>2, <3>1
    <3> HIDE DEF f, l
    <3>3. s \o u = Append(s \o f, l) /\ s \o f \in Seq(Seq(T))
      BY <3>1
    <3>4. FlattenSeq(s \o u) = FlattenSeq(s \o f) \o l
      BY <3>1, <3>3, FlattenAppend
    <3>5. FlattenSeq(u) = FlattenSeq(f) \o l
      BY <3>1, FlattenAppend
    <3>6. FlattenSeq(s) \in Seq(T) /\ FlattenSeq(f) \in Seq(T)
      BY <1>t, <3>1
    <3>7. (FlattenSeq(s) \o FlattenSeq(f)) \o l = FlattenSeq(s) \o (FlattenSeq(f) \o l)
      BY <3>1, <3>6
    <3>8. QED
      BY <3>2, <3>4, <3>5, <3>7
  <2>2. QED
    BY <2>1
<1>3. Nat \subseteq S
  <2> HIDE DEF S
  <2>1. QED
    BY <1>1, <1>2, InductionOnNat
<1>4. Len(t) \in S
  BY <1>3
<1>5. QED
  BY <1>4

\* t has the elements of x after its first `start`.
FoundAt(x, t, start) ==
  start \in Nat /\ start + Len(x) <= Len(t) /\ \A j \in 1..Len(x) : t[start + j] = x[j]

\* The r-th sequence follows those before it.
LEMMA FlattenSlice ==
  ASSUME NEW T, NEW n \in Nat, NEW s \in [1..n -> Seq(T)], NEW r \in 1..n,
         NEW start, start = Len(FlattenSeq(SubSeq(s, 1, r - 1)))
  PROVE  FlattenSeq(s) \in Seq(T) /\ FoundAt(s[r], FlattenSeq(s), start)
<1> DEFINE a == SubSeq(s, 1, r - 1)
           b == SubSeq(s, r, n)
           fa == FlattenSeq(a)
           ft == FlattenSeq(Tail(b))
<1>0. s \in Seq(Seq(T)) /\ Len(s) = n
  OBVIOUS
<1>1. /\ a \in Seq(Seq(T)) /\ b \in Seq(Seq(T)) /\ b # <<>>
      /\ s = a \o b /\ Head(b) = s[r] /\ Tail(b) \in Seq(Seq(T))
  <2>1. Len(a) = r - 1 /\ Len(b) = n - r + 1 /\ a \in Seq(Seq(T)) /\ b \in Seq(Seq(T))
    BY <1>0
  <2>2. b # <<>> /\ Head(b) = s[r] /\ Tail(b) \in Seq(Seq(T))
    <3>1. b[1] = s[r]
      BY <1>0, <2>1
    <3> HIDE DEF b
    <3>2. b # <<>>
      BY <2>1
    <3>3. QED
      BY <2>1, <3>1, <3>2, HeadTailProperties
  <2>3. s = a \o b
    <3>1. SubSeq(s, 1, n) = SubSeq(s, 1, r - 1) \o SubSeq(s, (r - 1) + 1, n)
      BY <1>0, ConcatAdjacentSubSeq
    <3>2. SubSeq(s, 1, n) = s
      BY <1>0
    <3>3. (r - 1) + 1 = r
      OBVIOUS
    <3>4. QED
      BY <3>1, <3>2, <3>3
  <2>4. QED
    BY <2>1, <2>2, <2>3
<1>t. ASSUME NEW u \in Seq(Seq(T)) PROVE FlattenSeq(u) \in Seq(T)
  <2>1. u \in [1..Len(u) -> Seq(T)] /\ Len(u) \in Nat
    OBVIOUS
  <2>2. QED
    BY <2>1, FlattenMembers
<1>2. fa \in Seq(T) /\ ft \in Seq(T) /\ s[r] \in Seq(T)
  BY <1>1, <1>t
<1>3. FlattenSeq(s) = fa \o (s[r] \o ft)
  <2> HIDE DEF a, b
  <2>1. FlattenSeq(s) = FlattenSeq(a) \o FlattenSeq(b)
    BY <1>1, FlattenConcat
  <2>2. FlattenSeq(b) = Head(b) \o FlattenSeq(Tail(b))
    BY <1>1, FlattenFirst
  <2>3. QED
    BY <1>1, <2>1, <2>2
<1>s. start = Len(fa)
  OBVIOUS
<1>4. /\ start \in Nat
      /\ start + Len(s[r]) <= Len(fa \o (s[r] \o ft))
      /\ \A j \in 1..Len(s[r]) : (fa \o (s[r] \o ft))[start + j] = s[r][j]
  <2> HIDE DEF fa, ft
  <2> DEFINE x == s[r]
  <2>1. x \in Seq(T)
    BY <1>2
  <2> HIDE DEF x
  <2>2. /\ start \in Nat
        /\ start + Len(x) <= Len(fa \o (x \o ft))
        /\ \A j \in 1..Len(x) : (fa \o (x \o ft))[start + j] = x[j]
    BY <1>2, <1>s, <2>1
  <2>3. QED
    BY <2>2 DEF x
<1>5. QED
  BY <1>0, <1>3, <1>4, <1>t DEF FoundAt

-----------------------------------------------------------------------------
(* Selecting.                                                              *)

\* The elements of s that are in K.
In(s, K) == Selected(s, LAMBDA x : x \in K)

\* Nothing is selected from nothing.
LEMMA InEmpty ==
  ASSUME NEW K
  PROVE  In(<<>>, K) = <<>>
<1>1. [n \in DOMAIN <<>> |-> IF <<>>[n] \in K THEN <<(<<>>)[n]>> ELSE <<>>] = <<>>
  OBVIOUS
<1>2. QED
  BY <1>1 DEF In, Selected, FlattenSeq

\* A last element is selected if it is in K.
LEMMA InAppend ==
  ASSUME NEW T, NEW s \in Seq(T), NEW x \in T, NEW K
  PROVE  In(Append(s, x), K) = In(s, K) \o (IF x \in K THEN <<x>> ELSE <<>>)
<1> DEFINE part(u) == [n \in DOMAIN u |-> IF u[n] \in K THEN <<u[n]>> ELSE <<>>]
           last == IF x \in K THEN <<x>> ELSE <<>>
<1>1. part(s) \in Seq(Seq(T)) /\ last \in Seq(T)
  <2>1. ASSUME NEW n \in 1..Len(s) PROVE part(s)[n] \in Seq(T)
    <3>1. s[n] \in T /\ <<s[n]>> \in Seq(T) /\ <<>> \in Seq(T)
      OBVIOUS
    <3>2. QED
      BY <3>1
  <2>2. part(s) \in [1..Len(s) -> Seq(T)]
    BY <2>1
  <2>3. QED
    BY <2>2
<1>2. part(Append(s, x)) = Append(part(s), last)
  <2>1. /\ Len(Append(s, x)) = Len(s) + 1 /\ Append(s, x) \in Seq(T)
        /\ \A n \in 1..Len(s) : Append(s, x)[n] = s[n]
        /\ Append(s, x)[Len(s) + 1] = x
    OBVIOUS
  <2>2. part(Append(s, x)) \in Seq(Seq(T)) /\ Len(part(Append(s, x))) = Len(s) + 1 /\ Len(part(s)) = Len(s)
    BY <2>1
  <2>3. ASSUME NEW n \in 1..(Len(s) + 1)
        PROVE  part(Append(s, x))[n] = Append(part(s), last)[n]
    BY <2>1, <1>1
  <2> HIDE DEF part, last
  <2>4. Append(part(s), last) \in Seq(Seq(T)) /\ Len(Append(part(s), last)) = Len(s) + 1
    BY <1>1, <2>2
  <2>5. QED
    BY <2>2, <2>3, <2>4, SeqEqual
<1>3. FlattenSeq(Append(part(s), last)) = FlattenSeq(part(s)) \o last
  <2> HIDE DEF part, last
  <2>1. QED
    BY <1>1, FlattenAppend
<1>4. In(s, K) = FlattenSeq(part(s)) /\ In(Append(s, x), K) = FlattenSeq(part(Append(s, x)))
  BY DEF In, Selected
<1>5. QED
  BY <1>2, <1>3, <1>4

\* A concatenation has the elements of both.
LEMMA ToSetConcat ==
  ASSUME NEW T, NEW s \in Seq(T), NEW t \in Seq(T)
  PROVE  /\ ToSet(s \o t) = ToSet(s) \cup ToSet(t)
         /\ \A x \in T : ToSet(Append(s, x)) = ToSet(s) \cup {x}
<1>1. /\ DOMAIN (s \o t) = 1..(Len(s) + Len(t))
      /\ \A i \in 1..Len(s) : (s \o t)[i] = s[i]
      /\ \A i \in 1..Len(t) : (s \o t)[Len(s) + i] = t[i] /\ Len(s) + i \in 1..(Len(s) + Len(t))
      /\ \A i \in 1..(Len(s) + Len(t)) : i \notin 1..Len(s) =>
           i - Len(s) \in 1..Len(t) /\ (s \o t)[i] = t[i - Len(s)]
  OBVIOUS
<1>2. /\ ToSet(s) = {s[i] : i \in 1..Len(s)} /\ ToSet(t) = {t[i] : i \in 1..Len(t)}
      /\ ToSet(s \o t) = {(s \o t)[i] : i \in 1..(Len(s) + Len(t))}
  BY <1>1 DEF ToSet
<1>3. ToSet(s \o t) = ToSet(s) \cup ToSet(t)
  <2>1. ToSet(s \o t) \subseteq ToSet(s) \cup ToSet(t)
    BY <1>1, <1>2
  <2>2. ToSet(s) \subseteq ToSet(s \o t)
    BY <1>1, <1>2
  <2>3. ToSet(t) \subseteq ToSet(s \o t)
    BY <1>1, <1>2
  <2>4. QED
    BY <2>1, <2>2, <2>3
<1>4. ASSUME NEW x \in T PROVE ToSet(Append(s, x)) = ToSet(s) \cup {x}
  <2> DEFINE a == Append(s, x)
  <2>1. /\ DOMAIN a = 1..(Len(s) + 1) /\ a[Len(s) + 1] = x /\ DOMAIN s = 1..Len(s)
        /\ \A i \in 1..Len(s) : a[i] = s[i]
    OBVIOUS
  <2> HIDE DEF a
  <2>2. ToSet(a) = ToSet(s) \cup {x}
    <3>1. ToSet(a) \subseteq ToSet(s) \cup {x}
      <4>1. \A i \in 1..(Len(s) + 1) : i \in 1..Len(s) \/ i = Len(s) + 1
        OBVIOUS
      <4>2. QED
        BY <2>1, <4>1 DEF ToSet
    <3>2. ToSet(s) \subseteq ToSet(a) /\ x \in ToSet(a)
      <4>1. 1..Len(s) \subseteq 1..(Len(s) + 1) /\ Len(s) + 1 \in 1..(Len(s) + 1)
        OBVIOUS
      <4>2. QED
        BY <2>1, <4>1 DEF ToSet
    <3>3. QED
      BY <3>1, <3>2
  <2>3. QED
    BY <2>2 DEF a
<1>5. QED
  BY <1>3, <1>4

\* What is selected: the elements in K, of the same type.
LEMMA InMembers ==
  ASSUME NEW T, NEW K, NEW s \in Seq(T)
  PROVE  /\ In(s, K) \in Seq(T)
         /\ ToSet(In(s, K)) = ToSet(s) \cap K
<1> DEFINE Fine(u) == In(u, K) \in Seq(T) /\ ToSet(In(u, K)) = ToSet(u) \cap K
           S == {k \in Nat : \A u \in Seq(T) : Len(u) = k => Fine(u)}
<1>1. 0 \in S
  <2>1. ASSUME NEW u \in Seq(T), Len(u) = 0
        PROVE  Fine(u)
    <3>1. u = <<>>
      BY <2>1, EmptySeq
    <3>2. In(u, K) = <<>>
      BY <3>1, InEmpty
    <3>3. ToSet(<<>>) = {}
      BY DEF ToSet
    <3>4. QED
      BY <3>1, <3>2, <3>3
  <2>2. QED
    BY <2>1
<1>2. ASSUME NEW k \in Nat, k \in S
      PROVE  k + 1 \in S
  <2>1. ASSUME NEW u \in Seq(T), Len(u) = k + 1
        PROVE  Fine(u)
    <3> DEFINE f == SubSeq(u, 1, k)
               l == u[k + 1]
               p == In(f, K)
               q == IF l \in K THEN <<l>> ELSE <<>>
    <3>1. f \in Seq(T) /\ Len(f) = k /\ l \in T /\ u = Append(f, l)
      BY <2>1
    <3>2. Fine(f)
      BY <1>2, <3>1
    <3>3. p \in Seq(T) /\ ToSet(p) = ToSet(f) \cap K
      BY <3>2
    <3> HIDE DEF f, l, p
    <3>4. In(u, K) = p \o q
      BY <3>1, InAppend DEF p
    <3>5. q \in Seq(T) /\ ToSet(q) = {l} \cap K
      BY <3>1 DEF ToSet
    <3>6. ToSet(u) = ToSet(f) \cup {l}
      BY <3>1, ToSetConcat
    <3>7. ToSet(p \o q) = ToSet(p) \cup ToSet(q) /\ p \o q \in Seq(T)
      <4> HIDE DEF q
      <4>1. QED
        BY <3>3, <3>5, ToSetConcat
    <3>8. QED
      BY <3>3, <3>4, <3>5, <3>6, <3>7
  <2>2. QED
    BY <2>1
<1>3. Nat \subseteq S
  <2> HIDE DEF S
  <2>1. QED
    BY <1>1, <1>2, InductionOnNat
<1>4. Len(s) \in S
  BY <1>3
<1>5. QED
  BY <1>4

-----------------------------------------------------------------------------
(* Joining a turn's data to what there is.                                 *)

\* The data follows what was there, and nothing else changes.
LEMMA JoinType ==
  ASSUME NEW T, NEW e \in Seq(Seq(T)), NEW c \in BOOLEAN, NEW d \in Seq(T)
  PROVE  /\ Join(e, c, d) \in Seq(Seq(T))
         /\ Join(e, c, d) # <<>>
         /\ Flat(Join(e, c, d)) = Flat(e) \o d
         /\ Flat(e) \in Seq(T)
<1>t. Flat(e) \in Seq(T)
  <2>1. e \in [1..Len(e) -> Seq(T)] /\ Len(e) \in Nat
    OBVIOUS
  <2>2. QED
    BY <2>1, FlattenMembers DEF Flat
<1>1. CASE c /\ e # <<>>
  <2> DEFINE n == Len(e)
             f == SubSeq(e, 1, n - 1)
             l == e[n]
             j == [e EXCEPT ![n] = @ \o d]
  <2>1. n \in Nat \ {0} /\ f \in Seq(Seq(T)) /\ l \in Seq(T) /\ e = Append(f, l)
    BY <1>1
  <2>2. l \o d \in Seq(T)
    BY <2>1
  <2>3. j = Append(f, l \o d)
    <3>1. j \in Seq(Seq(T)) /\ Len(j) = n /\ j[n] = l \o d /\ \A m \in 1..(n - 1) : j[m] = e[m]
      BY <1>1, <2>2
    <3>f. Len(f) = n - 1 /\ \A m \in 1..(n - 1) : f[m] = e[m]
      BY <2>1
    <3>2. /\ Append(f, l \o d) \in Seq(Seq(T)) /\ Len(Append(f, l \o d)) = n
          /\ Append(f, l \o d)[n] = l \o d /\ \A m \in 1..(n - 1) : Append(f, l \o d)[m] = e[m]
      <4> HIDE DEF f, l
      <4>1. QED
        BY <2>1, <2>2, <3>f
    <3> HIDE DEF j, f, l
    <3>3. QED
      BY <2>1, <3>1, <3>2, SeqEqual
  <2>4. Join(e, c, d) = j
    BY <1>1 DEF Join
  <2> HIDE DEF j, f, l, n
  <2>5. FlattenSeq(e) = FlattenSeq(f) \o l /\ FlattenSeq(j) = FlattenSeq(f) \o (l \o d)
    BY <2>1, <2>2, <2>3, FlattenAppend
  <2>6. FlattenSeq(f) \in Seq(T)
    <3>1. f \in [1..Len(f) -> Seq(T)] /\ Len(f) \in Nat
      BY <2>1
    <3>2. QED
      BY <3>1, FlattenMembers
  <2>7. FlattenSeq(f) \o (l \o d) = (FlattenSeq(f) \o l) \o d
    BY <2>1, <2>6
  <2>8. j \in Seq(Seq(T)) /\ j # <<>>
    <3>1. Append(f, l \o d) \in Seq(Seq(T)) /\ Len(Append(f, l \o d)) # 0
      BY <2>1, <2>2
    <3>2. QED
      BY <2>3, <3>1
  <2>9. QED
    BY <1>t, <2>4, <2>5, <2>7, <2>8 DEF Flat
<1>2. CASE ~(c /\ e # <<>>)
  <2>1. Join(e, c, d) = Append(e, d)
    BY <1>2 DEF Join
  <2>2. QED
    BY <1>t, <2>1, FlattenAppend DEF Flat
<1>3. QED
  BY <1>1, <1>2

TokensOf(t) == {token \in Tokens : token.of = t}
\* A response to trajectory t: two tokens, generated.
Answers(t) == {text \in Seq(TokensOf(t)) : Len(text) = 2 /\ \A n \in 1..2 : text[n].n # 0}
Mine(r) == {r} \X (1..Batch[r])
Masks == Seq(Seq({0, 1}))

\* The trajectories of S become what `after` says of them, the others stay.
Changes(S, after) ==
  /\ said' = [t \in Trajectories |-> IF t \in S THEN after[t].said ELSE said[t]]
  /\ open' = [t \in Trajectories |-> IF t \in S THEN after[t].open ELSE open[t]]
  /\ current_turn' = [t \in Trajectories |-> IF t \in S THEN after[t].turn ELSE current_turn[t]]
  /\ response_token_ids' =
       [t \in Trajectories |-> IF t \in S THEN after[t].ids ELSE response_token_ids[t]]
  /\ response_loss_mask' =
       [t \in Trajectories |-> IF t \in S THEN after[t].mask ELSE response_loss_mask[t]]
  /\ rollout_logprobs' =
       [t \in Trajectories |-> IF t \in S THEN after[t].logps ELSE rollout_logprobs[t]]
  /\ rollout_output' =
       [t \in Trajectories |-> IF t \in S THEN after[t].output ELSE rollout_output[t]]

\* Becomes, as one function for each variable.
LEMMA BecomesChanges ==
  ASSUME NEW after, Becomes(after)
  PROVE  Changes(DOMAIN after, after)
BY DEF Becomes, Changes

\* A response to a trajectory has two tokens of its turn, both generated.
LEMMA ResponseFine ==
  ASSUME TypeOK, NEW t \in Trajectories
  PROVE  Response(t) \in Answers(t) /\ Response(t)[1].turn = current_turn[t]
<1>1. current_turn[t] \in 1..MaxTurns
  BY DEF TypeOK
<1>2. /\ Token(t, current_turn[t], 1) \in TokensOf(t) /\ Token(t, current_turn[t], 1).n # 0
      /\ Token(t, current_turn[t], 2) \in TokensOf(t) /\ Token(t, current_turn[t], 2).n # 0
  BY <1>1 DEF Token, TokensOf, Tokens
<1>3. QED
  <2> DEFINE a == Token(t, current_turn[t], 1)
             b == Token(t, current_turn[t], 2)
  <2>1. Response(t) = <<a, b>>
    BY DEF Response
  <2> HIDE DEF a, b
  <2>2. Response(t) \in Answers(t)
    BY <1>2, <2>1 DEF Answers, a, b
  <2>3. Response(t)[1].turn = current_turn[t]
    BY DEF Response, Token
  <2>4. QED
    BY <2>2, <2>3

\* A result: what a trajectory becomes.
Results(t) ==
  [said : Seq(Seq(TokensOf(t))), open : BOOLEAN, turn : 1..MaxTurns, ids : Texts, mask : Masks,
   logps : Texts, output : Outputs \cup {Nothing}]

\* Log-probabilities are named by tokens.
LEMMA LogprobsType ==
  ASSUME TypeOK, NEW r \in Seq(Tokens)
  PROVE  LogprobsOf(r) \in Seq(Tokens)
BY DEF LogprobsOf

\* A mask of ones, as long as its tokens.
LEMMA OnesType ==
  ASSUME NEW T, NEW s \in Seq(T)
  PROVE  Ones(s) \in Seq({0, 1}) /\ Len(Ones(s)) = Len(s)
<1>1. Ones(s) \in [1..Len(s) -> {0, 1}] /\ Len(s) \in Nat
  BY DEF Ones
<1>2. QED
  BY <1>1

\* What is in the entry of a trajectory fits the types.
LEMMA CollectedType ==
  ASSUME TypeOK, NEW t \in Trajectories, NEW r \in Seq(Tokens)
  PROVE  Collected(t, r) \in Outputs
<1> DEFINE ids == response_token_ids[t]
           mask == response_loss_mask[t]
           logps == rollout_logprobs[t]
           new == LogprobsOf(r)
<1>1. ids \in Texts /\ mask \in Masks /\ logps \in Texts /\ open[t] \in BOOLEAN
  BY DEF TypeOK, Masks
<1>2. new \in Seq(Tokens) /\ Ones(r) \in Seq({0, 1})
  BY LogprobsType, OnesType
<1>3. /\ Join(ids, TRUE, r) \in Texts /\ Join(mask, TRUE, Ones(r)) \in Masks
      /\ Join(logps, TRUE, new) \in Texts
  <2> HIDE DEF ids, mask, logps, new
  <2>1. QED
    BY <1>1, <1>2, JoinType DEF Texts, Masks
<1>4. /\ <<r>> \in Texts /\ <<Ones(r)>> \in Masks /\ <<new>> \in Texts
      /\ Append(ids, r) \in Texts /\ Append(mask, Ones(r)) \in Masks /\ Append(logps, new) \in Texts
  <2> HIDE DEF ids, mask, logps, new
  <2>1. QED
    BY <1>1, <1>2 DEF Texts, Masks
<1>5. QED
  <2>1. CASE ids = <<>>
    BY <1>1, <1>2, <1>3, <1>4, <2>1 DEF Collected, Outputs, Masks
  <2>2. CASE ids # <<>> /\ open[t]
    BY <1>1, <1>2, <1>3, <1>4, <2>2 DEF Collected, Outputs, Masks
  <2>3. CASE ids # <<>> /\ ~open[t] /\ HasOwnTurn
    BY <1>1, <1>2, <1>3, <1>4, <2>3 DEF Collected, Outputs, Masks
  <2>4. CASE ids # <<>> /\ ~open[t] /\ ~HasOwnTurn
    BY <1>1, <1>2, <1>3, <1>4, <2>4 DEF Collected, Outputs, Masks
  <2>5. QED
    BY <2>1, <2>2, <2>3, <2>4

\* Dropping the log-probabilities leaves an output.
LEMMA CompleteType ==
  ASSUME NEW data \in Outputs
  PROVE  Complete(data) \in Outputs
<1>1. <<>> \in Texts
  BY DEF Texts
<1>2. [data EXCEPT !.logps = <<>>] \in Outputs
  BY <1>1 DEF Outputs
<1>3. QED
  BY <1>2 DEF Complete

\* The last turn.
LEMMA FinishType ==
  ASSUME TypeOK, NEW t \in Trajectories, said[t] \in Seq(Seq(TokensOf(t))), NEW r \in Answers(t)
  PROVE  /\ Finish(t, r) \in Results(t)
         /\ Finish(t, r).output # Nothing
<1>1. r \in Seq(TokensOf(t)) /\ r \in Seq(Tokens)
  BY DEF Answers, TokensOf
<1>2. Collected(t, r) \in Outputs /\ Complete(Collected(t, r)) \in Outputs
  BY <1>1, CollectedType, CompleteType
<1>3. Join(said[t], open[t], r) \in Seq(Seq(TokensOf(t)))
  BY <1>1, JoinType DEF TypeOK
<1>4. current_turn[t] \in 1..MaxTurns
  BY DEF TypeOK
<1>5. Nothing \notin Outputs
  BY MultiTurnAssumption
<1>6. /\ Collected(t, r).ids \in Texts /\ Collected(t, r).mask \in Masks
      /\ Collected(t, r).logps \in Texts
  BY <1>2 DEF Outputs, Masks
<1>7. QED
  BY <1>2, <1>3, <1>4, <1>5, <1>6 DEF Finish, Results

\* What step keeps of a response, and what it adds.
Kept(r, edit) == IF edit \in Cuts THEN Front(r) ELSE r
Addition(t, edit) == IF edit \in Additions THEN <<Added(t)>> ELSE <<>>

\* What step makes of a response.
LEMMA EditedType ==
  ASSUME TypeOK, NEW t \in Trajectories, NEW r \in Answers(t), NEW edit \in Edits
  PROVE  /\ Edited(t, r, edit).text \in Seq(TokensOf(t))
         /\ Edited(t, r, edit).mask \in Seq({0, 1})
         /\ Edited(t, r, edit).logps \in Seq(Tokens)
<1> DEFINE kept == Kept(r, edit)
           added == Addition(t, edit)
           own == IF setup.logps THEN LogprobsOf(kept) ELSE <<>>
           zeros == [n \in DOMAIN added |-> 0]
<1>1. r \in Seq(TokensOf(t)) /\ Len(r) = 2 /\ Front(r) \in Seq(TokensOf(t))
  BY DEF Answers, Front
<1>2. Added(t) \in TokensOf(t)
  BY DEF Added, Token, TokensOf, Tokens, TypeOK
<1>3. kept \in Seq(TokensOf(t)) /\ added \in Seq(TokensOf(t))
  BY <1>1, <1>2 DEF Kept, Addition
<1>4. r \in Seq(Tokens) /\ kept \in Seq(Tokens)
  BY <1>1, <1>3 DEF TokensOf
<1>5. Edited(t, r, edit) = [text |-> kept \o added, mask |-> Ones(kept) \o zeros,
                            logps |-> IF own # <<>> THEN own ELSE LogprobsOf(r)]
  BY DEF Edited, Kept, Addition
<1> HIDE DEF kept, added
<1>6. Ones(kept) \in Seq({0, 1})
  BY <1>3, OnesType
<1>7. zeros \in Seq({0, 1})
  <2>1. zeros \in [1..Len(added) -> {0, 1}] /\ Len(added) \in Nat
    BY <1>3
  <2> HIDE DEF zeros
  <2>2. QED
    BY <2>1
<1>8. LogprobsOf(kept) \in Seq(Tokens) /\ LogprobsOf(r) \in Seq(Tokens)
  BY <1>4, LogprobsType
<1>9. kept \o added \in Seq(TokensOf(t)) /\ Ones(kept) \o zeros \in Seq({0, 1})
  <2> HIDE DEF zeros
  <2>1. QED
    BY <1>3, <1>6, <1>7
<1> HIDE DEF zeros
<1>10. QED
  BY <1>5, <1>8, <1>9

\* A turn that goes on.
LEMMA StepType ==
  ASSUME TypeOK, NEW t \in Trajectories, said[t] \in Seq(Seq(TokensOf(t))), current_turn[t] < MaxTurns,
         NEW e, NEW c \in BOOLEAN,
         e.text \in Seq(TokensOf(t)), e.mask \in Seq({0, 1}), e.logps \in Seq(Tokens)
  PROVE  /\ Step(t, e, c) \in Results(t)
         /\ Step(t, e, c).output = Nothing
         /\ Step(t, e, c).turn = current_turn[t] + 1
<1>1. e.text \in Seq(Tokens)
  BY DEF TokensOf
<1>2. /\ response_token_ids[t] \in Texts /\ response_loss_mask[t] \in Masks
      /\ rollout_logprobs[t] \in Texts /\ open[t] \in BOOLEAN /\ current_turn[t] \in 1..MaxTurns
  BY DEF TypeOK, Masks
<1>3. /\ Join(response_token_ids[t], open[t], e.text) \in Texts
      /\ Join(response_loss_mask[t], open[t], e.mask) \in Masks
      /\ Join(rollout_logprobs[t], open[t], e.logps) \in Texts
  BY <1>1, <1>2, JoinType DEF Texts, Masks
<1>4. Join(said[t], open[t], e.text) \in Seq(Seq(TokensOf(t)))
  BY <1>2, JoinType
<1>5. current_turn[t] + 1 \in 1..MaxTurns
  BY <1>2, MultiTurnAssumption
<1>6. QED
  BY <1>2, <1>3, <1>4, <1>5 DEF Step, Results

\* A move that goes on is an edit the scheduler makes, before the last turn.
LEMMA MoveType ==
  ASSUME TypeOK, NEW t \in Trajectories, NEW move \in Moves(t), move[1] # "stop"
  PROVE  /\ ~(current_turn[t] >= MaxTurns)
         /\ move[1] \in setup.edits /\ move[1] \in Edits /\ move[2] \in {FALSE, setup.continues}
<1>1. move # <<"stop", FALSE>>
  <2> DEFINE no == FALSE
  <2> HIDE DEF no
  <2>1. <<"stop", no>>[1] = "stop"
    OBVIOUS
  <2>2. QED
    BY <2>1, Zenon DEF no
<1>2. move \in setup.edits \X {FALSE, setup.continues} /\ ~(current_turn[t] >= MaxTurns)
  <2>1. CASE current_turn[t] >= MaxTurns
    BY <1>1, <2>1 DEF Moves
  <2>2. CASE ~(current_turn[t] >= MaxTurns)
    BY <1>1, <2>2 DEF Moves
  <2>3. QED
    BY <2>1, <2>2
<1>3. setup.edits \subseteq Edits
  BY MultiTurnAssumption DEF TypeOK
<1>4. QED
  BY <1>2, <1>3

\* What a turn makes of a trajectory: an output if it is the last one.
LEMMA AfterType ==
  ASSUME TypeOK, NEW t \in Trajectories, said[t] \in Seq(Seq(TokensOf(t))), NEW r \in Answers(t),
         NEW move \in Moves(t)
  PROVE  /\ After(t, r, move) \in Results(t)
         /\ After(t, r, move).output = Nothing <=> move[1] # "stop"
         /\ move[1] # "stop" => After(t, r, move).turn = current_turn[t] + 1
<1>1. CASE move[1] = "stop"
  BY <1>1, FinishType DEF After
<1>2. CASE move[1] # "stop"
  <2>1. ~(current_turn[t] >= MaxTurns)
    BY <1>2, MoveType
  <2>2. setup.continues \in BOOLEAN
    BY MultiTurnAssumption DEF TypeOK
  <2>3. move[1] \in Edits /\ move[2] \in BOOLEAN
    BY <1>2, <2>2, MoveType
  <2>4. current_turn[t] < MaxTurns
    BY <2>1, MultiTurnAssumption DEF TypeOK
  <2> DEFINE e == Edited(t, r, move[1])
  <2>5. e.text \in Seq(TokensOf(t)) /\ e.mask \in Seq({0, 1}) /\ e.logps \in Seq(Tokens)
    BY <2>3, EditedType
  <2> HIDE DEF e
  <2>6. /\ Step(t, e, move[2]) \in Results(t) /\ Step(t, e, move[2]).output = Nothing
        /\ Step(t, e, move[2]).turn = current_turn[t] + 1
    BY <2>3, <2>4, <2>5, StepType
  <2>7. QED
    BY <1>2, <2>6 DEF After, e
<1>3. QED
  BY <1>1, <1>2

-----------------------------------------------------------------------------
(* The invariant.                                                          *)

\* A rank has its own trajectories left.
OwnIndices == \A r \in Ranks : ToSet(index_to_infer[r]) \subseteq Mine(r)
\* An output is a response to the trajectory it names.
OwnOutputs == \A r \in Ranks : \A n \in DOMAIN outputs[r] : outputs[r][n].text \in Answers(outputs[r][n].of)
OwnSaid == \A t \in Trajectories : said[t] \in Seq(Seq(TokensOf(t)))
\* The ranks are in the same part of the loop; they leave it with nothing left.
Together ==
  /\ \/ \A r \in Ranks : rank[r] = "gather"
     \/ \A r \in Ranks : rank[r] \in {"turn", "rollout"}
     \/ \A r \in Ranks : rank[r] = "done" /\ index_to_infer[r] = <<>>
  /\ setup.driver = "server" => \A r \in Ranks : rank[r] = "gather"
\* The outputs a rank goes on with answer what it has left.
Answered ==
  \A r \in Ranks : rank[r] \in {"gather", "turn"} =>
    [n \in DOMAIN outputs[r] |-> outputs[r][n].of] = index_to_infer[r]
\* They are of the turn it is in.
OfThisTurn(t, text) == text[1].turn = current_turn[t]
Current ==
  setup.driver = "colocate" => \A r \in Ranks : rank[r] \in {"gather", "turn"} =>
    \A n \in DOMAIN outputs[r] : OfThisTurn(outputs[r][n].of, outputs[r][n].text)
\* What a rank has left is in one turn, and is what has no output.
SameTurn ==
  setup.driver = "colocate" => \A r \in Ranks : \A t, u \in ToSet(index_to_infer[r]) :
    current_turn[t] = current_turn[u]
Unfinished ==
  setup.driver = "colocate" => \A r \in Ranks : \A t \in Mine(r) :
    rollout_output[t] = Nothing <=> t \in ToSet(index_to_infer[r])

IInv == TypeOK /\ OwnIndices /\ OwnOutputs /\ OwnSaid /\ Together /\ Answered
        /\ Current /\ SameTurn /\ Unfinished

\* Each trajectory is of one rank.
LEMMA MineFacts ==
  /\ Trajectories = UNION {Mine(r) : r \in Ranks}
  /\ \A r \in Ranks : Mine(r) \subseteq Trajectories
  /\ \A r, s \in Ranks : r # s => Mine(r) \cap Mine(s) = {}
BY DEF Trajectories, Mine

\* A driver and a scheduler.
LEMMA SetupFacts ==
  ASSUME TypeOK
  PROVE  /\ setup.driver \in {"colocate", "server"} /\ setup.continues \in BOOLEAN
         /\ setup.ids \in BOOLEAN /\ setup.mask \in BOOLEAN /\ setup.logps \in BOOLEAN
         /\ (setup.mask => setup.ids)
         /\ setup.edits \subseteq Edits
BY MultiTurnAssumption DEF TypeOK

\* Results make for well-typed trajectories.
LEMMA ChangesTypes ==
  ASSUME TypeOK, OwnSaid, NEW S \in SUBSET Trajectories, NEW after, Changes(S, after),
         \A t \in S : after[t] \in Results(t)
  PROVE  /\ current_turn' \in [Trajectories -> 1..MaxTurns]
         /\ open' \in [Trajectories -> BOOLEAN]
         /\ {said, response_token_ids, rollout_logprobs}' \subseteq [Trajectories -> Texts]
         /\ response_loss_mask' \in [Trajectories -> Seq(Seq({0, 1}))]
         /\ rollout_output' \in [Trajectories -> Outputs \cup {Nothing}]
         /\ OwnSaid'
<1>1. \A t \in S : /\ after[t].said \in Seq(Seq(TokensOf(t))) /\ after[t].open \in BOOLEAN
                   /\ after[t].turn \in 1..MaxTurns /\ after[t].ids \in Texts /\ after[t].mask \in Masks
                   /\ after[t].logps \in Texts /\ after[t].output \in Outputs \cup {Nothing}
  BY DEF Results
<1>2. \A t \in Trajectories : Seq(Seq(TokensOf(t))) \subseteq Texts
  BY DEF TokensOf, Texts
<1>3. current_turn' \in [Trajectories -> 1..MaxTurns] /\ open' \in [Trajectories -> BOOLEAN]
  BY <1>1 DEF Changes, TypeOK
<1>4. said' \in [Trajectories -> Texts] /\ OwnSaid'
  <2>1. \A t \in Trajectories : said'[t] \in Seq(Seq(TokensOf(t)))
    BY <1>1 DEF Changes, OwnSaid
  <2>2. \A t \in Trajectories : said'[t] \in Texts
    BY <1>2, <2>1
  <2>3. \E f : said' = [t \in Trajectories |-> f[t]]
    BY DEF Changes
  <2>4. OwnSaid'
    BY <2>1 DEF OwnSaid, TokensOf
  <2>5. QED
    BY <2>2, <2>3, <2>4
<1>5. response_token_ids' \in [Trajectories -> Texts] /\ rollout_logprobs' \in [Trajectories -> Texts]
  BY <1>1 DEF Changes, TypeOK
<1>6. response_loss_mask' \in [Trajectories -> Seq(Seq({0, 1}))]
  BY <1>1 DEF Changes, TypeOK, Masks
<1>7. rollout_output' \in [Trajectories -> Outputs \cup {Nothing}]
  BY <1>1 DEF Changes, TypeOK
<1>8. QED
  BY <1>3, <1>4, <1>5, <1>6, <1>7

-----------------------------------------------------------------------------
\* It holds initially: every rank has a response for each of its requests.
LEMMA InitInvariant == Init => IInv
<1> SUFFICES ASSUME Init PROVE IInv
  OBVIOUS
<1>1. \A r \in Ranks : Batch[r] \in Nat /\ Ranks = 1..NumRanks
  BY MultiTurnAssumption DEF Ranks
<1>2. \A r \in Ranks : \A n \in 1..Batch[r] : <<r, n>> \in Mine(r) /\ <<r, n>> \in Trajectories
  BY DEF Mine, Trajectories
<1>3. MaxTurns \in Nat /\ 1 \in 1..MaxTurns
  BY MultiTurnAssumption
<1>4. current_turn \in [Trajectories -> 1..MaxTurns]
  BY <1>3 DEF Init
<1>5. \A t \in Trajectories : Response(t) \in Answers(t)
  <2> TAKE t \in Trajectories
  <2>1. /\ Token(t, current_turn[t], 1) \in TokensOf(t) /\ Token(t, current_turn[t], 1).n # 0
        /\ Token(t, current_turn[t], 2) \in TokensOf(t) /\ Token(t, current_turn[t], 2).n # 0
    BY <1>4 DEF Token, TokensOf, Tokens
  <2> DEFINE a == Token(t, current_turn[t], 1)
             b == Token(t, current_turn[t], 2)
  <2>2. Response(t) = <<a, b>>
    BY DEF Response
  <2> HIDE DEF a, b
  <2>3. QED
    BY <2>1, <2>2 DEF Answers, a, b
<1>6. index_to_infer \in [Ranks -> Seq(Trajectories)]
  <2>1. \A r \in Ranks : [n \in 1..Batch[r] |-> <<r, n>>] \in Seq(Trajectories)
    BY <1>1, <1>2
  <2>2. QED
    BY <2>1 DEF Init
<1>7. outputs \in [Ranks -> Seq([of : Trajectories, text : Seq(Tokens)])] /\ OwnOutputs
  <2>1. ASSUME NEW t \in Trajectories PROVE Response(t) \in Seq(Tokens)
    <3>1. Response(t) \in Seq(TokensOf(t))
      BY <1>5 DEF Answers
    <3>2. QED
      BY <3>1 DEF TokensOf
  <2>2. ASSUME NEW r \in Ranks
        PROVE  [n \in 1..Batch[r] |-> [of |-> <<r, n>>, text |-> Response(<<r, n>>)]] \in
                 Seq([of : Trajectories, text : Seq(Tokens)])
    <3>1. \A n \in 1..Batch[r] : Response(<<r, n>>) \in Seq(Tokens)
      BY <1>2, <2>1
    <3>2. \A n \in 1..Batch[r] : [of |-> <<r, n>>, text |-> Response(<<r, n>>)] \in
            [of : Trajectories, text : Seq(Tokens)]
      BY <1>2, <3>1
    <3> DEFINE R == [of : Trajectories, text : Seq(Tokens)]
               o(n) == [of |-> <<r, n>>, text |-> Response(<<r, n>>)]
    <3>3. \A n \in 1..Batch[r] : o(n) \in R
      BY <3>2
    <3> HIDE DEF R, o
    <3>4. [n \in 1..Batch[r] |-> o(n)] \in Seq(R)
      BY <1>1, <3>3
    <3>5. QED
      BY <3>4 DEF R, o
  <2>3. outputs \in [Ranks -> Seq([of : Trajectories, text : Seq(Tokens)])]
    BY <2>2 DEF Init
  <2>4. OwnOutputs
    BY <1>2, <1>5 DEF Init, OwnOutputs
  <2>5. QED
    BY <2>3, <2>4
<1>8. /\ \A t \in Trajectories : said[t] = <<>>
      /\ {said, response_token_ids, rollout_logprobs} \subseteq [Trajectories -> Texts]
      /\ response_loss_mask \in [Trajectories -> Seq(Seq({0, 1}))]
  <2>1. <<>> \in Texts /\ <<>> \in Seq(Seq({0, 1}))
    BY DEF Texts
  <2>2. QED
    BY <2>1 DEF Init
<1>9. TypeOK
  BY <1>4, <1>6, <1>7, <1>8 DEF Init, TypeOK
<1>10. OwnSaid
  <2>1. \A t \in Trajectories : <<>> \in Seq(Seq(TokensOf(t)))
    OBVIOUS
  <2>2. QED
    BY <1>8, <2>1 DEF OwnSaid
<1>11. \A r \in Ranks : ToSet(index_to_infer[r]) = Mine(r)
  BY DEF Init, ToSet, Mine
<1>12. OwnIndices /\ Together /\ Answered /\ Current /\ SameTurn /\ Unfinished
  <2>1. OwnIndices
    BY <1>11 DEF OwnIndices
  <2>2. Together
    BY DEF Together, Init
  <2>3. Answered
    BY DEF Answered, Init
  <2>4. SameTurn
    <3>1. \A t \in Trajectories : current_turn[t] = 1
      BY DEF Init
    <3>2. \A r \in Ranks : ToSet(index_to_infer[r]) \subseteq Trajectories
      BY <1>11, MineFacts
    <3>3. QED
      BY <3>1, <3>2 DEF SameTurn
  <2>5. Unfinished
    BY <1>11, MineFacts DEF Unfinished, Init
  <2>6. Current
    <3>1. ASSUME NEW r \in Ranks, NEW n \in DOMAIN outputs[r]
          PROVE  OfThisTurn(outputs[r][n].of, outputs[r][n].text)
      <4>1. outputs[r][n] = [of |-> <<r, n>>, text |-> Response(<<r, n>>)]
        BY DEF Init
      <4>2. Response(<<r, n>>)[1].turn = current_turn[<<r, n>>]
        BY DEF Response, Token
      <4>3. QED
        BY <4>1, <4>2 DEF OfThisTurn
    <3>2. QED
      BY <3>1 DEF Current
  <2>7. QED
    BY <2>1, <2>2, <2>3, <2>4, <2>5, <2>6
<1>13. QED
  BY <1>7, <1>9, <1>10, <1>12 DEF IInv

\* The ranks learn the same, so they go on or leave together.
LEMMA GatherInvariant ==
  ASSUME IInv, Gather
  PROVE  IInv'
<1>1. UNCHANGED <<config, index_to_infer, outputs, current_turn, said, open, response_token_ids,
                  response_loss_mask, rollout_logprobs, rollout_output>>
  BY DEF Gather
<1>2. rank' \in [Ranks -> {"gather", "turn", "rollout", "done"}]
  BY DEF Gather
<1>3. TypeOK'
  BY <1>1, <1>2 DEF IInv, TypeOK, config
<1>4. (OwnIndices /\ OwnOutputs /\ OwnSaid /\ SameTurn /\ Unfinished)'
  BY <1>1 DEF IInv, OwnIndices, OwnOutputs, OwnSaid, SameTurn, Unfinished, config
<1>5. Together'
  <2>1. CASE \E r \in Ranks : index_to_infer[r] # <<>>
    BY <1>1, <2>1 DEF Together, Gather, config
  <2>2. CASE ~\E r \in Ranks : index_to_infer[r] # <<>>
    BY <1>1, <2>2 DEF Together, Gather, config
  <2>3. QED
    BY <2>1, <2>2
<1>6. Answered' /\ Current'
  <2>1. \A r \in Ranks : rank[r] = "gather"
    BY DEF Gather
  <2>2. Answered'
    BY <1>1, <2>1 DEF IInv, Answered
  <2>3. Current'
    BY <1>1, <2>1 DEF IInv, Current, OfThisTurn, config
  <2>4. QED
    BY <2>2, <2>3
<1>7. QED
  BY <1>3, <1>4, <1>5, <1>6 DEF IInv

\* The output a rank goes on with for one of its trajectories.
Output(r, t) == outputs[r][CHOOSE n \in DOMAIN index_to_infer[r] : index_to_infer[r][n] = t]

\* The responses to trajectory t in its turn.
AnswersNow(t) == {text \in Answers(t) : OfThisTurn(t, text)}

\* That output is a response to this trajectory, in this turn.
LEMMA OutputAnswers ==
  ASSUME IInv, NEW r \in Ranks, rank[r] = "turn", NEW t \in ToSet(index_to_infer[r])
  PROVE  Output(r, t).text \in AnswersNow(t)
<1> DEFINE n == CHOOSE m \in DOMAIN index_to_infer[r] : index_to_infer[r][m] = t
<1>1. n \in DOMAIN index_to_infer[r] /\ index_to_infer[r][n] = t
  BY DEF ToSet
<1> HIDE DEF n
<1>2. [m \in DOMAIN outputs[r] |-> outputs[r][m].of] = index_to_infer[r]
  BY DEF IInv, Answered
<1>3. n \in DOMAIN outputs[r] /\ outputs[r][n].of = t
  BY <1>1, <1>2
<1>4. outputs[r][n].text \in Answers(t)
  BY <1>3 DEF IInv, OwnOutputs
<1>5. setup.driver = "colocate"
  BY SetupFacts DEF IInv, Together
<1>6. OfThisTurn(t, outputs[r][n].text)
  BY <1>3, <1>5 DEF IInv, Current
<1>7. QED
  BY <1>4, <1>6 DEF Output, n, AnswersNow

\* What a turn of rank r does, with the move of each of its trajectories.
TurnOf(r, S, move, after) ==
  /\ S = ToSet(index_to_infer[r]) /\ S \subseteq Mine(r) /\ setup.driver = "colocate"
  /\ \A t \in S : /\ move[t] \in Moves(t) /\ Output(r, t).text \in AnswersNow(t)
                  /\ after[t] = After(t, Output(r, t).text, move[t])
  /\ Changes(S, after)
  /\ index_to_infer' = [index_to_infer EXCEPT ![r] = In(index_to_infer[r], {t \in S : move[t][1] # "stop"})]

\* A step of Turn is one for some moves.
LEMMA TurnDoes ==
  ASSUME IInv, NEW r \in Ranks, Turn(r)
  PROVE  \E move, after : TurnOf(r, ToSet(index_to_infer[r]), move, after)
<1> DEFINE S == ToSet(index_to_infer[r])
<1>1. rank[r] = "turn" /\ S \subseteq Mine(r) /\ setup.driver = "colocate"
  BY SetupFacts DEF Turn, IInv, OwnIndices, Together
<1>2. PICK move \in [S -> UNION {Moves(t) : t \in S}] :
        /\ Becomes([t \in S |-> After(t, Output(r, t).text, move[t])])
        /\ index_to_infer' = [index_to_infer EXCEPT ![r] = Selected(@, LAMBDA t : move[t][1] # "stop")]
  BY DEF Turn, Output
<1>3. ASSUME NEW t \in S, NEW u \in S
      PROVE  Moves(t) = Moves(u)
  <2>1. current_turn[t] = current_turn[u]
    BY <1>1 DEF IInv, SameTurn
  <2>2. QED
    BY <2>1 DEF Moves
<1>4. \A t \in S : move[t] \in Moves(t)
  BY <1>2, <1>3
<1> DEFINE after == [t \in S |-> After(t, Output(r, t).text, move[t])]
           K == {t \in S : move[t][1] # "stop"}
<1>5. Changes(S, after)
  BY <1>2, BecomesChanges
<1>6. Selected(index_to_infer[r], LAMBDA t : move[t][1] # "stop") = In(index_to_infer[r], K)
  <2> DEFINE s == index_to_infer[r]
  <2>1. \A n \in DOMAIN s : s[n] \in S
    BY DEF ToSet
  <2>2. [n \in DOMAIN s |-> IF move[s[n]][1] # "stop" THEN <<s[n]>> ELSE <<>>] =
        [n \in DOMAIN s |-> IF s[n] \in K THEN <<s[n]>> ELSE <<>>]
    BY <2>1
  <2>3. QED
    BY <2>2 DEF Selected, In
<1>7. index_to_infer' = [index_to_infer EXCEPT ![r] = In(index_to_infer[r], K)]
  BY <1>2, <1>6
<1>8. TurnOf(r, S, move, after)
  BY <1>1, <1>4, <1>5, <1>7, OutputAnswers DEF TurnOf
<1>9. QED
  BY <1>8

\* A turn of a rank: those it keeps are its own, in one turn, and are what has no output.
LEMMA TurnInvariant ==
  ASSUME IInv, NEW r \in Ranks, Turn(r)
  PROVE  IInv'
<1> DEFINE S == ToSet(index_to_infer[r])
<1>1. PICK move, after : TurnOf(r, S, move, after)
  BY TurnDoes
<1> DEFINE K == {t \in S : move[t][1] # "stop"}
<1>2. /\ rank[r] = "turn" /\ rank' = [rank EXCEPT ![r] = "rollout"] /\ UNCHANGED <<config, outputs>>
  BY DEF Turn
<1>3. S \subseteq Mine(r) /\ S \in SUBSET Trajectories /\ setup.driver = "colocate" /\ setup' = setup
  BY <1>1, <1>2, MineFacts DEF TurnOf, config
<1>4. ASSUME NEW t \in S
      PROVE  /\ after[t] \in Results(t)
             /\ after[t].output = Nothing <=> t \in K
             /\ t \in K => after[t].turn = current_turn[t] + 1
  <2>1. t \in Trajectories /\ TypeOK /\ said[t] \in Seq(Seq(TokensOf(t)))
    BY <1>3 DEF IInv, OwnSaid
  <2>2. /\ move[t] \in Moves(t) /\ Output(r, t).text \in Answers(t)
        /\ after[t] = After(t, Output(r, t).text, move[t])
    BY <1>1 DEF TurnOf, AnswersNow
  <2>3. QED
    BY <2>1, <2>2, AfterType
<1>5. Changes(S, after)
  BY <1>1 DEF TurnOf
<1>6. index_to_infer' = [index_to_infer EXCEPT ![r] = In(index_to_infer[r], K)]
  BY <1>1 DEF TurnOf
<1> HIDE DEF K, S
<1>7. /\ current_turn' \in [Trajectories -> 1..MaxTurns]
      /\ open' \in [Trajectories -> BOOLEAN]
      /\ {said, response_token_ids, rollout_logprobs}' \subseteq [Trajectories -> Texts]
      /\ response_loss_mask' \in [Trajectories -> Seq(Seq({0, 1}))]
      /\ rollout_output' \in [Trajectories -> Outputs \cup {Nothing}]
      /\ OwnSaid'
  BY <1>3, <1>4, <1>5, ChangesTypes DEF IInv
<1>8. index_to_infer \in [Ranks -> Seq(Trajectories)]
  BY DEF IInv, TypeOK
<1>9. /\ In(index_to_infer[r], K) \in Seq(Trajectories)
      /\ ToSet(In(index_to_infer[r], K)) = K
  <2>1. index_to_infer[r] \in Seq(Trajectories)
    BY <1>8
  <2>2. K \subseteq S
    BY DEF K
  <2>3. In(index_to_infer[r], K) \in Seq(Trajectories) /\ ToSet(In(index_to_infer[r], K)) = S \cap K
    BY <2>1, InMembers DEF S
  <2>4. QED
    BY <2>2, <2>3
<1>10. /\ index_to_infer' \in [Ranks -> Seq(Trajectories)]
       /\ ToSet(index_to_infer'[r]) = K
       /\ \A s \in Ranks : s # r => index_to_infer'[s] = index_to_infer[s]
  BY <1>6, <1>8, <1>9
<1>11. TypeOK'
  <2>1. rank' \in [Ranks -> {"gather", "turn", "rollout", "done"}]
    BY <1>2 DEF IInv, TypeOK
  <2>2. setup' \in Setups /\ logprobs' \in BOOLEAN
        /\ outputs' \in [Ranks -> Seq([of : Trajectories, text : Seq(Tokens)])]
    BY <1>2 DEF IInv, TypeOK, config
  <2>3. QED
    BY <1>7, <1>10, <2>1, <2>2 DEF TypeOK
<1>12. OwnIndices'
  <2>1. K \subseteq Mine(r)
    BY <1>3 DEF K
  <2>2. QED
    BY <1>10, <2>1 DEF IInv, OwnIndices
<1>13. OwnOutputs'
  BY <1>2 DEF IInv, OwnOutputs
<1>14. Together'
  <2>1. \A s \in Ranks : rank[s] \in {"turn", "rollout"}
    BY <1>2 DEF IInv, Together
  <2>2. \A s \in Ranks : rank'[s] \in {"turn", "rollout"}
    BY <1>2, <2>1 DEF IInv, TypeOK
  <2>3. QED
    BY <1>3, <2>2 DEF Together
<1>15. Answered'
  <2>1. \A s \in Ranks : rank'[s] \in {"gather", "turn"} => s # r /\ rank'[s] = rank[s]
    BY <1>2 DEF IInv, TypeOK
  <2>2. QED
    BY <1>2, <1>10, <2>1 DEF IInv, Answered
<1>c. Current'
  <2>1. SUFFICES ASSUME NEW s \in Ranks, rank'[s] \in {"gather", "turn"}, NEW n \in DOMAIN outputs'[s]
                 PROVE  outputs'[s][n].text[1].turn = current_turn'[outputs'[s][n].of]
    BY DEF Current, OfThisTurn
  <2>2. s # r /\ rank[s] \in {"gather", "turn"} /\ outputs' = outputs /\ n \in DOMAIN outputs[s]
    BY <1>2, <2>1 DEF IInv, TypeOK
  <2> DEFINE u == outputs[s][n].of
  <2>3. OfThisTurn(u, outputs[s][n].text)
    BY <1>3, <2>2 DEF IInv, Current
  <2>4. u \in ToSet(index_to_infer[s])
    <3>1. [m \in DOMAIN outputs[s] |-> outputs[s][m].of] = index_to_infer[s]
      BY <2>2 DEF IInv, Answered
    <3>2. n \in DOMAIN index_to_infer[s] /\ index_to_infer[s][n] = u
      BY <2>2, <3>1
    <3>3. QED
      BY <3>2 DEF ToSet
  <2>5. u \in Mine(s)
    BY <2>4 DEF IInv, OwnIndices
  <2> HIDE DEF u
  <2>6. u \in Trajectories /\ u \notin S
    BY <1>3, <2>2, <2>5, MineFacts
  <2>7. current_turn'[u] = current_turn[u]
    BY <1>5, <2>6 DEF Changes
  <2>8. QED
    BY <2>2, <2>3, <2>7 DEF OfThisTurn, u
<1>16. SameTurn'
  <2>1. SUFFICES ASSUME NEW s \in Ranks, NEW t \in ToSet(index_to_infer'[s]), NEW u \in ToSet(index_to_infer'[s])
                 PROVE  current_turn'[t] = current_turn'[u]
    BY DEF SameTurn
  <2>2. CASE s = r
    <3>1. t \in S /\ u \in S /\ t \in K /\ u \in K
      BY <1>10, <2>2 DEF K
    <3>2. current_turn[t] = current_turn[u]
      BY <1>3, <3>1 DEF IInv, SameTurn, S
    <3>3. current_turn'[t] = after[t].turn /\ current_turn'[u] = after[u].turn
      BY <1>3, <1>5, <3>1 DEF Changes
    <3>4. QED
      BY <1>4, <3>1, <3>2, <3>3
  <2>3. CASE s # r
    <3>1. t \in ToSet(index_to_infer[s]) /\ u \in ToSet(index_to_infer[s])
      BY <1>10, <2>3
    <3>2. t \in Mine(s) /\ u \in Mine(s) /\ current_turn[t] = current_turn[u]
      BY <1>3, <3>1 DEF IInv, OwnIndices, SameTurn
    <3>3. t \notin S /\ u \notin S /\ t \in Trajectories /\ u \in Trajectories
      BY <1>3, <2>3, <3>2, MineFacts
    <3>4. QED
      BY <1>5, <3>2, <3>3 DEF Changes
  <2>4. QED
    BY <2>2, <2>3
<1>17. Unfinished'
  <2>1. SUFFICES ASSUME NEW s \in Ranks, NEW t \in Mine(s)
                 PROVE  rollout_output'[t] = Nothing <=> t \in ToSet(index_to_infer'[s])
    BY DEF Unfinished
  <2>2. t \in Trajectories /\ (rollout_output[t] = Nothing <=> t \in ToSet(index_to_infer[s]))
    BY <1>3, MineFacts DEF IInv, Unfinished
  <2>3. CASE s = r
    <3>1. t \in S => rollout_output'[t] = after[t].output
      BY <1>3, <1>5 DEF Changes
    <3>2. t \notin S => rollout_output'[t] = rollout_output[t]
      BY <1>5, <2>2 DEF Changes
    <3>3. K \subseteq S
      BY DEF K
    <3>4. QED
      BY <1>4, <1>10, <2>2, <2>3, <3>1, <3>2, <3>3 DEF S
  <2>4. CASE s # r
    <3>1. t \notin S
      BY <1>3, <2>4, MineFacts
    <3>2. QED
      BY <1>5, <1>10, <2>2, <2>4, <3>1 DEF Changes
  <2>5. QED
    BY <2>3, <2>4
<1>18. QED
  BY <1>7, <1>11, <1>12, <1>13, <1>14, <1>15, <1>c, <1>16, <1>17 DEF IInv

\* The common generation: each slice is where the requests of its rank are.
LEMMA RolloutInvariant ==
  ASSUME IInv, Rollout
  PROVE  IInv'
<1> DEFINE requests == FlattenSeq(index_to_infer)
           all == [n \in DOMAIN requests |-> [of |-> requests[n], text |-> Response(requests[n])]]
           R == [of : Trajectories, text : Seq(Tokens)]
           slice(r) == SubSeq(all, StartIdx(r) + 1, StartIdx(r) + Len(index_to_infer[r]))
<1>1. /\ \A r \in Ranks : rank[r] = "rollout"
      /\ outputs' = [r \in Ranks |-> slice(r)]
      /\ rank' = [r \in Ranks |-> "gather"]
      /\ UNCHANGED <<config, index_to_infer, current_turn, said, open, response_token_ids,
                     response_loss_mask, rollout_logprobs, rollout_output>>
  BY DEF Rollout
<1>2. index_to_infer \in [1..NumRanks -> Seq(Trajectories)] /\ NumRanks \in Nat /\ Ranks = 1..NumRanks
  BY MultiTurnAssumption DEF IInv, TypeOK, Ranks
<1>3. /\ requests \in Seq(Trajectories)
      /\ \A r \in Ranks : /\ StartIdx(r) \in Nat
                          /\ StartIdx(r) + Len(index_to_infer[r]) <= Len(requests)
                          /\ \A j \in 1..Len(index_to_infer[r]) :
                               requests[StartIdx(r) + j] = index_to_infer[r][j]
  <2>1. ASSUME NEW r \in Ranks
        PROVE  /\ StartIdx(r) \in Nat /\ requests \in Seq(Trajectories)
               /\ StartIdx(r) + Len(index_to_infer[r]) <= Len(requests)
               /\ \A j \in 1..Len(index_to_infer[r]) :
                    requests[StartIdx(r) + j] = index_to_infer[r][j]
    <3> DEFINE i == index_to_infer
    <3>1. r \in 1..NumRanks
      BY <1>2
    <3>2. i \in [1..NumRanks -> Seq(Trajectories)] /\ NumRanks \in Nat
      BY <1>2
    <3> HIDE DEF i
    <3> DEFINE start == Len(FlattenSeq(SubSeq(i, 1, r - 1)))
    <3>s. start = Len(FlattenSeq(SubSeq(i, 1, r - 1)))
      OBVIOUS
    <3> HIDE DEF start
    <3>3. FlattenSeq(i) \in Seq(Trajectories) /\ FoundAt(i[r], FlattenSeq(i), start)
      BY <3>1, <3>2, <3>s, FlattenSlice
    <3>4. StartIdx(r) = start /\ requests = FlattenSeq(i) /\ index_to_infer[r] = i[r]
      BY DEF StartIdx, start, i
    <3>5. QED
      BY <3>3, <3>4 DEF FoundAt
  <2>2. 1 \in Ranks
    BY MultiTurnAssumption DEF Ranks
  <2>3. QED
    BY <2>1, <2>2
<1> HIDE DEF requests
<1>4. \A t \in Trajectories : /\ Response(t) \in Answers(t) /\ OfThisTurn(t, Response(t))
                              /\ Response(t) \in Seq(Tokens)
  <2>1. \A t \in Trajectories : Response(t) \in Answers(t) /\ OfThisTurn(t, Response(t))
    BY ResponseFine DEF IInv, OfThisTurn
  <2>2. ASSUME NEW t \in Trajectories PROVE Response(t) \in Seq(Tokens)
    <3>1. Response(t) \in Seq(TokensOf(t))
      BY <2>1 DEF Answers
    <3>2. QED
      BY <3>1 DEF TokensOf
  <2>3. QED
    BY <2>1, <2>2
<1>5. ASSUME NEW n \in DOMAIN requests
      PROVE  /\ all[n] \in R /\ all[n].of = requests[n] /\ all[n].text \in Answers(requests[n])
             /\ OfThisTurn(requests[n], all[n].text)
  <2>1. requests[n] \in Trajectories
    BY <1>3
  <2>2. QED
    BY <1>4, <2>1
<1>6. all \in Seq(R) /\ Len(all) = Len(requests) /\ DOMAIN all = 1..Len(requests)
  <2>1. DOMAIN requests = 1..Len(requests) /\ Len(requests) \in Nat
    BY <1>3
  <2>2. all \in [1..Len(requests) -> R]
    <3> HIDE DEF R
    <3>1. QED
      BY <1>5, <2>1
  <2> HIDE DEF all, R
  <2>3. QED
    BY <2>1, <2>2
<1> HIDE DEF all, R
<1>7. ASSUME NEW r \in Ranks
      PROVE  /\ slice(r) \in Seq(R)
             /\ DOMAIN slice(r) = DOMAIN index_to_infer[r]
             /\ \A n \in DOMAIN slice(r) : /\ slice(r)[n].of = index_to_infer[r][n]
                                           /\ slice(r)[n].text \in Answers(slice(r)[n].of)
                                           /\ OfThisTurn(slice(r)[n].of, slice(r)[n].text)
  <2> DEFINE b == StartIdx(r)
             l == Len(index_to_infer[r])
  <2>1. b \in Nat /\ l \in Nat /\ b + l <= Len(all) /\ DOMAIN index_to_infer[r] = 1..l
    BY <1>2, <1>3, <1>6
  <2>2. \A j \in 1..l : requests[b + j] = index_to_infer[r][j] /\ b + j \in DOMAIN requests
    BY <1>3, <1>6, <2>1
  <2>3. \A i \in (b + 1)..(b + l) : all[i] \in R
    BY <1>6, <2>1
  <2> HIDE DEF b, l
  <2>4. /\ SubSeq(all, b + 1, b + l) \in Seq(R) /\ Len(SubSeq(all, b + 1, b + l)) = l
        /\ \A j \in 1..l : SubSeq(all, b + 1, b + l)[j] = all[b + j]
    BY <1>6, <2>1, <2>3
  <2>5. slice(r) = SubSeq(all, b + 1, b + l)
    BY DEF b, l
  <2> HIDE DEF slice
  <2>6. DOMAIN slice(r) = 1..l
    BY <2>4, <2>5
  <2>7. QED
    BY <1>5, <2>1, <2>2, <2>4, <2>5, <2>6
<1> HIDE DEF slice
<1>8. TypeOK'
  <2>1. outputs' \in [Ranks -> Seq(R)]
    BY <1>1, <1>7
  <2>2. rank' \in [Ranks -> {"gather", "turn", "rollout", "done"}]
    BY <1>1
  <2>3. QED
    BY <1>1, <2>1, <2>2 DEF R, IInv, TypeOK, config
<1>9. OwnOutputs'
  BY <1>1, <1>7 DEF OwnOutputs
<1>10. Answered'
  <2>1. ASSUME NEW r \in Ranks
        PROVE  [n \in DOMAIN outputs'[r] |-> outputs'[r][n].of] = index_to_infer'[r]
    <3>1. outputs'[r] = slice(r) /\ index_to_infer' = index_to_infer
      BY <1>1
    <3>2. index_to_infer[r] = [n \in DOMAIN index_to_infer[r] |-> index_to_infer[r][n]]
      BY <1>2
    <3>3. QED
      BY <1>7, <3>1, <3>2
  <2>2. QED
    BY <2>1 DEF Answered
<1>c. Current'
  BY <1>1, <1>7 DEF Current, OfThisTurn
<1>11. (OwnIndices /\ OwnSaid /\ SameTurn /\ Unfinished)'
  BY <1>1 DEF IInv, OwnIndices, OwnSaid, SameTurn, Unfinished, config
<1>12. Together'
  BY <1>1 DEF Together
<1>13. QED
  BY <1>8, <1>9, <1>10, <1>c, <1>11, <1>12 DEF IInv

\* A turn of a coroutine on the server.
LEMMA RunInvariant ==
  ASSUME IInv, NEW t \in Trajectories, Run(t)
  PROVE  IInv'
<1>1. /\ setup.driver = "server" /\ UNCHANGED <<config, rank, index_to_infer, outputs>>
  BY DEF Run
<1>2. PICK move \in Moves(t) : Becomes([u \in {t} |-> After(u, Response(u), move)])
  BY DEF Run
<1> DEFINE after == [u \in {t} |-> After(u, Response(u), move)]
<1>3. Changes({t}, after)
  BY <1>2, BecomesChanges
<1>4. Response(t) \in Answers(t)
  BY ResponseFine DEF IInv
<1>5. after[t] \in Results(t)
  BY <1>4, AfterType DEF IInv, OwnSaid
<1> HIDE DEF after
<1>6. /\ current_turn' \in [Trajectories -> 1..MaxTurns]
      /\ open' \in [Trajectories -> BOOLEAN]
      /\ {said, response_token_ids, rollout_logprobs}' \subseteq [Trajectories -> Texts]
      /\ response_loss_mask' \in [Trajectories -> Seq(Seq({0, 1}))]
      /\ rollout_output' \in [Trajectories -> Outputs \cup {Nothing}]
      /\ OwnSaid'
  <2>1. {t} \in SUBSET Trajectories /\ \A u \in {t} : after[u] \in Results(u)
    BY <1>5
  <2>2. QED
    BY <1>3, <2>1, ChangesTypes DEF IInv
<1>7. TypeOK'
  BY <1>1, <1>6 DEF IInv, TypeOK, config
<1>8. (OwnIndices /\ OwnOutputs /\ Together /\ Answered)'
  BY <1>1 DEF IInv, OwnIndices, OwnOutputs, Together, Answered, config
<1>9. (Current /\ SameTurn /\ Unfinished)'
  BY <1>1 DEF Current, SameTurn, Unfinished, config
<1>10. QED
  BY <1>6, <1>7, <1>8, <1>9 DEF IInv

\* Every step keeps the invariant.
LEMMA StepInvariant == IInv /\ [Next]_vars => IInv'
<1> SUFFICES ASSUME IInv, [Next]_vars PROVE IInv'
  OBVIOUS
<1>1. CASE UNCHANGED vars
  <2>1. TypeOK'
    BY <1>1 DEF vars, config, IInv, TypeOK
  <2>2. (OwnIndices /\ OwnOutputs /\ OwnSaid)'
    BY <1>1 DEF vars, config, IInv, OwnIndices, OwnOutputs, OwnSaid
  <2>3. (Together /\ Answered /\ Current /\ SameTurn /\ Unfinished)'
    BY <1>1 DEF vars, config, IInv, Together, Answered, Current, OfThisTurn, SameTurn, Unfinished
  <2>4. QED
    BY <2>1, <2>2, <2>3 DEF IInv
<1>2. CASE Next
  BY <1>2, GatherInvariant, TurnInvariant, RolloutInvariant, RunInvariant DEF Next
<1>3. QED
  BY <1>1, <1>2

\* IInv holds at every step of run_multi_turn on all ranks, and of MultiTurnScheduler.run.
THEOREM Invariance == Spec => []IInv
BY InitInvariant, StepInvariant, PTL DEF Spec

\* Every variable keeps its type, and no trajectory gets beyond max_turns.
THEOREM TypesHold == Spec => []TypeOK
<1>1. IInv => TypeOK
  BY DEF IInv
<1>2. QED
  BY <1>1, Invariance, PTL

\* It says that each rank goes on with its own responses and that all leave together.
LEMMA ImpliesLockStep == IInv => LockStep
<1> SUFFICES ASSUME IInv PROVE LockStep
  OBVIOUS
<1>1. OwnResponses
  <2>1. ASSUME NEW t \in Trajectories, NEW token \in ToSet(Flat(said[t]))
        PROVE  token.of = t
    <3>1. said[t] \in [1..Len(said[t]) -> Seq(TokensOf(t))] /\ Len(said[t]) \in Nat
      BY DEF IInv, OwnSaid
    <3>2. Flat(said[t]) \in Seq(TokensOf(t))
      BY <3>1, FlattenMembers DEF Flat
    <3>3. token \in TokensOf(t)
      BY <3>2 DEF ToSet
    <3>4. QED
      BY <3>3 DEF TokensOf
  <2>2. QED
    BY <2>1 DEF OwnResponses, IInv, Answered
<1>2. LeaveTogether
  <2>1. SUFFICES ASSUME NEW r \in Ranks, rank[r] = "done"
                 PROVE  /\ \A s \in Ranks : rank[s] = "done"
                        /\ \A t \in Trajectories : rollout_output[t] # Nothing
    BY DEF LeaveTogether
  <2>2. /\ \A s \in Ranks : rank[s] = "done" /\ index_to_infer[s] = <<>>
        /\ setup.driver = "colocate"
    BY <2>1, SetupFacts DEF IInv, Together
  <2>3. \A s \in Ranks : ToSet(index_to_infer[s]) = {}
    BY <2>2 DEF ToSet
  <2>4. QED
    BY <2>2, <2>3, MineFacts DEF IInv, Unfinished
<1>3. QED
  BY <1>1, <1>2 DEF LockStep

\* Each rank's slice of the common generation answers its own requests, and the ranks of
\* run_multi_turn leave its loop together with nothing left.
THEOREM RanksInLockStep == Spec => []LockStep
BY ImpliesLockStep, Invariance, PTL

\* A scheduler that lets the next response continue a message returns ids: those of that
\* response alone would take the place of the message.
Supported == \A s \in Setups : s.continues => s.ids

MaskOf(tokens) == [n \in DOMAIN tokens |-> IF tokens[n].n = 0 THEN 0 ELSE 1]
Generated == {token \in Tokens : token.n # 0}
Unmasked(tokens) == In(tokens, Generated)

\* A mask has an entry for each entry of the ids, as long, and masks what step added.
MaskFits(ids, mask) ==
  /\ DOMAIN mask = DOMAIN ids
  /\ \A n \in DOMAIN ids : Len(mask[n]) = Len(ids[n])
  /\ Flat(mask) = MaskOf(Flat(ids))

\* The tokens trained on.
Taught(tokens) == IF setup.mask THEN Unmasked(tokens) ELSE tokens

\* Log-probabilities are those of the tokens trained on, or too many: step has cut tokens off.
\* If what it adds is trained on they are too few.
TooLong == setup.mask \/ setup.edits \cap Additions = {}
LogsFit(logs, tokens) ==
  \/ logs = Taught(tokens)
  \/ IF TooLong THEN Len(logs) > Len(Taught(tokens)) ELSE Len(logs) < Len(Taught(tokens))

-----------------------------------------------------------------------------
(* Selecting from a concatenation, and counting.                           *)

\* What a concatenation has where.
LEMMA ConcatAt ==
  ASSUME NEW T, NEW a \in Seq(T), NEW b \in Seq(T), NEW k, NEW m, Len(a) = k, Len(b) = m
  PROVE  /\ a \o b \in Seq(T) /\ Len(a \o b) = k + m
         /\ \A n \in 1..k : (a \o b)[n] = a[n]
         /\ \A n \in 1..(k + m) : n \notin 1..k => (a \o b)[n] = b[n - k]
OBVIOUS

\* Selecting from a concatenation.
LEMMA InConcat ==
  ASSUME NEW T, NEW s \in Seq(T), NEW t \in Seq(T), NEW K
  PROVE  In(s \o t, K) = In(s, K) \o In(t, K)
<1> DEFINE part(u) == [n \in DOMAIN u |-> IF u[n] \in K THEN <<u[n]>> ELSE <<>>]
<1>1. ASSUME NEW u \in Seq(T)
      PROVE  part(u) \in Seq(Seq(T)) /\ Len(part(u)) = Len(u)
  <2>1. ASSUME NEW n \in 1..Len(u) PROVE part(u)[n] \in Seq(T)
    <3>1. u[n] \in T /\ <<u[n]>> \in Seq(T) /\ <<>> \in Seq(T)
      OBVIOUS
    <3>2. QED
      BY <3>1
  <2>2. part(u) \in [1..Len(u) -> Seq(T)]
    BY <2>1
  <2>3. QED
    BY <2>2
<1>2. part(s \o t) = part(s) \o part(t)
  <2>1. /\ s \o t \in Seq(T) /\ Len(s \o t) = Len(s) + Len(t)
        /\ \A n \in 1..Len(s) : (s \o t)[n] = s[n]
        /\ \A n \in 1..(Len(s) + Len(t)) : n \notin 1..Len(s) =>
             n - Len(s) \in 1..Len(t) /\ (s \o t)[n] = t[n - Len(s)]
    OBVIOUS
  <2>2. /\ part(s \o t) \in Seq(Seq(T)) /\ Len(part(s \o t)) = Len(s) + Len(t)
        /\ part(s) \in Seq(Seq(T)) /\ Len(part(s)) = Len(s)
        /\ part(t) \in Seq(Seq(T)) /\ Len(part(t)) = Len(t)
    BY <1>1, <2>1
  <2>3. /\ \A n \in 1..Len(s) : part(s)[n] = IF s[n] \in K THEN <<s[n]>> ELSE <<>>
        /\ \A n \in 1..Len(t) : part(t)[n] = IF t[n] \in K THEN <<t[n]>> ELSE <<>>
        /\ \A n \in 1..(Len(s) + Len(t)) :
             part(s \o t)[n] = IF (s \o t)[n] \in K THEN <<(s \o t)[n]>> ELSE <<>>
    BY <2>1
  <2> HIDE DEF part
  <2>4. /\ part(s) \o part(t) \in Seq(Seq(T)) /\ Len(part(s) \o part(t)) = Len(s) + Len(t)
        /\ \A n \in 1..Len(s) : (part(s) \o part(t))[n] = part(s)[n]
        /\ \A n \in 1..(Len(s) + Len(t)) : n \notin 1..Len(s) =>
             (part(s) \o part(t))[n] = part(t)[n - Len(s)]
    BY <2>2, ConcatAt
  <2>5. ASSUME NEW n \in 1..(Len(s) + Len(t)) PROVE part(s \o t)[n] = (part(s) \o part(t))[n]
    <3>1. part(s \o t)[n] = IF (s \o t)[n] \in K THEN <<(s \o t)[n]>> ELSE <<>>
      BY <2>3
    <3>2. CASE n \in 1..Len(s)
      <4>1. (s \o t)[n] = s[n] /\ (part(s) \o part(t))[n] = part(s)[n]
        BY <2>1, <2>4, <3>2
      <4>2. part(s)[n] = IF s[n] \in K THEN <<s[n]>> ELSE <<>>
        BY <2>3, <3>2
      <4>3. QED
        BY <3>1, <4>1, <4>2
    <3>3. CASE n \notin 1..Len(s)
      <4> DEFINE i == n - Len(s)
      <4>1. i \in 1..Len(t) /\ (s \o t)[n] = t[i] /\ (part(s) \o part(t))[n] = part(t)[i]
        BY <2>1, <2>4, <3>3
      <4> HIDE DEF i
      <4>2. part(t)[i] = IF t[i] \in K THEN <<t[i]>> ELSE <<>>
        BY <2>3, <4>1
      <4>3. QED
        BY <3>1, <4>1, <4>2
    <3>4. QED
      BY <3>2, <3>3
  <2>6. QED
    BY <2>2, <2>4, <2>5, SeqEqual
<1>3. FlattenSeq(part(s) \o part(t)) = FlattenSeq(part(s)) \o FlattenSeq(part(t))
  <2> HIDE DEF part
  <2>1. QED
    BY <1>1, FlattenConcat
<1>4. /\ In(s, K) = FlattenSeq(part(s)) /\ In(t, K) = FlattenSeq(part(t))
      /\ In(s \o t, K) = FlattenSeq(part(s \o t))
  BY DEF In, Selected
<1>5. QED
  BY <1>2, <1>3, <1>4

\* Unmasked tokens are tokens.
LEMMA UnmaskedType ==
  ASSUME NEW tokens \in Seq(Tokens)
  PROVE  Unmasked(tokens) \in Seq(Tokens)
BY InMembers DEF Unmasked

\* A mask is as long as its tokens.
LEMMA MaskOfType ==
  ASSUME NEW tokens \in Seq(Tokens)
  PROVE  MaskOf(tokens) \in Seq({0, 1}) /\ Len(MaskOf(tokens)) = Len(tokens)
<1>1. MaskOf(tokens) \in [1..Len(tokens) -> {0, 1}] /\ Len(tokens) \in Nat
  BY DEF MaskOf
<1>2. QED
  BY <1>1

\* The mask of a concatenation.
LEMMA MaskOfConcat ==
  ASSUME NEW s \in Seq(Tokens), NEW t \in Seq(Tokens)
  PROVE  MaskOf(s \o t) = MaskOf(s) \o MaskOf(t)
<1>1. /\ s \o t \in Seq(Tokens) /\ Len(s \o t) = Len(s) + Len(t)
      /\ \A n \in 1..Len(s) : (s \o t)[n] = s[n]
      /\ \A n \in 1..(Len(s) + Len(t)) : n \notin 1..Len(s) =>
           n - Len(s) \in 1..Len(t) /\ (s \o t)[n] = t[n - Len(s)]
  OBVIOUS
<1>2. /\ MaskOf(s \o t) \in Seq({0, 1}) /\ Len(MaskOf(s \o t)) = Len(s) + Len(t)
      /\ MaskOf(s) \in Seq({0, 1}) /\ Len(MaskOf(s)) = Len(s)
      /\ MaskOf(t) \in Seq({0, 1}) /\ Len(MaskOf(t)) = Len(t)
  BY <1>1, MaskOfType
<1>3. /\ \A n \in 1..Len(s) : MaskOf(s)[n] = IF s[n].n = 0 THEN 0 ELSE 1
      /\ \A n \in 1..Len(t) : MaskOf(t)[n] = IF t[n].n = 0 THEN 0 ELSE 1
      /\ \A n \in 1..(Len(s) + Len(t)) : MaskOf(s \o t)[n] = IF (s \o t)[n].n = 0 THEN 0 ELSE 1
  BY <1>1 DEF MaskOf
<1>4. /\ MaskOf(s) \o MaskOf(t) \in Seq({0, 1}) /\ Len(MaskOf(s) \o MaskOf(t)) = Len(s) + Len(t)
      /\ \A n \in 1..Len(s) : (MaskOf(s) \o MaskOf(t))[n] = MaskOf(s)[n]
      /\ \A n \in 1..(Len(s) + Len(t)) : n \notin 1..Len(s) =>
           (MaskOf(s) \o MaskOf(t))[n] = MaskOf(t)[n - Len(s)]
  <2> DEFINE Bits == {0, 1}
             a == MaskOf(s)
             b == MaskOf(t)
             j == Len(s)
             k == Len(t)
  <2>1. a \in Seq(Bits) /\ b \in Seq(Bits) /\ Len(a) = j /\ Len(b) = k
    BY <1>2
  <2> HIDE DEF Bits, a, b, j, k
  <2>2. /\ a \o b \in Seq(Bits) /\ Len(a \o b) = j + k
        /\ \A n \in 1..j : (a \o b)[n] = a[n]
        /\ \A n \in 1..(j + k) : n \notin 1..j => (a \o b)[n] = b[n - j]
    BY <2>1, ConcatAt
  <2>3. QED
    BY <2>2 DEF Bits, a, b, j, k
<1>5. ASSUME NEW n \in 1..(Len(s) + Len(t)) PROVE MaskOf(s \o t)[n] = (MaskOf(s) \o MaskOf(t))[n]
  <2>1. MaskOf(s \o t)[n] = IF (s \o t)[n].n = 0 THEN 0 ELSE 1
    BY <1>3
  <2>2. CASE n \in 1..Len(s)
    <3>1. (s \o t)[n] = s[n] /\ (MaskOf(s) \o MaskOf(t))[n] = MaskOf(s)[n]
      BY <1>1, <1>4, <2>2
    <3>2. MaskOf(s)[n] = IF s[n].n = 0 THEN 0 ELSE 1
      BY <1>3, <2>2
    <3>3. QED
      BY <2>1, <3>1, <3>2
  <2>3. CASE n \notin 1..Len(s)
    <3> DEFINE i == n - Len(s)
    <3>1. i \in 1..Len(t) /\ (s \o t)[n] = t[i] /\ (MaskOf(s) \o MaskOf(t))[n] = MaskOf(t)[i]
      BY <1>1, <1>4, <2>3
    <3> HIDE DEF i
    <3>2. MaskOf(t)[i] = IF t[i].n = 0 THEN 0 ELSE 1
      BY <1>3, <3>1
    <3>3. QED
      BY <2>1, <3>1, <3>2
  <2>4. QED
    BY <2>2, <2>3
<1>6. QED
  BY <1>2, <1>4, <1>5, SeqEqual

\* As many ones as unmasked tokens.
LEMMA CountOnes ==
  ASSUME NEW tokens \in Seq(Tokens)
  PROVE  Len(In(MaskOf(tokens), {1})) = Len(Unmasked(tokens))
<1> DEFINE S == {k \in Nat : \A u \in Seq(Tokens) : Len(u) = k => Len(In(MaskOf(u), {1})) = Len(Unmasked(u))}
<1>1. 0 \in S
  <2>1. ASSUME NEW u \in Seq(Tokens), Len(u) = 0
        PROVE  Len(In(MaskOf(u), {1})) = Len(Unmasked(u))
    <3>1. u = <<>> /\ MaskOf(u) = <<>>
      BY <2>1, MaskOfType, EmptySeq
    <3>2. QED
      BY <3>1, InEmpty DEF Unmasked
  <2>2. QED
    BY <2>1
<1>2. ASSUME NEW k \in Nat, k \in S
      PROVE  k + 1 \in S
  <2>1. ASSUME NEW u \in Seq(Tokens), Len(u) = k + 1
        PROVE  Len(In(MaskOf(u), {1})) = Len(Unmasked(u))
    <3> DEFINE f == SubSeq(u, 1, k)
               l == u[k + 1]
               bit == IF l.n = 0 THEN 0 ELSE 1
    <3>1. f \in Seq(Tokens) /\ Len(f) = k /\ l \in Tokens /\ u = Append(f, l) /\ u = f \o <<l>> /\ <<l>> \in Seq(Tokens)
      BY <2>1
    <3>2. Len(In(MaskOf(f), {1})) = Len(Unmasked(f))
      BY <1>2, <3>1
    <3> HIDE DEF f, l
    <3>3. MaskOf(<<l>>) = <<bit>>
      BY DEF MaskOf
    <3>4. MaskOf(f) \in Seq({0, 1}) /\ bit \in {0, 1}
      BY <3>1, MaskOfType
    <3>5. MaskOf(u) = Append(MaskOf(f), bit)
      <4>1. MaskOf(u) = MaskOf(f) \o MaskOf(<<l>>)
        BY <3>1, MaskOfConcat
      <4> HIDE DEF bit
      <4>2. MaskOf(f) \o <<bit>> = Append(MaskOf(f), bit)
        BY <3>4, AppendIsConcat
      <4>3. QED
        BY <3>3, <4>1, <4>2
    <3>6. In(MaskOf(u), {1}) = In(MaskOf(f), {1}) \o (IF bit \in {1} THEN <<bit>> ELSE <<>>)
      <4> DEFINE One == {1}
                 Bits == {0, 1}
      <4>1. MaskOf(f) \in Seq(Bits) /\ bit \in Bits
        BY <3>4
      <4> HIDE DEF bit, One, Bits
      <4>2. In(Append(MaskOf(f), bit), One) = In(MaskOf(f), One) \o (IF bit \in One THEN <<bit>> ELSE <<>>)
        BY <4>1, InAppend
      <4>3. QED
        BY <3>5, <4>2 DEF One
    <3>7. Unmasked(u) = Unmasked(f) \o (IF l \in Generated THEN <<l>> ELSE <<>>)
      <4> DEFINE G == Generated
      <4>1. f \in Seq(Tokens) /\ l \in Tokens
        BY <3>1
      <4> HIDE DEF G
      <4>2. In(Append(f, l), G) = In(f, G) \o (IF l \in G THEN <<l>> ELSE <<>>)
        BY <4>1, InAppend
      <4>3. QED
        BY <3>1, <4>2 DEF Unmasked, G
    <3>8. In(MaskOf(f), {1}) \in Seq({0, 1}) /\ Unmasked(f) \in Seq(Tokens)
      BY <3>1, <3>4, InMembers, UnmaskedType
    <3>9. CASE l.n = 0
      <4>1. bit \notin {1} /\ l \notin Generated
        BY <3>9 DEF Generated
      <4>2. QED
        BY <3>2, <3>6, <3>7, <3>8, <4>1
    <3>10. CASE l.n # 0
      <4>1. bit = 1 /\ l \in Generated
        BY <3>1, <3>10 DEF Generated
      <4>2. /\ Len(In(MaskOf(f), {1}) \o <<1>>) = Len(In(MaskOf(f), {1})) + 1
            /\ Len(Unmasked(f) \o <<l>>) = Len(Unmasked(f)) + 1
        <5>1. <<1>> \in Seq({0, 1}) /\ <<l>> \in Seq(Tokens)
          BY <3>1
        <5>2. QED
          BY <3>8, <5>1
      <4>3. QED
        BY <3>2, <3>6, <3>7, <4>1, <4>2
    <3>11. QED
      BY <3>9, <3>10
  <2>2. QED
    BY <2>1
<1>3. Nat \subseteq S
  <2> HIDE DEF S
  <2>1. QED
    BY <1>1, <1>2, InductionOnNat
<1>4. Len(tokens) \in S
  BY <1>3
<1>5. QED
  BY <1>4

\* The sum of a mask that fits counts the unmasked tokens.
LEMMA SumIs ==
  ASSUME NEW ids \in Texts, NEW mask \in Masks, MaskFits(ids, mask)
  PROVE  Sum(mask) = Len(Unmasked(Flat(ids)))
<1>1. Flat(ids) \in Seq(Tokens)
  <2>1. ids \in [1..Len(ids) -> Seq(Tokens)] /\ Len(ids) \in Nat
    BY DEF Texts
  <2>2. QED
    BY <2>1, FlattenMembers DEF Flat
<1>2. Selected(Flat(mask), LAMBDA m : m = 1) = In(Flat(mask), {1})
  <2>1. \A m : m = 1 <=> m \in {1}
    OBVIOUS
  <2>2. QED
    BY <2>1 DEF Selected, In
<1>3. Flat(mask) = MaskOf(Flat(ids))
  BY DEF MaskFits
<1>4. QED
  BY <1>1, <1>2, <1>3, CountOnes DEF Sum

\* Unmasked tokens of a concatenation.
LEMMA UnmaskedConcat ==
  ASSUME NEW s \in Seq(Tokens), NEW t \in Seq(Tokens)
  PROVE  Unmasked(s \o t) = Unmasked(s) \o Unmasked(t)
BY InConcat DEF Unmasked

\* What is trained on of a concatenation.
LEMMA TaughtConcat ==
  ASSUME NEW s \in Seq(Tokens), NEW t \in Seq(Tokens)
  PROVE  /\ Taught(s \o t) = Taught(s) \o Taught(t)
         /\ Taught(s) \in Seq(Tokens) /\ Taught(t) \in Seq(Tokens)
<1>1. Unmasked(s \o t) = Unmasked(s) \o Unmasked(t)
  BY UnmaskedConcat
<1>2. Unmasked(s) \in Seq(Tokens) /\ Unmasked(t) \in Seq(Tokens)
  BY UnmaskedType
<1>3. QED
  BY <1>1, <1>2 DEF Taught

\* Adding to each keeps the fit.
LEMMA LogsFitMore ==
  ASSUME NEW l \in Seq(Tokens), NEW s \in Seq(Tokens), LogsFit(l, s),
         NEW m \in Seq(Tokens), NEW t \in Seq(Tokens), LogsFit(m, t)
  PROVE  LogsFit(l \o m, s \o t)
<1> DEFINE a == Taught(s)
           b == Taught(t)
<1>1. Taught(s \o t) = a \o b /\ a \in Seq(Tokens) /\ b \in Seq(Tokens)
  BY TaughtConcat
<1>2. /\ l = a \/ IF TooLong THEN Len(l) > Len(a) ELSE Len(l) < Len(a)
      /\ m = b \/ IF TooLong THEN Len(m) > Len(b) ELSE Len(m) < Len(b)
  BY DEF LogsFit
<1> HIDE DEF a, b
<1>3. Len(l \o m) = Len(l) + Len(m) /\ Len(a \o b) = Len(a) + Len(b)
  BY <1>1
<1>4. Len(l) \in Nat /\ Len(m) \in Nat /\ Len(a) \in Nat /\ Len(b) \in Nat
  BY <1>1
<1>5. l \o m = a \o b \/ IF TooLong THEN Len(l \o m) > Len(a \o b) ELSE Len(l \o m) < Len(a \o b)
  <2>1. CASE l = a /\ m = b
    BY <2>1
  <2>2. CASE ~(l = a /\ m = b) /\ TooLong
    <3>1. Len(l) >= Len(a) /\ Len(m) >= Len(b) /\ (Len(l) > Len(a) \/ Len(m) > Len(b))
      BY <1>2, <1>4, <2>2
    <3>2. QED
      BY <1>3, <1>4, <2>2, <3>1
  <2>3. CASE ~(l = a /\ m = b) /\ ~TooLong
    <3>1. Len(l) <= Len(a) /\ Len(m) <= Len(b) /\ (Len(l) < Len(a) \/ Len(m) < Len(b))
      BY <1>2, <1>4, <2>3
    <3>2. QED
      BY <1>3, <1>4, <2>3, <3>1
  <2>4. QED
    BY <2>1, <2>2, <2>3
<1>6. QED
  BY <1>1, <1>5 DEF LogsFit

\* A turn joined to ids, and its mask joined to theirs, fit if those did.
LEMMA JoinMask ==
  ASSUME NEW ids \in Texts, NEW mask \in Masks, MaskFits(ids, mask), NEW c \in BOOLEAN, NEW d \in Seq(Tokens)
  PROVE  MaskFits(Join(ids, c, d), Join(mask, c, MaskOf(d)))
<1>1. MaskOf(d) \in Seq({0, 1}) /\ Len(MaskOf(d)) = Len(d)
  BY MaskOfType
<1>2. /\ Flat(Join(ids, c, d)) = Flat(ids) \o d /\ Flat(ids) \in Seq(Tokens)
      /\ Flat(Join(mask, c, MaskOf(d))) = Flat(mask) \o MaskOf(d)
  BY <1>1, JoinType DEF Texts, Masks
<1>3. Flat(Join(mask, c, MaskOf(d))) = MaskOf(Flat(Join(ids, c, d)))
  BY <1>2, MaskOfConcat DEF MaskFits
<1>4. Len(mask) = Len(ids) /\ Len(ids) \in Nat /\ (mask = <<>> <=> ids = <<>>)
      /\ \A n \in 1..Len(ids) : Len(mask[n]) = Len(ids[n]) /\ mask[n] \in Seq({0, 1}) /\ ids[n] \in Seq(Tokens)
  BY DEF MaskFits, Texts, Masks
<1>5. DOMAIN Join(mask, c, MaskOf(d)) = DOMAIN Join(ids, c, d)
      /\ \A n \in DOMAIN Join(ids, c, d) : Len(Join(mask, c, MaskOf(d))[n]) = Len(Join(ids, c, d)[n])
  <2> DEFINE md == MaskOf(d)
             k == Len(ids)
  <2>1. CASE c /\ ids # <<>>
    <3> DEFINE ji == [ids EXCEPT ![k] = @ \o d]
               jm == [mask EXCEPT ![k] = @ \o md]
    <3>1. Join(ids, c, d) = ji /\ Join(mask, c, md) = jm
      BY <1>4, <2>1 DEF Join
    <3>2. k \in 1..k /\ DOMAIN ids = 1..k /\ DOMAIN mask = 1..k
      BY <1>4, <2>1 DEF Texts, Masks
    <3>3. DOMAIN ji = 1..k /\ DOMAIN jm = 1..k
      BY <3>2
    <3>4. ASSUME NEW n \in 1..k PROVE Len(jm[n]) = Len(ji[n])
      <4>1. CASE n = k
        <5>1. jm[n] = mask[k] \o md /\ ji[n] = ids[k] \o d
          BY <3>2, <4>1
        <5>2. Len(mask[k] \o md) = Len(mask[k]) + Len(md) /\ Len(ids[k] \o d) = Len(ids[k]) + Len(d)
          <6> HIDE DEF md
          <6>1. mask[k] \in Seq({0, 1}) /\ md \in Seq({0, 1}) /\ ids[k] \in Seq(Tokens)
            BY <1>1, <1>4, <3>2 DEF md
          <6>2. QED
            BY <6>1
        <5>3. QED
          BY <1>1, <1>4, <3>2, <5>1, <5>2
      <4>2. CASE n # k
        BY <1>4, <3>2, <4>2
      <4>3. QED
        BY <4>1, <4>2
    <3>5. QED
      BY <3>1, <3>3, <3>4
  <2>2. CASE ~(c /\ ids # <<>>)
    <3> DEFINE ji == Append(ids, d)
               jm == Append(mask, md)
    <3>1. Join(ids, c, d) = ji /\ Join(mask, c, md) = jm
      BY <1>4, <2>2 DEF Join
    <3>2. /\ DOMAIN ji = 1..(k + 1) /\ DOMAIN jm = 1..(k + 1)
          /\ ji[k + 1] = d /\ jm[k + 1] = md
          /\ \A n \in 1..k : ji[n] = ids[n] /\ jm[n] = mask[n]
      <4> HIDE DEF md
      <4>1. QED
        BY <1>4 DEF Texts, Masks
    <3> HIDE DEF ji, jm
    <3>3. \A n \in 1..(k + 1) : n = k + 1 \/ n \in 1..k
      BY <1>4
    <3>4. \A n \in 1..(k + 1) : Len(jm[n]) = Len(ji[n])
      BY <1>1, <1>4, <3>2, <3>3
    <3>5. QED
      BY <3>1, <3>2, <3>4
  <2>3. QED
    BY <2>1, <2>2
<1>6. QED
  BY <1>3, <1>5 DEF MaskFits

-----------------------------------------------------------------------------
(* What a turn adds.                                                       *)

\* A response is all unmasked.
LEMMA AnswerFits ==
  ASSUME NEW t \in Trajectories, NEW r \in Answers(t)
  PROVE  /\ r \in Seq(Tokens) /\ Len(r) = 2 /\ r # <<>>
         /\ Unmasked(r) = r /\ Ones(r) = MaskOf(r)
         /\ Front(r) \in Seq(Tokens) /\ Unmasked(Front(r)) = Front(r) /\ Len(Front(r)) = 1
         /\ Ones(Front(r)) = MaskOf(Front(r)) /\ Front(r)[1] = r[1]
<1>1. r \in Seq(Tokens) /\ Len(r) = 2 /\ r # <<>> /\ \A n \in 1..2 : r[n].n # 0
  <2>1. r \in Seq(TokensOf(t)) /\ Len(r) = 2 /\ \A n \in 1..2 : r[n].n # 0
    BY DEF Answers
  <2>2. r \in Seq(Tokens)
    BY <2>1 DEF TokensOf
  <2>3. QED
    BY <2>1, <2>2
<1> DEFINE a == r[1]
           b == r[2]
<1>2. a \in Generated /\ b \in Generated /\ a \in Tokens /\ b \in Tokens
  BY <1>1 DEF Generated
<1>3. /\ Front(r) = <<a>> /\ r = Append(<<a>>, b) /\ <<a>> = Append(<<>>, a)
      /\ <<a>> \in Seq(Tokens) /\ <<>> \in Seq(Tokens)
  <2>1. Front(r) = <<a>>
    <3>1. Front(r) = SubSeq(r, 1, 1)
      BY <1>1 DEF Front
    <3>2. SubSeq(r, 1, 1) \in Seq(Tokens) /\ Len(SubSeq(r, 1, 1)) = 1 /\ SubSeq(r, 1, 1)[1] = a
      BY <1>1
    <3>3. <<a>> \in Seq(Tokens) /\ Len(<<a>>) = 1 /\ <<a>>[1] = a
      BY <1>2
    <3> DEFINE x == SubSeq(r, 1, 1)
               y == <<a>>
    <3>x. x \in Seq(Tokens) /\ y \in Seq(Tokens) /\ Len(x) = 1 /\ Len(y) = 1 /\ x[1] = y[1]
      BY <3>2, <3>3
    <3> HIDE DEF a, x, y
    <3>y. \A i \in 1..Len(x) : x[i] = y[i]
      BY <3>x
    <3>z. x = y
      BY <3>x, <3>y, SeqEqual
    <3>4. SubSeq(r, 1, 1) = <<a>>
      BY <3>z DEF x, y
    <3>5. QED
      BY <3>1, <3>4
  <2>2. r = Append(<<a>>, b)
    <3>1. r = <<a, b>>
      BY <1>1
    <3>2. QED
      BY <3>1
  <2>3. <<a>> \in Seq(Tokens) /\ <<>> \in Seq(Tokens) /\ <<a>> = Append(<<>>, a)
    BY <1>2
  <2>4. QED
    BY <2>1, <2>2, <2>3
<1> HIDE DEF a, b
<1>4. Unmasked(<<a>>) = <<a>>
  <2> DEFINE none == <<>>
  <2>0. none \in Seq(Tokens)
    OBVIOUS
  <2> HIDE DEF none
  <2>9. In(Append(none, a), Generated) = In(none, Generated) \o <<a>>
    BY <1>2, <2>0, InAppend
  <2>1. In(Append(<<>>, a), Generated) = In(<<>>, Generated) \o <<a>>
    BY <2>9 DEF none
  <2>2. <<>> \o <<a>> = <<a>>
    BY <1>2
  <2>3. QED
    BY <1>3, <2>1, <2>2, InEmpty DEF Unmasked
<1>5. Unmasked(r) = r
  <2> DEFINE first == <<a>>
  <2>0. first \in Seq(Tokens)
    BY <1>3
  <2> HIDE DEF first
  <2>9. In(Append(first, b), Generated) = In(first, Generated) \o <<b>>
    BY <1>2, <2>0, InAppend
  <2>1. In(Append(<<a>>, b), Generated) = In(<<a>>, Generated) \o <<b>>
    BY <2>9 DEF first
  <2>2. <<a>> \o <<b>> = Append(<<a>>, b)
    BY <1>2
  <2>3. QED
    BY <1>3, <1>4, <2>1, <2>2 DEF Unmasked
<1>6. Ones(r) = MaskOf(r)
  <2>1. DOMAIN r = 1..2
    BY <1>1
  <2>2. QED
    BY <1>1, <2>1 DEF Ones, MaskOf
<1>7. Ones(Front(r)) = MaskOf(Front(r))
  <2>1. a.n # 0
    BY <1>2 DEF Generated
  <2>2. QED
    BY <1>3, <2>1 DEF Ones, MaskOf
<1>8. Front(r)[1] = r[1] /\ Len(Front(r)) = 1
  BY <1>3 DEF a
<1>9. QED
  BY <1>1, <1>3, <1>4, <1>5, <1>6, <1>7, <1>8

\* What step makes of one: a response's beginning and what is masked; its log-probabilities are
\* those of what it kept, or too many or too few as in LogsFit.
LEMMA EditedFits ==
  ASSUME TypeOK, NEW t \in Trajectories, NEW r \in Answers(t), NEW edit \in setup.edits
  PROVE  LET e == Edited(t, r, edit) IN
         /\ e.text \in Seq(Tokens) /\ e.text # <<>> /\ e.text[1] = r[1]
         /\ e.logps \in Seq(Tokens)
         /\ e.mask = MaskOf(e.text)
         /\ IF logprobs THEN e.logps # <<>> ELSE e.logps = <<>>
         /\ setup.ids /\ logprobs /\ ~Cancelling => LogsFit(e.logps, e.text)
<1> DEFINE kept == Kept(r, edit)
           added == Addition(t, edit)
           own == IF setup.logps THEN LogprobsOf(kept) ELSE <<>>
           zeros == [n \in DOMAIN added |-> 0]
           logps == IF own # <<>> THEN own ELSE LogprobsOf(r)
           text == kept \o added
<1>1. /\ r \in Seq(Tokens) /\ Len(r) = 2 /\ r # <<>>
      /\ Unmasked(r) = r /\ Ones(r) = MaskOf(r)
      /\ Front(r) \in Seq(Tokens) /\ Unmasked(Front(r)) = Front(r) /\ Len(Front(r)) = 1
      /\ Ones(Front(r)) = MaskOf(Front(r)) /\ Front(r)[1] = r[1]
  BY AnswerFits
<1>2. Edited(t, r, edit) = [text |-> text, mask |-> Ones(kept) \o zeros, logps |-> logps]
  BY DEF Edited, Kept, Addition
<1>3. /\ kept \in Seq(Tokens) /\ kept # <<>> /\ kept[1] = r[1]
      /\ Unmasked(kept) = kept /\ Ones(kept) = MaskOf(kept)
      /\ kept = r \/ (Len(r) > Len(kept) /\ edit \in Cuts)
  <2>1. CASE edit \in Cuts
    <3>1. kept = Front(r)
      BY <2>1 DEF Kept
    <3> HIDE DEF kept
    <3>2. Len(kept) = 1 /\ kept \in Seq(Tokens) /\ Len(r) = 2
      BY <1>1, <3>1
    <3>4. Len(r) > Len(kept) /\ kept # <<>>
      <4>1. Len(r) > Len(kept)
        BY <3>2
      <4>2. kept # <<>>
        BY <3>2
      <4>3. QED
        BY <4>1, <4>2
    <3>3. QED
      BY <1>1, <2>1, <3>1, <3>4
  <2>2. CASE edit \notin Cuts
    <3>1. kept = r
      BY <2>2 DEF Kept
    <3> HIDE DEF kept
    <3>2. QED
      BY <1>1, <3>1
  <2>3. QED
    BY <2>1, <2>2
<1>4. /\ added \in Seq(Tokens) /\ MaskOf(added) = zeros /\ Unmasked(added) = <<>>
      /\ added = <<>> \/ (Len(added) = 1 /\ edit \in Additions)
  <2> DEFINE a == Added(t)
  <2>1. a \in Tokens /\ a.n = 0
    BY DEF Added, Token, Tokens, TypeOK
  <2>2. CASE edit \in Additions
    <3>1. added = <<a>>
      BY <2>2 DEF Addition
    <3>2. MaskOf(added) = zeros
      BY <2>1, <3>1 DEF MaskOf
    <3>3. Unmasked(<<a>>) = <<>>
      <4> DEFINE none == <<>>
      <4>1. none \in Seq(Tokens) /\ Append(none, a) = <<a>> /\ none \o <<>> = none
        BY <2>1
      <4>2. a \notin Generated
        BY <2>1 DEF Generated
      <4> HIDE DEF none, a
      <4>3. In(Append(none, a), Generated) = In(none, Generated) \o <<>>
        BY <2>1, <4>1, <4>2, InAppend
      <4>4. In(none, Generated) = none
        BY InEmpty DEF none
      <4>5. In(<<a>>, Generated) = none
        BY <4>1, <4>3, <4>4
      <4>6. QED
        BY <4>5 DEF Unmasked, none
    <3> HIDE DEF a
    <3>4. <<a>> \in Seq(Tokens) /\ Len(<<a>>) = 1
      BY <2>1
    <3>5. QED
      BY <2>2, <3>1, <3>2, <3>3, <3>4
  <2>3. CASE edit \notin Additions
    <3>1. added = <<>>
      BY <2>3 DEF Addition
    <3>2. QED
      BY <3>1, InEmpty DEF MaskOf, Unmasked
  <2>4. QED
    BY <2>2, <2>3
<1> HIDE DEF kept, added, zeros
<1>5. /\ text \in Seq(Tokens) /\ text # <<>> /\ text[1] = r[1]
      /\ Len(text) = Len(kept) + Len(added) /\ (added = <<>> => text = kept)
  BY <1>3, <1>4
<1>6. MaskOf(text) = Ones(kept) \o zeros
  BY <1>3, <1>4, MaskOfConcat
<1>7. Unmasked(text) = kept
  <2>1. Unmasked(text) = Unmasked(kept) \o Unmasked(added)
    BY <1>3, <1>4, UnmaskedConcat
  <2>2. QED
    BY <1>3, <1>4, <2>1
<1>8. logps = IF logprobs THEN (IF setup.logps THEN kept ELSE r) ELSE <<>>
  BY <1>3 DEF LogprobsOf
<1> HIDE DEF text, logps
<1>9. ASSUME setup.ids, logprobs, ~Cancelling
      PROVE  LogsFit(logps, text)
  <2>1. logps = kept \/ (logps = r /\ ~setup.logps)
    BY <1>8, <1>9
  <2>2. CASE setup.mask
    <3>1. Taught(text) = kept /\ TooLong
      BY <1>7, <2>2 DEF Taught, TooLong
    <3>2. QED
      BY <1>3, <2>1, <3>1 DEF LogsFit
  <2>3. CASE ~setup.mask /\ setup.edits \cap Additions = {}
    <3>1. added = <<>>
      BY <1>4, <2>3
    <3>2. Taught(text) = kept /\ TooLong
      BY <1>5, <2>3, <3>1 DEF Taught, TooLong
    <3>3. QED
      BY <1>3, <2>1, <3>2 DEF LogsFit
  <2>4. CASE ~setup.mask /\ setup.edits \cap Additions # {}
    <3>1. Taught(text) = text /\ ~TooLong
      BY <2>4 DEF Taught, TooLong
    <3>2. setup.logps \/ setup.edits \cap Cuts = {}
      BY <1>9, <2>4 DEF Cancelling
    <3>3. logps = kept
      BY <1>3, <2>1, <3>2
    <3>4. logps = text \/ Len(logps) < Len(text)
      BY <1>3, <1>4, <1>5, <3>3
    <3>5. QED
      BY <3>1, <3>4 DEF LogsFit
  <2>5. QED
    BY <2>2, <2>3, <2>4
<1>10. logprobs => logps # <<>>
  BY <1>1, <1>3, <1>8
<1>11. logps \in Seq(Tokens) /\ (~logprobs => logps = <<>>)
  BY <1>1, <1>3, <1>8
<1>12. QED
  BY <1>2, <1>5, <1>6, <1>9, <1>10, <1>11

-----------------------------------------------------------------------------
(* The data of a trajectory that goes on, and of one that has ended.       *)

\* The last message is of an earlier turn than u.
Opened(s, u) == s # <<>> /\ Last(s) # <<>> /\ Last(s)[1].turn < u

\* s: what was said; o: open; u: the turn; i, m, l: ids, mask and log-probabilities.
DataFits(s, o, u, i, m, l) ==
  /\ ~setup.ids => i = <<>> /\ ~o
  /\ setup.ids => i = s /\ (i = <<>> <=> u = 1)
  /\ IF setup.mask THEN MaskFits(i, m) ELSE m = <<>>
  /\ ~logprobs => l = <<>>
  /\ setup.ids /\ logprobs => /\ i # <<>> => Flat(l) # <<>>
                              /\ ~Cancelling => LogsFit(Flat(l), Flat(i))
  /\ o => Opened(s, u)

\* Each turn's ids are in the place of its message.
InPlace(s, i) ==
  \/ i = s
  \/ \E earlier \in Texts, r \in Seq(Tokens) : s = Append(earlier, r) /\ i = <<r>>

\* The one mask that is not as long as the ids: of a last turn that opened a message.
OneMask(s, u) == setup.ids /\ ~setup.mask /\ u > 1 /\ Last(s)[1].turn = u
MaskInPlace(s, u, i, m) ==
  /\ OneMask(s, u) => m # <<>> /\ Len(m) # Len(i)
  /\ ~OneMask(s, u) => m = <<>> \/ MaskFits(i, m)
  /\ setup.mask => MaskFits(i, m)

\* How many log-probabilities there should be; as many are those of the tokens trained on.
Number(d) == IF d.mask # <<>> THEN Sum(d.mask) ELSE Len(Flat(d.ids))
Counted(d) ==
  d.logps = <<>> \/ (Len(Flat(d.logps)) = Number(d) => Flat(d.logps) = Taught(Flat(d.ids)))

OutputFits(s, u, out) ==
  /\ out \in Outputs
  /\ setup.driver = "colocate" => InPlace(s, out.ids) /\ MaskInPlace(s, u, out.ids, out.mask)
  /\ ~Cancelling /\ out.logps # <<>> => Flat(out.logps) = Taught(Flat(out.ids))

\* The tokens trained on, without an operator as an argument.
LEMMA LearnedIs ==
  ASSUME NEW s \in Seq(Tokens)
  PROVE  Learned(s) = Taught(s)
<1>1. \A n \in DOMAIN s : s[n] \in Tokens
  OBVIOUS
<1>2. [n \in DOMAIN s |-> IF s[n] \in Generated THEN <<s[n]>> ELSE <<>>] =
      [n \in DOMAIN s |-> IF s[n].n # 0 THEN <<s[n]>> ELSE <<>>]
  BY <1>1 DEF Generated
<1>3. QED
  BY <1>2 DEF Learned, Taught, Unmasked, In, Selected

\* The ids of an output, one after the other.
LEMMA FlatType ==
  ASSUME NEW ids \in Texts
  PROVE  Flat(ids) \in Seq(Tokens)
<1>1. ids \in [1..Len(ids) -> Seq(Tokens)] /\ Len(ids) \in Nat
  BY DEF Texts
<1>2. QED
  BY <1>1, FlattenMembers DEF Flat

\* An output that fits is trained as it was said.
LEMMA FitsTrained ==
  ASSUME TypeOK, NEW t \in Trajectories, OutputFits(said[t], current_turn[t], rollout_output[t])
  PROVE  /\ setup.driver = "colocate" => AsSaid(t)
         /\ ~Cancelling => LogprobsAligned(t)
<1> DEFINE out == rollout_output[t]
           ids == out.ids
           mask == out.mask
<1>1. /\ ids \in Texts /\ mask \in Masks /\ out.logps \in Texts /\ said[t] \in Texts
      /\ setup.driver = "colocate" => InPlace(said[t], ids) /\ MaskInPlace(said[t], current_turn[t], ids, mask)
      /\ ~Cancelling /\ out.logps # <<>> => Flat(out.logps) = Taught(Flat(ids))
  BY DEF OutputFits, Outputs, Masks, TypeOK
<1> HIDE DEF ids, mask
<1>2. Flat(ids) \in Seq(Tokens) /\ Learned(Flat(ids)) = Taught(Flat(ids))
  BY <1>1, FlatType, LearnedIs
<1>3. ~Cancelling => LogprobsAligned(t)
  BY <1>1, <1>2 DEF LogprobsAligned, ids
<1>4. ASSUME setup.driver = "colocate"
      PROVE  AsSaid(t)
  <2>1. InPlace(said[t], ids) /\ MaskInPlace(said[t], current_turn[t], ids, mask)
    BY <1>1, <1>4
  <2>2. TrainedOn(t) = said[t]
    <3> DEFINE s == said[t]
               kept == Len(s) - Len(ids)
               on == [n \in DOMAIN s |-> IF n > kept THEN ids[n - kept] ELSE s[n]]
    <3>1. TrainedOn(t) = on
      BY DEF TrainedOn, ids
    <3>2. s \in Seq(Seq(Tokens)) /\ DOMAIN s = 1..Len(s) /\ Len(s) \in Nat
      BY <1>1 DEF Texts
    <3>e. s = [n \in DOMAIN s |-> s[n]] /\ DOMAIN on = DOMAIN s
      <4>1. DOMAIN on = DOMAIN s
        OBVIOUS
      <4> HIDE DEF on, s
      <4>2. s \in [1..Len(s) -> Seq(Tokens)]
        BY <3>2
      <4>3. QED
        BY <4>1, <4>2
    <3>3. CASE ids = s
      <4>1. kept = 0
        BY <3>2, <3>3
      <4>2. \A n \in 1..Len(s) : on[n] = s[n]
        BY <3>2, <3>3, <4>1
      <4>3. QED
        BY <3>1, <3>2, <3>e, <4>2
    <3>4. CASE \E earlier \in Texts, r \in Seq(Tokens) : s = Append(earlier, r) /\ ids = <<r>>
      <4>1. PICK earlier \in Texts, r \in Seq(Tokens) : s = Append(earlier, r) /\ ids = <<r>>
        BY <3>4
      <4> HIDE DEF s
      <4>2. Len(s) = Len(earlier) + 1 /\ s[Len(s)] = r /\ Len(earlier) \in Nat
        BY <4>1 DEF Texts
      <4>3. kept = Len(s) - 1 /\ ids[1] = r
        BY <3>2, <4>1, <4>2
      <4>4. \A n \in 1..Len(s) : n > kept => n = Len(s) /\ n - kept = 1
        <5> HIDE DEF kept
        <5>1. QED
          BY <4>2, <4>3
      <4>5. \A n \in 1..Len(s) : on[n] = s[n]
        BY <3>2, <4>2, <4>3, <4>4
      <4>6. on = s
        BY <3>2, <3>e, <4>5
      <4>7. QED
        BY <3>1, <4>6 DEF s
    <3>5. QED
      BY <2>1, <3>3, <3>4 DEF InPlace
  <2>3. MaskAccepted(t) <=> ~OneMask(said[t], current_turn[t])
    <3> DEFINE lens(s) == [n \in DOMAIN s |-> Len(s[n])]
    <3>1. MaskAccepted(t) <=> (mask # <<>> => lens(mask) = lens(ids))
      BY DEF MaskAccepted, ids, mask
    <3>2. CASE OneMask(said[t], current_turn[t])
      <4>1. mask # <<>> /\ Len(mask) # Len(ids)
        BY <2>1, <3>2 DEF MaskInPlace
      <4>2. DOMAIN mask # DOMAIN ids
        <5>1. /\ DOMAIN mask = 1..Len(mask) /\ DOMAIN ids = 1..Len(ids)
              /\ Len(mask) \in Nat /\ Len(ids) \in Nat
          BY <1>1 DEF Masks, Texts
        <5>2. \A a, b \in Nat : 1..a = 1..b => a = b
          <6>1. \A a, b \in Nat : a < b => b \in 1..b /\ b \notin 1..a
            OBVIOUS
          <6>2. \A a, b \in Nat : a = b \/ a < b \/ b < a
            OBVIOUS
          <6>3. QED
            BY <6>1, <6>2
        <5>3. QED
          BY <4>1, <5>1, <5>2
      <4>3. DOMAIN lens(mask) = DOMAIN mask /\ DOMAIN lens(ids) = DOMAIN ids
        OBVIOUS
      <4> HIDE DEF lens
      <4>4. QED
        BY <3>1, <3>2, <4>1, <4>2, <4>3
    <3>3. CASE ~OneMask(said[t], current_turn[t])
      <4>1. mask = <<>> \/ MaskFits(ids, mask)
        BY <2>1, <3>3 DEF MaskInPlace
      <4>2. MaskFits(ids, mask) => lens(mask) = lens(ids)
        BY DEF MaskFits
      <4>3. QED
        BY <3>1, <3>3, <4>1, <4>2
    <3>4. QED
      BY <3>2, <3>3
  <2>4. setup.mask =>
          \A n \in DOMAIN Flat(ids) : Flat(mask)[n] = (IF Flat(ids)[n].n = 0 THEN 0 ELSE 1)
    BY <2>1 DEF MaskInPlace, MaskFits, MaskOf
  <2>5. OneMask(said[t], current_turn[t]) <=> setup.ids /\ ~setup.mask /\ OwnMessage(t)
    BY DEF OneMask, OwnMessage
  <2>6. QED
    BY <2>2, <2>3, <2>4, <2>5 DEF AsSaid, ids, mask
<1>5. QED
  BY <1>3, <1>4

\* As many log-probabilities as expected are those of the tokens trained on.
LEMMA CompleteFits ==
  ASSUME NEW data \in Outputs, ~Cancelling => Counted(data)
  PROVE  /\ Complete(data) \in Outputs
         /\ Complete(data).ids = data.ids /\ Complete(data).mask = data.mask
         /\ ~Cancelling /\ Complete(data).logps # <<>> =>
              Flat(Complete(data).logps) = Taught(Flat(data.ids))
<1>1. Complete(data) \in Outputs
  BY CompleteType
<1>2. CASE Len(Flat(data.logps)) = Number(data)
  <2>1. Complete(data) = data
    BY <1>2 DEF Complete, Number
  <2>2. QED
    BY <1>1, <1>2, <2>1 DEF Counted
<1>3. CASE Len(Flat(data.logps)) # Number(data)
  <2>1. Complete(data) = [data EXCEPT !.logps = <<>>]
    BY <1>3 DEF Complete, Number
  <2>2. QED
    BY <1>1, <2>1 DEF Outputs
<1>4. QED
  BY <1>2, <1>3

-----------------------------------------------------------------------------
(* What a turn makes of the data of a trajectory.                          *)

\* Before the first turn there is nothing, and it fits.
LEMMA NothingFits ==
  /\ <<>> \in Texts /\ <<>> \in Masks /\ Flat(<<>>) = <<>>
  /\ MaskFits(<<>>, <<>>) /\ LogsFit(<<>>, <<>>)
<1>1. <<>> \in Texts /\ <<>> \in Masks
  BY DEF Texts, Masks
<1>2. Flat(<<>>) = <<>>
  BY DEF Flat, FlattenSeq
<1>3. MaskOf(<<>>) = <<>>
  BY DEF MaskOf
<1>4. MaskFits(<<>>, <<>>)
  BY <1>2, <1>3 DEF MaskFits
<1>5. Unmasked(<<>>) = <<>>
  BY InEmpty DEF Unmasked
<1>6. QED
  BY <1>1, <1>2, <1>4, <1>5 DEF LogsFit, Taught

\* A turn's data joined to data that fit.
LEMMA JoinFits ==
  ASSUME NEW i \in Texts, NEW m \in Masks, MaskFits(i, m), NEW c \in BOOLEAN, NEW d \in Seq(Tokens)
  PROVE  /\ Join(i, c, d) \in Texts
         /\ Join(m, c, MaskOf(d)) \in Masks /\ Join(m, c, MaskOf(d)) # <<>>
         /\ MaskFits(Join(i, c, d), Join(m, c, MaskOf(d)))
<1>1. MaskOf(d) \in Seq({0, 1})
  BY MaskOfType
<1>2. QED
  BY <1>1, JoinType, JoinMask DEF Texts, Masks

\* Log-probabilities that are not too few stay so when a turn is joined.
LEMMA JoinLogs ==
  ASSUME NEW i \in Texts, NEW l \in Texts, LogsFit(Flat(l), Flat(i)), NEW c \in BOOLEAN,
         NEW d \in Seq(Tokens), NEW e \in Seq(Tokens), LogsFit(e, d)
  PROVE  Join(l, c, e) \in Texts /\ LogsFit(Flat(Join(l, c, e)), Flat(Join(i, c, d)))
<1>1. /\ Join(l, c, e) \in Texts
      /\ Flat(Join(l, c, e)) = Flat(l) \o e /\ Flat(l) \in Seq(Tokens)
      /\ Flat(Join(i, c, d)) = Flat(i) \o d /\ Flat(i) \in Seq(Tokens)
  BY JoinType DEF Texts
<1>2. LogsFit(Flat(l) \o e, Flat(i) \o d)
  BY <1>1, LogsFitMore
<1>3. QED
  BY <1>1, <1>2

\* One turn, not masked.
LEMMA OneTurn ==
  ASSUME NEW r \in Seq(Tokens), Ones(r) = MaskOf(r)
  PROVE  /\ MaskFits(<<r>>, <<Ones(r)>>) /\ Flat(<<r>>) = r
         /\ <<r>> \in Texts /\ <<Ones(r)>> \in Masks
<1> DEFINE none == <<>>
           no == FALSE
<1>1. /\ none \in Texts /\ none \in Masks /\ MaskFits(none, none) /\ Flat(none) = none
      /\ no \in BOOLEAN /\ none \o r = r
  BY NothingFits
<1>2. Join(none, no, r) = <<r>> /\ Join(none, no, Ones(r)) = <<Ones(r)>>
  BY DEF Join
<1> HIDE DEF none, no
<1>3. /\ MaskFits(Join(none, no, r), Join(none, no, Ones(r)))
      /\ Join(none, no, r) \in Texts /\ Join(none, no, Ones(r)) \in Masks
      /\ Flat(Join(none, no, r)) = Flat(none) \o r
  BY <1>1, JoinFits, JoinType DEF Texts
<1>4. QED
  BY <1>1, <1>2, <1>3

\* The last message after a turn's has been joined.
LEMMA JoinLast ==
  ASSUME NEW s \in Texts, NEW c \in BOOLEAN, NEW d \in Seq(Tokens), d # <<>>,
         c => s # <<>> /\ Last(s) # <<>>
  PROVE  /\ Join(s, c, d) \in Texts /\ Join(s, c, d) # <<>>
         /\ Last(Join(s, c, d)) # <<>>
         /\ Last(Join(s, c, d))[1] = IF c THEN Last(s)[1] ELSE d[1]
<1>1. s \in Seq(Seq(Tokens)) /\ Len(s) \in Nat
  BY DEF Texts
<1>2. CASE c
  <2> DEFINE n == Len(s)
             l == s[n]
             j == [s EXCEPT ![n] = @ \o d]
  <2>1. n \in 1..n /\ l \in Seq(Tokens) /\ l # <<>> /\ Last(s) = l
    BY <1>1, <1>2 DEF Last
  <2>2. Join(s, c, d) = j
    BY <1>2 DEF Join
  <2>3. l \o d \in Seq(Tokens) /\ l \o d # <<>> /\ (l \o d)[1] = l[1]
    <3> HIDE DEF l
    <3>1. QED
      BY <2>1
  <2>4. j \in Seq(Seq(Tokens)) /\ Len(j) = n /\ j[n] = l \o d
    BY <1>1, <2>1, <2>3
  <2> HIDE DEF j, l, n
  <2>5. j # <<>> /\ Last(j) = l \o d
    BY <2>1, <2>4 DEF Last
  <2>6. QED
    BY <1>2, <2>1, <2>2, <2>3, <2>4, <2>5 DEF Texts
<1>3. CASE ~c
  <2> DEFINE j == Append(s, d)
  <2>1. Join(s, c, d) = j
    BY <1>3 DEF Join
  <2>2. j \in Seq(Seq(Tokens)) /\ Len(j) = Len(s) + 1 /\ j[Len(s) + 1] = d
    BY <1>1
  <2> HIDE DEF j
  <2>3. j # <<>> /\ Last(j) = d
    BY <1>1, <2>2 DEF Last
  <2>4. QED
    BY <1>3, <2>1, <2>2, <2>3 DEF Texts
<1>4. QED
  BY <1>2, <1>3

\* Log-probabilities that fit are counted right, with a mask that fits or with none.
LEMMA FitsCounted ==
  ASSUME NEW d \in Outputs, LogsFit(Flat(d.logps), Flat(d.ids)),
         IF setup.mask THEN MaskFits(d.ids, d.mask) /\ d.mask # <<>> ELSE d.mask = <<>>
  PROVE  Counted(d)
<1>1. d.ids \in Texts /\ d.mask \in Masks /\ Flat(d.ids) \in Seq(Tokens)
  BY FlatType DEF Outputs, Masks
<1>2. Number(d) = Len(Taught(Flat(d.ids)))
  <2>1. CASE setup.mask
    BY <1>1, <2>1, SumIs DEF Number, Taught
  <2>2. CASE ~setup.mask
    BY <2>2 DEF Number, Taught
  <2>3. QED
    BY <2>1, <2>2
<1>3. Len(Taught(Flat(d.ids))) \in Nat
  <2>1. Taught(Flat(d.ids)) \in Seq(Tokens)
    BY <1>1, UnmaskedType DEF Taught
  <2>2. QED
    BY <2>1
<1>4. QED
  BY <1>2, <1>3 DEF Counted, LogsFit

\* The last turn of a trajectory whose data fit.
LEMMA CollectedFits ==
  ASSUME TypeOK, NEW t \in Trajectories, NEW r \in AnswersNow(t),
         DataFits(said[t], open[t], current_turn[t], response_token_ids[t], response_loss_mask[t],
                  rollout_logprobs[t]),
         NEW d, d = Collected(t, r)
  PROVE  /\ d \in Outputs /\ (~Cancelling => Counted(d))
         /\ setup.driver = "colocate" =>
              /\ InPlace(Join(said[t], open[t], r), d.ids)
              /\ MaskInPlace(Join(said[t], open[t], r), current_turn[t], d.ids, d.mask)
<1> DEFINE s == said[t]
           o == open[t]
           u == current_turn[t]
           i == response_token_ids[t]
           m == response_loss_mask[t]
           l == rollout_logprobs[t]
           new == LogprobsOf(r)
<1>1. /\ s \in Texts /\ o \in BOOLEAN /\ u \in 1..MaxTurns /\ i \in Texts /\ m \in Masks /\ l \in Texts
      /\ setup.ids \in BOOLEAN /\ setup.mask \in BOOLEAN /\ (setup.mask => setup.ids)
      /\ logprobs \in BOOLEAN /\ MaxTurns \in Nat
  BY SetupFacts, MultiTurnAssumption DEF TypeOK, Masks
<1>2. /\ r \in Seq(Tokens) /\ r # <<>> /\ Len(r) = 2 /\ Unmasked(r) = r /\ Ones(r) = MaskOf(r)
      /\ new = (IF logprobs THEN r ELSE <<>>) /\ r[1].turn = u
      /\ Taught(r) = r /\ LogsFit(r, r)
  BY AnswerFits DEF LogprobsOf, LogsFit, Taught, AnswersNow, OfThisTurn
<1>3. d \in Outputs
  BY <1>2, CollectedType
<1>4. /\ ~setup.ids => i = <<>> /\ ~o
      /\ setup.ids => i = s /\ (i = <<>> <=> u = 1)
      /\ IF setup.mask THEN MaskFits(i, m) ELSE m = <<>>
      /\ ~logprobs => l = <<>>
      /\ setup.ids /\ logprobs => /\ i # <<>> => Flat(l) # <<>>
                                  /\ ~Cancelling => LogsFit(Flat(l), Flat(i))
      /\ o => Opened(s, u)
  BY DEF DataFits
<1>5. CASE i = <<>>
  <2> DEFINE none == <<>>
             no == FALSE
  <2>1. d = [ids |-> <<r>>, mask |-> <<Ones(r)>>, logps |-> IF new = <<>> THEN l ELSE <<new>>]
    BY <1>5 DEF Collected
  <2>2. none \in Texts /\ none \in Masks /\ MaskFits(none, none) /\ Flat(none) = none /\ no \in BOOLEAN
    BY NothingFits
  <2>3. Join(none, no, r) = <<r>> /\ Join(none, no, Ones(r)) = <<Ones(r)>>
    BY DEF Join
  <2>4. Join(s, o, r) = Append(s, r)
    BY <1>1, <1>4, <1>5 DEF Join
  <2>s. setup.ids => s = none
    BY <1>4, <1>5
  <2>o. ~OneMask(Append(s, r), u)
    BY <1>1, <1>4, <1>5 DEF OneMask
  <2> HIDE DEF none, no, s, o, u, i, m, l, new
  <2>5. /\ MaskFits(Join(none, no, r), Join(none, no, Ones(r)))
        /\ Flat(Join(none, no, r)) = Flat(none) \o r
    BY <1>2, <2>2, JoinFits, JoinType DEF Texts
  <2>6. MaskFits(<<r>>, <<Ones(r)>>) /\ Flat(<<r>>) = r
    <3>1. none \o r = r
      BY <1>2 DEF none
    <3>2. QED
      BY <2>2, <2>3, <2>5, <3>1
  <2>7. InPlace(Append(s, r), <<r>>) /\ MaskInPlace(Append(s, r), u, <<r>>, <<Ones(r)>>)
    BY <1>1, <1>2, <2>6, <2>o DEF InPlace, MaskInPlace
  <2>8. Counted(d)
    <3>1. CASE logprobs
      <4>1. d.logps = <<r>> /\ d.ids = <<r>>
        BY <1>2, <2>1, <3>1
      <4>2. QED
        BY <1>2, <2>6, <4>1 DEF Counted
    <3>2. CASE ~logprobs
      <4>1. d.logps = <<>>
        BY <1>2, <1>4, <2>1, <3>2
      <4>2. QED
        BY <4>1 DEF Counted
    <3>3. QED
      BY <3>1, <3>2
  <2>9. QED
    BY <1>3, <2>1, <2>4, <2>7, <2>8 DEF s, o, u
<1>6. CASE i # <<>>
  <2>1. /\ setup.ids /\ i = s /\ u > 1 /\ (~logprobs => l = <<>>)
        /\ logprobs => Flat(l) # <<>> /\ l # <<>> /\ (~Cancelling => LogsFit(Flat(l), Flat(i)))
    <3>1. Flat(<<>>) = <<>>
      BY NothingFits
    <3>2. QED
      BY <1>1, <1>4, <1>6, <3>1
  <2>2. setup.mask => MaskFits(i, m) /\ m # <<>>
    BY <1>1, <1>4, <1>6 DEF MaskFits, Texts, Masks
  <2>m. ~setup.mask => m = <<>>
    BY <1>4
  <2>3. CASE o
    <3> DEFINE yes == TRUE
    <3>1. d = [ids |-> Join(i, yes, r), mask |-> IF m = <<>> THEN m ELSE Join(m, yes, Ones(r)),
               logps |-> IF l = <<>> \/ new = <<>> THEN l ELSE Join(l, yes, new)]
      BY <1>6, <2>3 DEF Collected
    <3>2. yes \in BOOLEAN /\ yes = o
      BY <1>1, <2>3
    <3>o. ~OneMask(Join(s, o, r), u)
      <4>1. Opened(s, u)
        BY <1>4, <2>3
      <4>2. Last(Join(s, o, r))[1] = Last(s)[1]
        BY <1>1, <1>2, <2>3, <4>1, JoinLast DEF Opened
      <4>3. Last(s)[1].turn # u
        <5>1. s \in Seq(Seq(Tokens)) /\ s # <<>>
          BY <1>1, <4>1 DEF Texts, Opened
        <5>2. Last(s) \in Seq(Tokens) /\ Last(s) # <<>> /\ Last(s)[1].turn < u
          BY <4>1, <5>1 DEF Opened, Last
        <5>3. Last(s)[1] \in Tokens
          BY <5>2
        <5>4. Last(s)[1].turn \in 1..MaxTurns
          BY <5>3 DEF Tokens
        <5>5. QED
          BY <1>1, <5>2, <5>4
      <4>4. QED
        BY <4>2, <4>3 DEF OneMask
    <3> HIDE DEF yes, s, o, u, i, m, l, new
    <3>3. IF setup.mask THEN MaskFits(d.ids, d.mask) /\ d.mask # <<>> ELSE d.mask = <<>>
      <4>1. CASE setup.mask
        <5>1. MaskFits(Join(i, yes, r), Join(m, yes, Ones(r))) /\ Join(m, yes, Ones(r)) # <<>>
          BY <1>1, <1>2, <2>2, <3>2, <4>1, JoinFits
        <5>2. QED
          BY <2>2, <3>1, <4>1, <5>1
      <4>2. CASE ~setup.mask
        BY <2>m, <3>1, <4>2
      <4>3. QED
        BY <4>1, <4>2
    <3>4. ~Cancelling => Counted(d)
      <4>1. CASE logprobs /\ ~Cancelling
        <5>1. LogsFit(Flat(Join(l, yes, r)), Flat(Join(i, yes, r)))
          BY <1>1, <1>2, <2>1, <3>2, <4>1, JoinLogs
        <5>2. d.logps = Join(l, yes, r) /\ d.ids = Join(i, yes, r)
          BY <1>2, <2>1, <3>1, <4>1
        <5>3. QED
          BY <1>3, <3>3, <5>1, <5>2, FitsCounted
      <4>2. CASE ~logprobs
        <5>1. d.logps = <<>>
          BY <1>2, <2>1, <3>1, <4>2
        <5>2. QED
          BY <5>1 DEF Counted
      <4>3. QED
        BY <4>1, <4>2
    <3>5. InPlace(Join(s, o, r), d.ids)
      BY <2>1, <3>1, <3>2 DEF InPlace
    <3>6. MaskInPlace(Join(s, o, r), u, d.ids, d.mask)
      BY <3>3, <3>o DEF MaskInPlace
    <3>7. QED
      BY <1>3, <3>4, <3>5, <3>6 DEF s, o, u
  <2>4. CASE ~o /\ HasOwnTurn
    <3> DEFINE no == FALSE
    <3>1. d = [ids |-> Append(i, r), mask |-> Append(m, Ones(r)),
               logps |-> IF new = <<>> THEN l ELSE Append(l, new)]
      BY <1>6, <2>4 DEF Collected
    <3>2. no \in BOOLEAN /\ no = o
      BY <1>1, <2>4
    <3>3. /\ Append(i, r) = Join(i, no, r) /\ Append(m, Ones(r)) = Join(m, no, Ones(r))
          /\ Append(l, new) = Join(l, no, new)
      BY DEF Join
    <3>o. OneMask(Join(s, o, r), u) <=> ~setup.mask
      <4>1. Last(Join(s, o, r))[1] = r[1]
        BY <1>1, <1>2, <2>4, JoinLast
      <4>2. QED
        BY <1>2, <2>1, <4>1 DEF OneMask
    <3> HIDE DEF no, s, o, u, i, m, l, new
    <3>4. InPlace(Join(s, o, r), d.ids)
      BY <2>1, <3>1, <3>2, <3>3 DEF InPlace
    <3>l. logprobs => d.logps = Join(l, no, r) /\ d.ids = Join(i, no, r)
      BY <1>2, <3>1, <3>3
    <3>n. ~logprobs => Counted(d)
      <4>1. ~logprobs => d.logps = <<>>
        BY <1>2, <2>1, <3>1
      <4>2. QED
        BY <4>1 DEF Counted
    <3>5. CASE setup.mask
      <4>1. MaskFits(d.ids, d.mask) /\ d.mask # <<>>
        BY <1>1, <1>2, <2>2, <3>1, <3>2, <3>3, <3>5, JoinFits
      <4>2. MaskInPlace(Join(s, o, r), u, d.ids, d.mask)
        BY <3>5, <3>o, <4>1 DEF MaskInPlace
      <4>3. logprobs /\ ~Cancelling => Counted(d)
        <5>1. ASSUME logprobs, ~Cancelling
              PROVE  LogsFit(Flat(d.logps), Flat(d.ids))
          BY <1>1, <1>2, <2>1, <3>2, <3>l, <5>1, JoinLogs
        <5>2. QED
          BY <1>3, <3>5, <4>1, <5>1, FitsCounted
      <4>4. QED
        BY <1>3, <3>4, <3>n, <4>2, <4>3 DEF s, o, u
    <3>6. CASE ~setup.mask
      <4>1. d.mask = <<Ones(r)>> /\ d.ids = Append(s, r)
        <5>1. m = <<>> /\ Append(<<>>, Ones(r)) = <<Ones(r)>>
          BY <2>m, <3>6
        <5>2. QED
          BY <2>1, <3>1, <5>1
      <4>2. Len(d.mask) = 1 /\ d.mask # <<>> /\ Len(d.ids) = Len(s) + 1 /\ Len(s) \in Nat \ {0}
        <5>1. s \in Seq(Seq(Tokens)) /\ s # <<>>
          BY <1>1, <1>6, <2>1 DEF Texts
        <5>2. QED
          BY <1>2, <4>1, <5>1
      <4>3. MaskInPlace(Join(s, o, r), u, d.ids, d.mask)
        BY <3>6, <3>o, <4>2 DEF MaskInPlace
      <4>4. logprobs => Len(Flat(d.logps)) # Number(d)
        <5>1. ASSUME logprobs
              PROVE  Len(Flat(d.logps)) # Number(d)
          <6>1. Flat(Join(l, no, r)) = Flat(l) \o r /\ Flat(l) \in Seq(Tokens)
            BY <1>1, <1>2, <3>2, JoinType DEF Texts
          <6>2. Len(Flat(d.logps)) = Len(Flat(l)) + 2 /\ Len(Flat(l)) \in Nat \ {0}
            <7>1. Flat(d.logps) = Flat(l) \o r
              BY <3>l, <5>1, <6>1
            <7>2. Len(r) = 2 /\ r \in Seq(Tokens) /\ Flat(l) # <<>>
              BY <1>2, <2>1, <5>1
            <7>3. \A f, g \in Seq(Tokens) : f # <<>> =>
                    Len(f \o g) = Len(f) + Len(g) /\ Len(f) \in Nat \ {0}
              OBVIOUS
            <7>4. QED
              BY <6>1, <7>1, <7>2, <7>3
          <6>3. Number(d) = 2
            <7>1. MaskFits(<<r>>, <<Ones(r)>>) /\ Flat(<<r>>) = r
                  /\ <<r>> \in Texts /\ <<Ones(r)>> \in Masks
              BY <1>2, OneTurn
            <7>2. Sum(<<Ones(r)>>) = 2
              BY <1>2, <7>1, SumIs
            <7>3. QED
              BY <4>1, <4>2, <7>2 DEF Number
          <6>4. QED
            BY <6>2, <6>3
        <5>2. QED
          BY <5>1
      <4>5. Counted(d)
        BY <3>n, <4>4 DEF Counted
      <4>6. QED
        BY <1>3, <3>4, <4>3, <4>5 DEF s, o, u
    <3>7. QED
      BY <1>1, <3>5, <3>6
  <2>5. CASE ~o /\ ~HasOwnTurn
    <3>1. d = [ids |-> i, mask |-> m, logps |-> l] /\ setup.driver # "colocate"
      BY <1>6, <2>5 DEF Collected, HasOwnTurn
    <3>2. ~Cancelling => Counted(d)
      <4>1. CASE logprobs /\ ~Cancelling
        <5>1. LogsFit(Flat(d.logps), Flat(d.ids))
          BY <2>1, <3>1, <4>1
        <5>2. IF setup.mask THEN MaskFits(d.ids, d.mask) /\ d.mask # <<>> ELSE d.mask = <<>>
          BY <1>1, <2>2, <2>m, <3>1
        <5>3. QED
          BY <1>3, <5>1, <5>2, FitsCounted
      <4>2. CASE ~logprobs
        BY <2>1, <3>1, <4>2 DEF Counted
      <4>3. QED
        BY <4>1, <4>2
    <3>3. QED
      BY <1>3, <3>1, <3>2
  <2>6. QED
    BY <1>1, <2>3, <2>4, <2>5
<1>7. QED
  BY <1>5, <1>6

\* So what a trajectory returns fits.
LEMMA FinishFits ==
  ASSUME TypeOK, NEW t \in Trajectories, NEW r \in AnswersNow(t),
         DataFits(said[t], open[t], current_turn[t], response_token_ids[t], response_loss_mask[t],
                  rollout_logprobs[t])
  PROVE  OutputFits(Finish(t, r).said, Finish(t, r).turn, Finish(t, r).output)
<1> DEFINE d == Collected(t, r)
           s == Join(said[t], open[t], r)
           u == current_turn[t]
<1>1. Finish(t, r).said = s /\ Finish(t, r).turn = u /\ Finish(t, r).output = Complete(d)
  BY DEF Finish
<1>2. d = Collected(t, r)
  OBVIOUS
<1> HIDE DEF d
<1>3. /\ d \in Outputs /\ (~Cancelling => Counted(d))
      /\ setup.driver = "colocate" => InPlace(s, d.ids) /\ MaskInPlace(s, u, d.ids, d.mask)
  BY <1>2, CollectedFits
<1> HIDE DEF s, u
<1>4. /\ Complete(d) \in Outputs
      /\ Complete(d).ids = d.ids /\ Complete(d).mask = d.mask
      /\ ~Cancelling /\ Complete(d).logps # <<>> => Flat(Complete(d).logps) = Taught(Flat(d.ids))
  BY <1>3, CompleteFits
<1>5. QED
  BY <1>1, <1>3, <1>4 DEF OutputFits

\* A turn that is not the last keeps the data in step with the messages.
LEMMA StepFits ==
  ASSUME Supported, TypeOK, NEW t \in Trajectories, NEW r \in AnswersNow(t),
         DataFits(said[t], open[t], current_turn[t], response_token_ids[t], response_loss_mask[t],
                  rollout_logprobs[t]),
         NEW edit \in setup.edits, NEW continue \in {FALSE, setup.continues},
         NEW a, a = Step(t, Edited(t, r, edit), continue)
  PROVE  DataFits(a.said, a.open, a.turn, a.ids, a.mask, a.logps)
<1> DEFINE e == Edited(t, r, edit)
           s == said[t]
           o == open[t]
           u == current_turn[t]
           i == response_token_ids[t]
           m == response_loss_mask[t]
           l == rollout_logprobs[t]
<1>1. /\ s \in Texts /\ o \in BOOLEAN /\ u \in 1..MaxTurns /\ i \in Texts /\ m \in Masks /\ l \in Texts
      /\ setup.ids \in BOOLEAN /\ setup.mask \in BOOLEAN /\ (setup.mask => setup.ids)
      /\ logprobs \in BOOLEAN /\ MaxTurns \in Nat
  BY SetupFacts, MultiTurnAssumption DEF TypeOK, Masks
<1>r. r \in Answers(t) /\ r[1].turn = u
  BY DEF AnswersNow, OfThisTurn
<1>2. /\ e.text \in Seq(Tokens) /\ e.text # <<>> /\ e.text[1] = r[1]
      /\ e.logps \in Seq(Tokens) /\ e.mask = MaskOf(e.text)
      /\ IF logprobs THEN e.logps # <<>> ELSE e.logps = <<>>
      /\ setup.ids /\ logprobs /\ ~Cancelling => LogsFit(e.logps, e.text)
  BY <1>r, EditedFits
<1>3. setup.continues => setup.ids
  BY DEF Supported, TypeOK
<1>4. /\ ~setup.ids => i = <<>> /\ ~o
      /\ setup.ids => i = s /\ (i = <<>> <=> u = 1)
      /\ IF setup.mask THEN MaskFits(i, m) ELSE m = <<>>
      /\ ~logprobs => l = <<>>
      /\ setup.ids /\ logprobs => /\ i # <<>> => Flat(l) # <<>>
                                  /\ ~Cancelling => LogsFit(Flat(l), Flat(i))
      /\ o => Opened(s, u)
  BY DEF DataFits
<1> HIDE DEF e
<1>5. /\ a.said = Join(s, o, e.text) /\ a.open = continue /\ a.turn = u + 1
      /\ a.ids = IF setup.ids THEN Join(i, o, e.text) ELSE i
      /\ a.mask = IF setup.mask THEN Join(m, o, e.mask) ELSE m
      /\ a.logps = IF e.logps = <<>> THEN l ELSE Join(l, o, e.logps)
  BY DEF Step, e
<1> HIDE DEF s, o, u, i, m, l
<1>6. ~setup.ids => a.ids = <<>> /\ ~a.open
  BY <1>3, <1>4, <1>5, SetupFacts
<1>7. setup.ids => a.ids = a.said /\ (a.ids = <<>> <=> a.turn = 1)
  <2>1. Join(s, o, e.text) # <<>>
    BY <1>1, <1>2, JoinType DEF Texts
  <2>2. a.turn # 1
    BY <1>1, <1>5
  <2>3. QED
    BY <1>4, <1>5, <2>1, <2>2
<1>8. IF setup.mask THEN MaskFits(a.ids, a.mask) ELSE a.mask = <<>>
  <2>1. CASE setup.mask
    <3>1. MaskFits(Join(i, o, e.text), Join(m, o, e.mask))
      BY <1>1, <1>2, <1>4, <2>1, JoinFits
    <3>2. QED
      BY <1>1, <1>5, <2>1, <3>1
  <2>2. CASE ~setup.mask
    BY <1>4, <1>5, <2>2
  <2>3. QED
    BY <2>1, <2>2
<1>9. ~logprobs => a.logps = <<>>
  BY <1>2, <1>4, <1>5
<1>10. ASSUME setup.ids, logprobs
       PROVE  Flat(a.logps) # <<>> /\ (~Cancelling => LogsFit(Flat(a.logps), Flat(a.ids)))
  <2>1. a.logps = Join(l, o, e.logps) /\ a.ids = Join(i, o, e.text)
    BY <1>2, <1>5, <1>10
  <2>2. Flat(a.logps) = Flat(l) \o e.logps /\ Flat(l) \in Seq(Tokens)
    <3>1. l \in Seq(Seq(Tokens)) /\ o \in BOOLEAN /\ e.logps \in Seq(Tokens)
      BY <1>1, <1>2 DEF Texts
    <3>2. Flat(Join(l, o, e.logps)) = Flat(l) \o e.logps /\ Flat(l) \in Seq(Tokens)
      BY <3>1, JoinType
    <3>3. QED
      BY <2>1, <3>2
  <2>3. Flat(a.logps) # <<>>
    <3>1. e.logps \in Seq(Tokens) /\ e.logps # <<>>
      BY <1>2, <1>10
    <3>2. QED
      BY <2>2, <3>1
  <2>4. ~Cancelling => LogsFit(Flat(a.logps), Flat(a.ids))
    BY <1>1, <1>2, <1>4, <1>10, <2>1, JoinLogs
  <2>5. QED
    BY <2>3, <2>4
<1>11. a.open => Opened(a.said, a.turn)
  <2>1. o => s # <<>> /\ Last(s) # <<>>
    BY <1>4 DEF Opened
  <2>2. /\ a.said # <<>> /\ Last(a.said) # <<>>
        /\ Last(a.said)[1] = IF o THEN Last(s)[1] ELSE e.text[1]
    BY <1>1, <1>2, <1>5, <2>1, JoinLast
  <2>3. CASE o
    <3>1. s \in Seq(Seq(Tokens)) /\ s # <<>>
      BY <1>1, <2>1, <2>3 DEF Texts
    <3>2. Last(s) \in Seq(Tokens) /\ Last(s) # <<>> /\ Last(s)[1].turn < u
      BY <1>4, <2>3, <3>1 DEF Opened, Last
    <3>3. Last(s)[1] \in Tokens
      BY <3>2
    <3>4. Last(s)[1].turn \in 1..MaxTurns
      BY <3>3 DEF Tokens
    <3>5. Last(a.said)[1].turn < a.turn
      BY <1>1, <1>5, <2>2, <2>3, <3>2, <3>4
    <3>6. QED
      BY <2>2, <3>5 DEF Opened
  <2>4. CASE ~o
    <3>1. Last(a.said)[1].turn = u
      BY <1>2, <1>r, <2>2, <2>4 DEF u
    <3>2. QED
      BY <1>1, <1>5, <2>2, <3>1 DEF Opened
  <2>5. QED
    BY <1>1, <2>3, <2>4
<1>12. QED
  BY <1>6, <1>7, <1>8, <1>9, <1>10, <1>11 DEF DataFits

-----------------------------------------------------------------------------
(* The data of every trajectory.                                           *)

Fits(s, o, u, i, m, l, out) ==
  IF out = Nothing THEN DataFits(s, o, u, i, m, l) ELSE OutputFits(s, u, out)

FitsAt(t) ==
  Fits(said[t], open[t], current_turn[t], response_token_ids[t], response_loss_mask[t],
       rollout_logprobs[t], rollout_output[t])
DataInv == \A t \in Trajectories : FitsAt(t)

\* A turn, with either move.
LEMMA AfterFits ==
  ASSUME Supported, TypeOK, NEW t \in Trajectories, said[t] \in Seq(Seq(TokensOf(t))),
         NEW r \in AnswersNow(t), NEW move \in Moves(t),
         DataFits(said[t], open[t], current_turn[t], response_token_ids[t], response_loss_mask[t],
                  rollout_logprobs[t]),
         NEW a, a = After(t, r, move)
  PROVE  Fits(a.said, a.open, a.turn, a.ids, a.mask, a.logps, a.output)
<1>r. r \in Answers(t)
  BY DEF AnswersNow
<1>1. a.output = Nothing <=> move[1] # "stop"
  BY <1>r, AfterType
<1>2. CASE move[1] = "stop"
  <2>1. a = Finish(t, r)
    BY <1>2 DEF After
  <2>2. QED
    BY <1>1, <1>2, <2>1, FinishFits DEF Fits
<1>3. CASE move[1] # "stop"
  <2>1. move[1] \in setup.edits /\ move[2] \in {FALSE, setup.continues}
    BY <1>3, MoveType
  <2>2. a = Step(t, Edited(t, r, move[1]), move[2])
    BY <1>3 DEF After
  <2>3. QED
    BY <1>1, <1>3, <2>1, <2>2, StepFits DEF Fits
<1>4. QED
  BY <1>2, <1>3

\* Nothing has been said or collected.
LEMMA InitFits == Init => DataInv
<1> SUFFICES ASSUME Init, NEW t \in Trajectories
             PROVE  DataFits(said[t], open[t], current_turn[t], response_token_ids[t],
                             response_loss_mask[t], rollout_logprobs[t]) /\ rollout_output[t] = Nothing
  BY DEF DataInv, FitsAt, Fits
<1>1. /\ said[t] = <<>> /\ open[t] = FALSE /\ current_turn[t] = 1 /\ response_token_ids[t] = <<>>
      /\ response_loss_mask[t] = <<>> /\ rollout_logprobs[t] = <<>> /\ rollout_output[t] = Nothing
  BY DEF Init
<1>2. QED
  BY <1>1, NothingFits DEF DataFits

\* What the data depend on does not change without a turn of the trajectory.
LEMMA FitsStays ==
  ASSUME NEW t \in Trajectories, FitsAt(t), setup' = setup, logprobs' = logprobs,
         said'[t] = said[t], open'[t] = open[t], current_turn'[t] = current_turn[t],
         response_token_ids'[t] = response_token_ids[t], response_loss_mask'[t] = response_loss_mask[t],
         rollout_logprobs'[t] = rollout_logprobs[t], rollout_output'[t] = rollout_output[t]
  PROVE  FitsAt(t)'
BY DEF FitsAt, Fits, DataFits, OutputFits, LogsFit, Taught, TooLong, Cancelling, Opened, OneMask,
       MaskInPlace

\* Trajectories without an output take a turn each; the others stay.
LEMMA ChangesFits ==
  ASSUME Supported, IInv, DataInv, setup' = setup, logprobs' = logprobs,
         NEW S \in SUBSET Trajectories, NEW after, Changes(S, after),
         \A t \in S : /\ rollout_output[t] = Nothing
                      /\ \E r \in AnswersNow(t), move \in Moves(t) : after[t] = After(t, r, move)
  PROVE  DataInv'
<1>1. SUFFICES ASSUME NEW t \in Trajectories
               PROVE  FitsAt(t)'
  BY DEF DataInv
<1>2. FitsAt(t)
  BY DEF DataInv
<1>3. CASE t \in S
  <2>1. PICK r \in AnswersNow(t), move \in Moves(t) : after[t] = After(t, r, move)
    BY <1>3
  <2>2. DataFits(said[t], open[t], current_turn[t], response_token_ids[t], response_loss_mask[t],
                 rollout_logprobs[t])
    BY <1>2, <1>3 DEF FitsAt, Fits
  <2>3. TypeOK /\ said[t] \in Seq(Seq(TokensOf(t)))
    BY DEF IInv, OwnSaid
  <2> DEFINE a == after[t]
  <2>4. a = After(t, r, move)
    BY <2>1
  <2>5. /\ said'[t] = a.said /\ open'[t] = a.open /\ current_turn'[t] = a.turn
        /\ response_token_ids'[t] = a.ids /\ response_loss_mask'[t] = a.mask
        /\ rollout_logprobs'[t] = a.logps /\ rollout_output'[t] = a.output
    BY <1>3 DEF Changes
  <2> HIDE DEF a
  <2>6. Fits(a.said, a.open, a.turn, a.ids, a.mask, a.logps, a.output)
    BY <2>2, <2>3, <2>4, AfterFits
  <2>7. QED
    BY <2>5, <2>6 DEF FitsAt, Fits, DataFits, OutputFits, LogsFit, Taught, TooLong, Cancelling, Opened,
                      OneMask, MaskInPlace
<1>4. CASE t \notin S
  <2>1. /\ said'[t] = said[t] /\ open'[t] = open[t] /\ current_turn'[t] = current_turn[t]
        /\ response_token_ids'[t] = response_token_ids[t]
        /\ response_loss_mask'[t] = response_loss_mask[t]
        /\ rollout_logprobs'[t] = rollout_logprobs[t] /\ rollout_output'[t] = rollout_output[t]
    BY <1>4 DEF Changes
  <2>2. QED
    BY <1>2, <2>1, FitsStays
<1>5. QED
  BY <1>3, <1>4

\* Every step keeps the data in step with what was said.
LEMMA NextFits ==
  ASSUME Supported, IInv, DataInv, [Next]_vars
  PROVE  DataInv'
<1>1. CASE UNCHANGED <<config, said, open, current_turn, response_token_ids, response_loss_mask,
                       rollout_logprobs, rollout_output>>
  BY <1>1, FitsStays DEF DataInv, config
<1>2. CASE UNCHANGED vars \/ Gather \/ Rollout
  BY <1>1, <1>2 DEF vars, Gather, Rollout, config
<1>3. ASSUME NEW r \in Ranks, Turn(r)
      PROVE  DataInv'
  <2> DEFINE S == ToSet(index_to_infer[r])
  <2>1. PICK move, after : TurnOf(r, S, move, after)
    BY <1>3, TurnDoes
  <2>2. S \subseteq Mine(r) /\ S \in SUBSET Trajectories /\ setup.driver = "colocate"
    BY <2>1, MineFacts DEF TurnOf
  <2>3. setup' = setup /\ logprobs' = logprobs
    BY <1>3 DEF Turn, config
  <2>4. \A t \in S : rollout_output[t] = Nothing
    BY <2>2 DEF IInv, Unfinished
  <2>5. \A t \in S : \E a \in AnswersNow(t), m \in Moves(t) : after[t] = After(t, a, m)
    BY <2>1 DEF TurnOf
  <2>6. Changes(S, after)
    BY <2>1 DEF TurnOf
  <2> HIDE DEF S
  <2>7. QED
    BY <2>2, <2>3, <2>4, <2>5, <2>6, ChangesFits
<1>4. ASSUME NEW t \in Trajectories, Run(t)
      PROVE  DataInv'
  <2>1. PICK move \in Moves(t) : Becomes([u \in {t} |-> After(u, Response(u), move)])
    BY <1>4 DEF Run
  <2> DEFINE after == [u \in {t} |-> After(u, Response(u), move)]
             S == {t}
  <2>2. Changes(S, after)
    BY <2>1, BecomesChanges
  <2>3. Response(t) \in AnswersNow(t)
    BY ResponseFine DEF IInv, AnswersNow, OfThisTurn
  <2>4. \A u \in S : \E a \in AnswersNow(u), m \in Moves(u) : after[u] = After(u, a, m)
    BY <2>3
  <2>5. /\ setup' = setup /\ logprobs' = logprobs /\ S \in SUBSET Trajectories
        /\ \A u \in S : rollout_output[u] = Nothing
    BY <1>4 DEF Run, config
  <2> HIDE DEF S, after
  <2>6. QED
    BY <2>2, <2>4, <2>5, ChangesFits
<1>5. QED
  BY <1>2, <1>3, <1>4 DEF Next

\* Data that fit are trained as they were said.
LEMMA DataImplies ==
  ASSUME IInv, DataInv
  PROVE  TrainedAsSaid
<1> SUFFICES ASSUME NEW t \in Trajectories, rollout_output[t] # Nothing
             PROVE  /\ setup.driver = "colocate" => AsSaid(t)
                    /\ ~Cancelling => LogprobsAligned(t)
  BY DEF TrainedAsSaid
<1>1. OutputFits(said[t], current_turn[t], rollout_output[t])
  BY DEF DataInv, FitsAt, Fits
<1>2. QED
  BY <1>1, FitsTrained DEF IInv

\* What run_multi_turn collects is what was said, in the places of the messages and masked
\* as step asked; its mask fails the trainer's length assertion just if step returns ids
\* without one and the last turn opens a message; and log-probabilities are those of the
\* tokens trained on or are dropped, unless what step cuts off and adds may be as many.  For
\* every scheduler that returns ids if it continues messages.
THEOREM TokensTrainedAsSaid ==
  ASSUME Supported
  PROVE  Spec => []TrainedAsSaid
<1>1. Init => DataInv
  BY InitFits
<1>2. IInv /\ DataInv /\ [Next]_vars => DataInv'
  BY NextFits
<1>3. IInv /\ DataInv => TrainedAsSaid
  BY DataImplies
<1>4. QED
  BY <1>1, <1>2, <1>3, Invariance, PTL DEF Spec
=============================================================================
