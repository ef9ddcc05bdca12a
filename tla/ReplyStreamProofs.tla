-------------------------- MODULE ReplyStreamProofs --------------------------
(***************************************************************************)
(* Proofs about ReplyStream for every protocol, every reply a model may     *)
(* give, every way it is cut into frames and any number of troubles: the    *)
(* client can place every event, the stream keeps the promise of            *)
(* ReplyContract, and native calls and text arrive in the upstream's order. *)
(* The filter is followed round by round: what it holds back is the end of  *)
(* what has been said, and what it has found is what it has put out.  A     *)
(* native reply is followed by how many items come before its first call.   *)
(* A fence reply without a call reaches the client whole: round by round    *)
(* the filter keeps exactly what has been said and not shown (Kept).        *)
(***************************************************************************)
EXTENDS ReplyStream, TLAPS, WellFoundedInduction, SequenceTheorems

-----------------------------------------------------------------------------
(* Folds: what goes on from position to position.  The library's theorems    *)
(* about induction take operators, these take sets and functions.            *)

\* A set of numbers that holds 0, and k whenever it holds k - 1, holds all up to n.
LEMMA UpTo ==
    ASSUME NEW n \in Nat, NEW T, 0 \in T,
           \A k \in 1 .. n : k - 1 \in T => k \in T
    PROVE  0 .. n \subseteq T
<1> DEFINE R == (0 .. n) \ T
<1>1. SUFFICES ASSUME R # {} PROVE FALSE
  OBVIOUS
<1>2. R \subseteq Nat
  OBVIOUS
<1>3. PICK k \in R : \A e \in R : ~(<<e, k>> \in OpToRel(<, Nat))
  <2> HIDE DEF R
  <2> QED BY <1>1, <1>2, NatLessThanWellFounded, WFMin
<1>4. k \in 1 .. n /\ k - 1 \in 0 .. n
  OBVIOUS
<1>5. k - 1 \notin R
  <2>1. k - 1 < k /\ k - 1 \in Nat /\ k \in Nat
    BY <1>4
  <2>2. <<k - 1, k>> \in OpToRel(<, Nat)
    BY <2>1 DEF OpToRel
  <2> QED BY <1>3, <2>2
<1> QED BY <1>4, <1>5

LEMMA FirstPosition ==
    ASSUME NEW n \in Nat, NEW T \in SUBSET (1 .. n), T # {}
    PROVE  \E i \in T : \A j \in T : i <= j
<1> DEFINE R == {k \in 0 .. n : \A j \in T : j > k}
<1>1. SUFFICES ASSUME ~\E i \in T : \A j \in T : i <= j PROVE FALSE
  OBVIOUS
<1>2. 0 \in R
  OBVIOUS
<1>3. ASSUME NEW k \in 1 .. n, k - 1 \in R PROVE k \in R
  <2>1. \A j \in T : j >= k
    BY <1>3
  <2>2. k \notin T
    BY <1>1, <2>1
  <2> QED BY <2>1, <2>2
<1>4. 0 .. n \subseteq R
  <2> HIDE DEF R
  <2> QED BY <1>2, <1>3, UpTo
<1>5. n \in R
  <2>1. n \in 0 .. n
    OBVIOUS
  <2> HIDE DEF R
  <2> QED BY <1>4, <2>1
<1>6. PICK j \in T : TRUE
  OBVIOUS
<1>7. j > n /\ j <= n /\ j \in Nat
  BY <1>5, <1>6
<1> QED BY <1>7

LEMMA LastPosition ==
    ASSUME NEW n \in Nat, NEW T \in SUBSET (1 .. n), T # {}
    PROVE  \E i \in T : \A j \in T : j <= i
<1> DEFINE U == {k \in 1 .. n : n + 1 - k \in T}
<1>1. U \in SUBSET (1 .. n) /\ U # {}
  <2>1. PICK i \in T : TRUE
    OBVIOUS
  <2>2. n + 1 - i \in 1 .. n /\ n + 1 - (n + 1 - i) = i
    OBVIOUS
  <2> QED BY <2>1, <2>2
<1>2. PICK k \in U : \A j \in U : k <= j
  <2> HIDE DEF U
  <2> QED BY <1>1, FirstPosition
<1>3. ASSUME NEW j \in T PROVE j <= n + 1 - k
  <2>1. n + 1 - j \in 1 .. n /\ n + 1 - (n + 1 - j) = j
    OBVIOUS
  <2>2. k <= n + 1 - j
    BY <1>2, <2>1
  <2> QED BY <2>2
<1> QED BY <1>2, <1>3

\* The largest of some of the first n positions.
LEMMA MaxIs ==
    ASSUME NEW n \in Nat, NEW S \in SUBSET (1 .. n), S # {}
    PROVE  Max(S) \in S /\ \A j \in S : j <= Max(S)
<1>1. PICK i \in S : \A j \in S : j <= i
  BY LastPosition
<1>2. \A j \in S : i >= j
  BY <1>1
<1>3. \E x \in S : \A y \in S : x >= y
  BY <1>2
<1> DEFINE mx == CHOOSE x \in S : \A y \in S : x >= y
<1>4. mx \in S /\ \A y \in S : mx >= y
  BY <1>3
<1>5. Max(S) = mx
  BY DEF Max
<1> HIDE DEF mx
<1> QED BY <1>4, <1>5

\* Folding goes through the sets of positions; this is the step g takes there.
Stepped(n, base, g, h) ==
    h = [S \in SUBSET (1 .. n) |->
            IF S = {} THEN base ELSE g[<<h[S \ {Max(S)}], Max(S)>>]]

LEMMA FoldExists ==
    ASSUME NEW n \in Nat, NEW A, NEW base \in A, NEW g \in [A \X (1 .. n) -> A]
    PROVE  \E h \in [SUBSET (1 .. n) -> A] : Stepped(n, base, g, h)
<1> DEFINE T == {k \in 0 .. n : \E h \in [SUBSET (1 .. k) -> A] : Stepped(k, base, g, h)}
<1>1. 0 \in T
  <2>1. SUBSET (1 .. 0) = {{}}
    OBVIOUS
  <2> DEFINE h == [S \in SUBSET (1 .. 0) |-> base]
  <2>2. h \in [SUBSET (1 .. 0) -> A] /\ Stepped(0, base, g, h)
    BY <2>1 DEF Stepped
  <2> HIDE DEF h
  <2>3. \E f \in [SUBSET (1 .. 0) -> A] : Stepped(0, base, g, f)
    BY <2>2
  <2>4. 0 \in 0 .. n
    OBVIOUS
  <2> QED BY <2>3, <2>4, Zenon
<1>2. ASSUME NEW k \in 1 .. n, k - 1 \in T PROVE k \in T
  <2>1. PICK h \in [SUBSET (1 .. (k - 1)) -> A] : Stepped(k - 1, base, g, h)
    BY <1>2
  <2> DEFINE h2 == [S \in SUBSET (1 .. k) |->
                      IF k \in S THEN g[<<h[S \ {k}], k>>] ELSE h[S]]
  <2>2. ASSUME NEW S \in SUBSET (1 .. k)
        PROVE  /\ S \ {k} \in SUBSET (1 .. (k - 1))
               /\ k \in S => Max(S) = k
               /\ k \notin S => S \in SUBSET (1 .. (k - 1))
    <3>1. \A x \in 1 .. k : x # k => x \in 1 .. (k - 1)
      OBVIOUS
    <3>2. k \in S => Max(S) = k
      <4> SUFFICES ASSUME k \in S PROVE Max(S) = k
        OBVIOUS
      <4>0. k \in Nat /\ S # {}
        OBVIOUS
      <4>1. Max(S) \in S /\ \A j \in S : j <= Max(S)
        BY <4>0, MaxIs
      <4>2. Max(S) \in 1 .. k /\ k <= Max(S)
        BY <4>1
      <4> QED BY <4>2
    <3> QED BY <3>1, <3>2
  <2>3. h2 \in [SUBSET (1 .. k) -> A]
    <3> SUFFICES ASSUME NEW S \in SUBSET (1 .. k)
                 PROVE  (IF k \in S THEN g[<<h[S \ {k}], k>>] ELSE h[S]) \in A
      OBVIOUS
    <3> QED BY <2>2
  <2>4. ASSUME NEW S \in SUBSET (1 .. k)
        PROVE  h2[S] = IF S = {} THEN base ELSE g[<<h2[S \ {Max(S)}], Max(S)>>]
    <3>1. CASE k \in S
      <4>1. h2[S] = g[<<h[S \ {k}], k>>]
        BY <3>1
      <4>2. h2[S \ {k}] = h[S \ {k}]
        OBVIOUS
      <4> HIDE DEF h2
      <4> QED BY <2>2, <3>1, <4>1, <4>2
    <3>2. CASE k \notin S
      <4>1. h2[S] = h[S] /\ S \in SUBSET (1 .. (k - 1))
        BY <2>2, <3>2
      <4>2. h2[S \ {Max(S)}] = h[S \ {Max(S)}]
        BY <3>2
      <4>3. h[S] = IF S = {} THEN base ELSE g[<<h[S \ {Max(S)}], Max(S)>>]
        BY <2>1, <4>1 DEF Stepped
      <4> HIDE DEF h2
      <4> QED BY <4>1, <4>2, <4>3
    <3> QED BY <3>1, <3>2
  <2>5. Stepped(k, base, g, h2)
    <3>1. h2 = [S \in SUBSET (1 .. k) |-> h2[S]]
      OBVIOUS
    <3> HIDE DEF h2
    <3> QED BY <2>4, <3>1 DEF Stepped
  <2> HIDE DEF h2
  <2> QED BY <2>3, <2>5
<1>3. n \in 0 .. n
  OBVIOUS
<1>4. 0 .. n \subseteq T
  <2> HIDE DEF T
  <2> QED BY <1>1, <1>2, UpTo
<1>5. n \in T
  BY <1>3, <1>4
<1> QED BY <1>5

LEMMA MaxUpTo == ASSUME NEW k \in Nat, k # 0
                 PROVE  Max(1 .. k) = k /\ (1 .. k) \ {k} = 1 .. (k - 1)
<1>0. 1 .. k \in SUBSET (1 .. k) /\ 1 .. k # {} /\ k \in 1 .. k
  OBVIOUS
<1>1. Max(1 .. k) \in 1 .. k /\ \A j \in 1 .. k : j <= Max(1 .. k)
  BY <1>0, MaxIs
<1> QED BY <1>0, <1>1

\* What holds of the empty prefix and is passed on holds of every prefix.
LEMMA PrefixKeeps ==
    ASSUME NEW n \in Nat, NEW A, NEW h, h[{}] \in A,
           \A k \in 1 .. n : h[1 .. (k - 1)] \in A => h[1 .. k] \in A
    PROVE  \A k \in 0 .. n : h[1 .. k] \in A
<1> DEFINE T == {k \in 0 .. n : h[1 .. k] \in A}
<1>1. 0 \in T
  OBVIOUS
<1>2. ASSUME NEW k \in 1 .. n, k - 1 \in T PROVE k \in T
  BY <1>2
<1>3. 0 .. n \subseteq T
  <2> HIDE DEF T
  <2> QED BY <1>1, <1>2, UpTo
<1>4. ASSUME NEW k \in 0 .. n PROVE h[1 .. k] \in A
  <2>1. k \in T
    <3> HIDE DEF T
    <3> QED BY <1>3
  <2> QED BY <2>1
<1> HIDE DEF T
<1> QED BY <1>4

\* Only the prefixes matter.
LEMMA LastOfPrefix ==
    ASSUME NEW n \in Nat, NEW k \in 1 .. n
    PROVE  /\ Max(1 .. k) = k /\ (1 .. k) \ {k} = 1 .. (k - 1)
           /\ 1 .. k \in SUBSET (1 .. n) /\ 1 .. k # {}
<1>1. k \in Nat /\ k # 0
  OBVIOUS
<1> QED BY <1>1, MaxUpTo

\* f folds the steps of g over the positions up to n.
Follows(n, A, g, f) ==
    \A S \in SUBSET (1 .. n) : S # {} /\ f[S \ {Max(S)}] \in A =>
        f[S] = g[<<f[S \ {Max(S)}], Max(S)>>]

\* What such a fold goes through, position by position.
Passes(n, A, base, g, end) ==
    \E F \in [0 .. n -> A] :
        F[0] = base /\ F[n] = end /\ \A k \in 1 .. n : F[k] = g[<<F[k - 1], k>>]

LEMMA StepsOfFold ==
    ASSUME NEW n \in Nat, NEW A, NEW base \in A, NEW g \in [A \X (1 .. n) -> A],
           NEW f, f[{}] = base, Follows(n, A, g, f)
    PROVE  Passes(n, A, base, g, f[1 .. n])
<1>1. ASSUME NEW k \in 1 .. n, f[1 .. (k - 1)] \in A
      PROVE  f[1 .. k] = g[<<f[1 .. (k - 1)], k>>]
  <2>1. /\ Max(1 .. k) = k /\ (1 .. k) \ {k} = 1 .. (k - 1)
        /\ 1 .. k \in SUBSET (1 .. n) /\ 1 .. k # {}
    BY LastOfPrefix
  <2> QED BY <1>1, <2>1 DEF Follows
<1>2. \A k \in 0 .. n : f[1 .. k] \in A
  <2>1. \A k \in 1 .. n : f[1 .. (k - 1)] \in A => f[1 .. k] \in A
    BY <1>1
  <2> QED BY <2>1, PrefixKeeps
<1> DEFINE F == [k \in 0 .. n |-> f[1 .. k]]
<1>3. F \in [0 .. n -> A] /\ F[0] = base /\ F[n] = f[1 .. n]
  <2>1. 1 .. 0 = {} /\ 0 \in 0 .. n /\ n \in 0 .. n
    OBVIOUS
  <2> QED BY <1>2, <2>1
<1>4. \A k \in 1 .. n : F[k] = g[<<F[k - 1], k>>]
  <2>1. \A k \in 1 .. n : k \in 0 .. n /\ k - 1 \in 0 .. n
    OBVIOUS
  <2> QED BY <1>1, <1>2, <2>1
<1> HIDE DEF F
<1> QED BY <1>3, <1>4 DEF Passes

-----------------------------------------------------------------------------
(* The kinds of values that occur *)

Val == STRING \cup {"", "fence", "tool"}
Shows == [kind : {"text", "think", "call"}, val : Val]
Block == {"none", "text", "think", "call"}
Reason == {"", "stop", "length", "tool_calls"}
Outs == [started : BOOLEAN, open : Block, done : BOOLEAN, err : BOOLEAN]
Readers == [begun : BOOLEAN, phase : {"open", "ended", "failed"}, block : Block,
            got : Seq(Shows), reason : Reason, fault : BOOLEAN]
Writers == [o : Outs, c : Readers]
Events ==
    [ev : {"start", "close", "error"}, kind : {""}, val : {""}]
    \cup [ev : {"open"}, kind : {"text", "think", "call"}, val : {""}]
    \cup [ev : {"delta"}, kind : {"text", "think", "call"}, val : Val]
    \cup [ev : {"end"}, kind : {""}, val : Reason]

LEMMA EventsAre ==
    /\ Start \in Events /\ Close \in Events /\ Failure \in Events
    /\ \A k \in {"text", "think", "call"} : Open(k) \in Events
    /\ \A item \in Shows : Delta(item) \in Events
    /\ \A fin \in Reason : End(fin) \in Events
BY DEF Events, Start, Close, Failure, Open, Delta, End, Ev, Shows

LEMMA ReadTyped ==
    ASSUME NEW c \in Readers, NEW e \in Events
    PROVE  Read(c, e) \in Readers
<1> DEFINE new == [kind |-> e.kind, val |-> e.val]
<1>1. e.ev = "delta" => new \in Shows
  BY DEF Events, Shows
<1>2. e.ev = "delta" => Append(c.got, new) \in Seq(Shows)
  BY <1>1 DEF Readers
<1>3. e.ev = "open" => e.kind \in Block
  BY DEF Events, Block
<1>4. e.ev = "end" => e.val \in Reason
  BY DEF Events
<1> HIDE DEF new
<1>5. e.ev \in {"start", "open", "delta", "close", "end", "error"}
  BY DEF Events
<1>6. Read(c, e) \in {[c EXCEPT !.fault = TRUE], [c EXCEPT !.begun = TRUE],
                      [c EXCEPT !.block = e.kind], [c EXCEPT !.got = Append(c.got, new)],
                      [c EXCEPT !.block = "none"],
                      [c EXCEPT !.phase = "ended", !.reason = e.val],
                      [c EXCEPT !.phase = "failed"]}
      /\ (Read(c, e) = [c EXCEPT !.block = e.kind] => TRUE)
  BY <1>5 DEF Read, new
<1> QED BY <1>2, <1>3, <1>4, <1>5 DEF Read, Readers, Block, new

\* The events are read one after another.
LEMMA ReadsAll ==
    ASSUME NEW c \in Readers, NEW es \in Seq(Events)
    PROVE  \E F \in [0 .. Len(es) -> Readers] :
              /\ F[0] = c /\ F[Len(es)] = ReadAll(c, es)
              /\ \A k \in 1 .. Len(es) : F[k] = Read(F[k - 1], es[k])
<1> DEFINE n == Len(es)
           g == [x \in Readers \X (1 .. n) |-> Read(x[1], es[x[2]])]
           Is(h) == h = [S \in SUBSET DOMAIN es |->
                           IF S = {} THEN c ELSE Read(h[S \ {Max(S)}], es[Max(S)])]
           f == CHOOSE h : Is(h)
<1>0. n \in Nat /\ DOMAIN es = 1 .. n
  OBVIOUS
<1>1. \A a \in Readers, k \in 1 .. n : Read(a, es[k]) \in Readers
  BY ReadTyped
<1>2. /\ g \in [Readers \X (1 .. n) -> Readers]
      /\ \A a \in Readers, k \in 1 .. n : g[<<a, k>>] = Read(a, es[k])
  BY <1>1
<1> HIDE DEF g
<1>3. PICK h \in [SUBSET (1 .. n) -> Readers] : Stepped(n, c, g, h)
  BY <1>0, <1>2, FoldExists
<1>4. \A S \in SUBSET (1 .. n) : S # {} => Max(S) \in 1 .. n /\ S \ {Max(S)} \in SUBSET (1 .. n)
  BY <1>0, MaxIs
<1>5. Is(h)
  BY <1>0, <1>2, <1>3, <1>4 DEF Stepped
<1>6. Is(f)
  BY <1>5
<1> HIDE DEF f
<1>7. f[{}] = c
  BY <1>6
<1>8. Follows(n, Readers, g, f)
  BY <1>0, <1>2, <1>4, <1>6 DEF Follows
<1>9. ReadAll(c, es) = f[1 .. n]
  <2>1. ReadAll(c, es) = f[DOMAIN es]
    BY DEF ReadAll, FoldLeft, MapThenFoldSet, f
  <2> QED BY <1>0, <2>1
<1> HIDE DEF n, Is
<1>10. Passes(n, Readers, c, g, f[1 .. n])
  BY <1>0, <1>2, <1>7, <1>8, StepsOfFold
<1>12. PICK F \in [0 .. n -> Readers] :
         F[0] = c /\ F[n] = f[1 .. n] /\ \A k \in 1 .. n : F[k] = g[<<F[k - 1], k>>]
  BY <1>10 DEF Passes
<1>11. \A k \in 1 .. n : F[k] = Read(F[k - 1], es[k])
  <2>1. \A k \in 1 .. n : k - 1 \in 0 .. n
    BY <1>0
  <2> QED BY <1>2, <1>12, <2>1
<1> QED BY <1>9, <1>11, <1>12 DEF n

-----------------------------------------------------------------------------
(* The client, event by event *)

\* How a client that is in time reads each event.
LEMMA ReadIs ==
    ASSUME NEW c \in Readers, c.phase = "open"
    PROVE  /\ ~c.begun => Read(c, Start) = [c EXCEPT !.begun = TRUE]
           /\ \A k \in {"text", "think", "call"} : c.begun /\ c.block = "none" =>
                 Read(c, Open(k)) = [c EXCEPT !.block = k]
           /\ \A item \in Shows : proto = "chat" \/ c.block = item.kind =>
                 Read(c, Delta(item)) = [c EXCEPT !.got = Append(c.got, item)]
           /\ c.block # "none" => Read(c, Close) = [c EXCEPT !.block = "none"]
           /\ \A fin \in Reason : (proto = "chat" \/ c.begun) /\ c.block = "none" =>
                 Read(c, End(fin)) = [c EXCEPT !.phase = "ended", !.reason = fin]
           /\ Read(c, Failure) = [c EXCEPT !.phase = "failed"]
<1>1. ASSUME ~c.begun PROVE Read(c, Start) = [c EXCEPT !.begun = TRUE]
  <2>1. Start.ev = "start"
    BY DEF Start, Ev
  <2>2. Expected(c, Start)
    BY <1>1, <2>1 DEF Expected
  <2> QED BY <2>1, <2>2 DEF Read
<1>2. ASSUME NEW k \in {"text", "think", "call"}, c.begun, c.block = "none"
      PROVE  Read(c, Open(k)) = [c EXCEPT !.block = k]
  <2>1. Open(k).ev = "open" /\ Open(k).kind = k
    BY DEF Open, Ev
  <2>2. Expected(c, Open(k))
    BY <1>2, <2>1 DEF Expected
  <2> QED BY <2>1, <2>2 DEF Read
<1>3. ASSUME NEW item \in Shows, proto = "chat" \/ c.block = item.kind
      PROVE  Read(c, Delta(item)) = [c EXCEPT !.got = Append(c.got, item)]
  <2>1. [kind |-> item.kind, val |-> item.val] = item
    BY DEF Shows
  <2>2. Delta(item).ev = "delta" /\ Delta(item).kind = item.kind /\ Delta(item).val = item.val
    BY DEF Delta, Ev
  <2>3. Expected(c, Delta(item))
    BY <1>3, <2>2 DEF Expected
  <2> QED BY <2>1, <2>2, <2>3 DEF Read
<1>4. ASSUME c.block # "none" PROVE Read(c, Close) = [c EXCEPT !.block = "none"]
  <2>1. Close.ev = "close"
    BY DEF Close, Ev
  <2>2. Expected(c, Close)
    BY <1>4, <2>1 DEF Expected
  <2> QED BY <2>1, <2>2 DEF Read
<1>5. ASSUME NEW fin \in Reason, proto = "chat" \/ c.begun, c.block = "none"
      PROVE  Read(c, End(fin)) = [c EXCEPT !.phase = "ended", !.reason = fin]
  <2>1. End(fin).ev = "end" /\ End(fin).val = fin
    BY DEF End, Ev
  <2>2. Expected(c, End(fin))
    BY <1>5, <2>1 DEF Expected
  <2> QED BY <2>1, <2>2 DEF Read
<1>6. Read(c, Failure) = [c EXCEPT !.phase = "failed"]
  <2>1. Failure.ev = "error"
    BY DEF Failure, Ev
  <2>2. Expected(c, Failure)
    BY <2>1 DEF Expected
  <2> QED BY <2>1, <2>2 DEF Read
<1> QED BY <1>1, <1>2, <1>3, <1>4, <1>5, <1>6

\* One whose stream has ended finds fault with every event.
LEMMA ReadLate ==
    ASSUME NEW c \in Readers, c.phase # "open", NEW e
    PROVE  Read(c, e) = [c EXCEPT !.fault = TRUE]
<1>1. ~Expected(c, e)
  BY DEF Expected
<1> QED BY <1>1 DEF Read

-----------------------------------------------------------------------------
(* The client, several events at once *)

LEMMA LenJoined ==
    ASSUME NEW A, NEW s \in Seq(A), NEW t \in Seq(A)
    PROVE  /\ s \o t \in Seq(A) /\ Len(s \o t) = Len(s) + Len(t)
           /\ Len(s) \in Nat /\ Len(t) \in Nat
OBVIOUS

\* What is read in two parts.
LEMMA ReadJoined ==
    ASSUME NEW c \in Readers, NEW s \in Seq(Events), NEW t \in Seq(Events)
    PROVE  /\ ReadAll(c, s) \in Readers
           /\ s \o t \in Seq(Events)
           /\ ReadAll(c, s \o t) = ReadAll(ReadAll(c, s), t)
<1> DEFINE d == ReadAll(c, s)
           m == Len(s)
           n == Len(t)
           st == s \o t
<1>0. /\ m \in Nat /\ n \in Nat /\ st \in Seq(Events) /\ Len(st) = m + n
      /\ \A k \in 1 .. m : st[k] = s[k]
      /\ \A k \in 1 .. n : st[m + k] = t[k]
  OBVIOUS
<1>1. PICK F \in [0 .. m -> Readers] :
        F[0] = c /\ F[m] = d /\ \A k \in 1 .. m : F[k] = Read(F[k - 1], s[k])
  BY ReadsAll
<1>2. d \in Readers
  <2>1. m \in 0 .. m
    BY <1>0
  <2> QED BY <1>1, <2>1
<1> HIDE DEF d
<1>3. PICK G \in [0 .. n -> Readers] :
        G[0] = d /\ G[n] = ReadAll(d, t) /\ \A k \in 1 .. n : G[k] = Read(G[k - 1], t[k])
  BY <1>2, ReadsAll
<1>4. PICK H \in [0 .. (m + n) -> Readers] :
        /\ H[0] = c /\ H[m + n] = ReadAll(c, st)
        /\ \A k \in 1 .. (m + n) : H[k] = Read(H[k - 1], st[k])
  <2> HIDE DEF m, n, st
  <2>1. PICK H \in [0 .. Len(st) -> Readers] :
          /\ H[0] = c /\ H[Len(st)] = ReadAll(c, st)
          /\ \A k \in 1 .. Len(st) : H[k] = Read(H[k - 1], st[k])
    BY <1>0, ReadsAll
  <2> QED BY <1>0, <2>1
<1> HIDE DEF m, n, st
<1>5. H[m] = F[m]
  <2> DEFINE T == {k \in 0 .. m : H[k] = F[k]}
  <2>1. 0 \in T
    BY <1>0, <1>1, <1>4
  <2>2. ASSUME NEW k \in 1 .. m, k - 1 \in T PROVE k \in T
    <3>1. k \in 1 .. (m + n) /\ k \in 0 .. m
      BY <1>0
    <3>2. H[k] = Read(H[k - 1], st[k]) /\ F[k] = Read(F[k - 1], s[k]) /\ st[k] = s[k]
      BY <1>0, <1>1, <1>4, <3>1
    <3> QED BY <2>2, <3>1, <3>2
  <2>3. 0 .. m \subseteq T
    <3> HIDE DEF T
    <3> QED BY <1>0, <2>1, <2>2, UpTo
  <2>4. m \in 0 .. m
    BY <1>0
  <2> QED BY <2>3, <2>4
<1>6. H[m + n] = G[n]
  <2> DEFINE T == {k \in 0 .. n : H[m + k] = G[k]}
  <2>1. 0 \in T
    BY <1>0, <1>1, <1>3, <1>5
  <2>2. ASSUME NEW k \in 1 .. n, k - 1 \in T PROVE k \in T
    <3>1. m + k \in 1 .. (m + n) /\ k \in 0 .. n /\ (m + k) - 1 = m + (k - 1)
      BY <1>0
    <3>2. H[m + k] = Read(H[m + (k - 1)], st[m + k]) /\ G[k] = Read(G[k - 1], t[k])
          /\ st[m + k] = t[k]
      BY <1>0, <1>3, <1>4, <3>1
    <3> QED BY <2>2, <3>1, <3>2
  <2>3. 0 .. n \subseteq T
    <3> HIDE DEF T
    <3> QED BY <1>0, <2>1, <2>2, UpTo
  <2>4. n \in 0 .. n
    BY <1>0
  <2> QED BY <2>3, <2>4
<1> QED BY <1>0, <1>2, <1>3, <1>4, <1>6 DEF d, st

\* None, one or two events.
LEMMA ReadFew ==
    ASSUME NEW c \in Readers
    PROVE  /\ ReadAll(c, <<>>) = c
           /\ \A a \in Events : ReadAll(c, <<a>>) = Read(c, a)
           /\ \A a, b \in Events : ReadAll(c, <<a, b>>) = Read(Read(c, a), b)
<1>1. ReadAll(c, <<>>) = c
  <2> DEFINE es == <<>>
  <2>1. es \in Seq(Events) /\ Len(es) = 0
    OBVIOUS
  <2> HIDE DEF es
  <2>2. \E F \in [0 .. Len(es) -> Readers] : F[0] = c /\ F[Len(es)] = ReadAll(c, es)
    BY <2>1, ReadsAll
  <2>3. ReadAll(c, es) = c
    BY <2>1, <2>2
  <2> QED BY <2>3 DEF es
<1>2. ASSUME NEW a \in Events PROVE ReadAll(c, <<a>>) = Read(c, a)
  <2> DEFINE es == <<a>>
  <2>1. es \in Seq(Events) /\ Len(es) = 1 /\ es[1] = a
    OBVIOUS
  <2> HIDE DEF es
  <2>2. PICK F \in [0 .. 1 -> Readers] :
          F[0] = c /\ F[1] = ReadAll(c, es) /\ \A k \in 1 .. 1 : F[k] = Read(F[k - 1], es[k])
    BY <2>1, ReadsAll
  <2>3. 1 \in 1 .. 1 /\ 1 - 1 = 0
    OBVIOUS
  <2>4. ReadAll(c, es) = Read(c, a)
    BY <2>1, <2>2, <2>3
  <2> QED BY <2>4 DEF es
<1>3. ASSUME NEW a \in Events, NEW b \in Events
      PROVE  ReadAll(c, <<a, b>>) = Read(Read(c, a), b)
  <2> DEFINE es == <<a, b>>
  <2>1. es \in Seq(Events) /\ Len(es) = 2 /\ es[1] = a /\ es[2] = b
    OBVIOUS
  <2> HIDE DEF es
  <2>2. PICK F \in [0 .. 2 -> Readers] :
          F[0] = c /\ F[2] = ReadAll(c, es) /\ \A k \in 1 .. 2 : F[k] = Read(F[k - 1], es[k])
    BY <2>1, ReadsAll
  <2>3. 1 \in 1 .. 2 /\ 2 \in 1 .. 2 /\ 1 - 1 = 0 /\ 2 - 1 = 1
    OBVIOUS
  <2>4. F[1] = Read(F[0], es[1]) /\ F[2] = Read(F[1], es[2])
    BY <2>2, <2>3
  <2>5. ReadAll(c, es) = Read(Read(c, a), b)
    BY <2>1, <2>2, <2>4
  <2> QED BY <2>5 DEF es
<1> QED BY <1>1, <1>2, <1>3

\* What a client reads before a block is opened, or before the end.
Before(c) == [c EXCEPT !.begun = TRUE, !.block = "none"]

LEMMA PrefaceIs ==
    ASSUME NEW c \in Readers, NEW o \in Outs, proto # "chat",
           c.phase = "open", c.begun = o.started, c.block = o.open
    PROVE  /\ Begun(o) \o Closed(o) \in Seq(Events)
           /\ ReadAll(c, Begun(o) \o Closed(o)) = Before(c)
           /\ Before(c) \in Readers
<1> DEFINE c1 == [c EXCEPT !.begun = TRUE]
<1>1. Begun(o) \in Seq(Events) /\ Closed(o) \in Seq(Events)
  <2>1. Start \in Events /\ Close \in Events
    BY EventsAre
  <2> QED BY <2>1 DEF Begun, Closed
<1>2. /\ c1 \in Readers /\ c1.phase = "open" /\ c1.block = c.block /\ (c.begun => c1 = c)
      /\ Before(c) \in Readers /\ Before(c) = [c1 EXCEPT !.block = "none"]
      /\ (c1.block = "none" => Before(c) = c1)
  BY DEF Before, Readers, Block
<1>3. ReadAll(c, Begun(o)) = c1
  <2>1. CASE o.started
    <3>1. Begun(o) = <<>> /\ ReadAll(c, <<>>) = c
      BY <2>1, ReadFew DEF Begun
    <3> QED BY <1>2, <2>1, <3>1
  <2>2. CASE ~o.started
    <3>1. Begun(o) = <<Start>> /\ ReadAll(c, <<Start>>) = Read(c, Start)
      BY <2>2, ReadFew, EventsAre DEF Begun
    <3> QED BY <2>2, <3>1, ReadIs
  <2> QED BY <2>1, <2>2
<1>4. ReadAll(c1, Closed(o)) = Before(c)
  <2> HIDE DEF c1
  <2>1. CASE o.open = "none"
    <3>1. Closed(o) = <<>> /\ ReadAll(c1, <<>>) = c1
      BY <1>2, <2>1, ReadFew DEF Closed
    <3> QED BY <1>2, <2>1, <3>1
  <2>2. CASE o.open # "none"
    <3>1. Closed(o) = <<Close>> /\ ReadAll(c1, <<Close>>) = Read(c1, Close)
      BY <1>2, <2>2, ReadFew, EventsAre DEF Closed
    <3> QED BY <1>2, <2>2, <3>1, ReadIs
  <2> QED BY <2>1, <2>2
<1> HIDE DEF c1
<1> QED BY <1>1, <1>2, <1>3, <1>4, ReadJoined

\* What it reads of a block that is opened, and of the end.
LEMMA OpeningIs ==
    ASSUME NEW c \in Readers, NEW o \in Outs, NEW item \in Shows, proto # "chat",
           c.phase = "open", c.begun = o.started, c.block = o.open
    PROVE  LET es == Begun(o) \o Closed(o) \o <<Open(item.kind), Delta(item)>>
           IN  /\ es \in Seq(Events) /\ es # <<>>
               /\ ReadAll(c, es) =
                    [c EXCEPT !.begun = TRUE, !.block = item.kind, !.got = Append(c.got, item)]
<1> DEFINE p == Begun(o) \o Closed(o)
           a == Open(item.kind)
           b == Delta(item)
           q == <<a, b>>
           d == Before(c)
           e == [d EXCEPT !.block = item.kind]
<1>1. item.kind \in {"text", "think", "call"}
  BY DEF Shows
<1>2. a \in Events /\ b \in Events
  BY <1>1, EventsAre
<1>3. p \in Seq(Events) /\ ReadAll(c, p) = d /\ d \in Readers
  BY PrefaceIs
<1>4. /\ d.phase = "open" /\ d.begun /\ d.block = "none" /\ d.got = c.got
      /\ e \in Readers /\ e.phase = "open" /\ e.block = item.kind /\ e.got = c.got
  BY <1>1 DEF Before, Readers, Block
<1>5. [e EXCEPT !.got = Append(e.got, item)] =
        [c EXCEPT !.begun = TRUE, !.block = item.kind, !.got = Append(c.got, item)]
  BY DEF Before, Readers
<1> HIDE DEF d, e
<1>6. Read(d, a) = [d EXCEPT !.block = item.kind]
  BY <1>1, <1>3, <1>4, ReadIs
<1>7. Read(e, b) = [e EXCEPT !.got = Append(e.got, item)]
  BY <1>1, <1>4, ReadIs
<1>8. Read(Read(d, a), b) = [c EXCEPT !.begun = TRUE, !.block = item.kind, !.got = Append(c.got, item)]
  BY <1>5, <1>6, <1>7 DEF e
<1>9. q \in Seq(Events) /\ Len(q) = 2
  BY <1>2
<1>10. ReadAll(d, q) = Read(Read(d, a), b)
  BY <1>2, <1>3, ReadFew
<1> HIDE DEF p, q, a, b
<1>11. p \o q \in Seq(Events) /\ ReadAll(c, p \o q) = ReadAll(d, q)
  BY <1>3, <1>9, ReadJoined
<1>12. p \o q # <<>>
  <2>1. Len(p \o q) = Len(p) + Len(q) /\ Len(p) \in Nat
    BY <1>3, <1>9, LenJoined
  <2>2. Len(p \o q) # 0
    BY <1>9, <2>1
  <2> QED BY <2>2
<1> QED BY <1>8, <1>10, <1>11, <1>12 DEF p, q, a, b

LEMMA EndingIs ==
    ASSUME NEW c \in Readers, NEW o \in Outs, NEW fin \in Reason, proto # "chat",
           c.phase = "open", c.begun = o.started, c.block = o.open
    PROVE  LET es == Begun(o) \o Closed(o) \o <<End(fin)>>
           IN  /\ es \in Seq(Events) /\ es # <<>>
               /\ ReadAll(c, es) =
                    [c EXCEPT !.begun = TRUE, !.block = "none", !.phase = "ended", !.reason = fin]
<1> DEFINE p == Begun(o) \o Closed(o)
           a == End(fin)
           q == <<a>>
           d == Before(c)
<1>2. a \in Events
  BY EventsAre
<1>3. p \in Seq(Events) /\ ReadAll(c, p) = d /\ d \in Readers
  BY PrefaceIs
<1>4. d.phase = "open" /\ d.begun /\ d.block = "none"
  BY DEF Before, Readers
<1>5. [d EXCEPT !.phase = "ended", !.reason = fin] =
        [c EXCEPT !.begun = TRUE, !.block = "none", !.phase = "ended", !.reason = fin]
  BY DEF Before, Readers
<1> HIDE DEF d
<1>6. Read(d, a) = [d EXCEPT !.phase = "ended", !.reason = fin]
  BY <1>3, <1>4, ReadIs
<1>9. q \in Seq(Events) /\ Len(q) = 1
  BY <1>2
<1>10. ReadAll(d, q) = Read(d, a)
  BY <1>2, <1>3, ReadFew
<1> HIDE DEF p, q, a
<1>11. p \o q \in Seq(Events) /\ ReadAll(c, p \o q) = ReadAll(d, q)
  BY <1>3, <1>9, ReadJoined
<1>12. p \o q # <<>>
  <2>1. Len(p \o q) = Len(p) + Len(q) /\ Len(p) \in Nat
    BY <1>3, <1>9, LenJoined
  <2>2. Len(p \o q) # 0
    BY <1>9, <2>1
  <2> QED BY <2>2
<1> QED BY <1>5, <1>6, <1>10, <1>11, <1>12 DEF p, q, a

-----------------------------------------------------------------------------
(* The writer and its client stay in step *)

\* The writer and its client agree, as long as writing does not fail.
InStep(w) ==
    /\ w \in Writers
    /\ w.o.err => gone
    /\ proto = "chat" => w.c.block = "none"
    /\ proto # "chat" => ~w.c.fault
    /\ ~w.o.err =>
          /\ w.o.done <=> w.c.phase # "open"
          /\ proto # "chat" => w.o.started = w.c.begun /\ w.o.open = w.c.block

\* What writing more may not change.
Further(w, v) ==
    /\ v.o.done = w.o.done /\ v.c.phase = w.c.phase /\ v.c.reason = w.c.reason
    /\ w.o.err => v.o.err /\ v.c = w.c
    /\ ~w.o.done => v.c.fault = w.c.fault

\* The text that the writer leaves out.
LeftOut(w, item) ==
    \/ w.o.err \/ w.o.done
    \/ proto # "chat" /\ item.kind = "think"
    \/ proto = "anthropic" /\ item.kind = "text" /\ w.o.open = "call"

LEMMA SendIs ==
    ASSUME NEW w \in Writers, NEW es \in Seq(Events), es # <<>>
    PROVE  /\ w.o.err => Send(w, es) = w
           /\ ~w.o.err /\ gone => Send(w, es) = [w EXCEPT !.o.err = TRUE]
           /\ ~w.o.err /\ ~gone => Send(w, es) = [w EXCEPT !.c = ReadAll(w.c, es)]
BY DEF Send

LEMMA OneEvent ==
    ASSUME NEW e \in Events
    PROVE  <<e>> \in Seq(Events) /\ <<e>> # <<>>
OBVIOUS

LEMMA ShowIs ==
    ASSUME NEW w, NEW item \in Shows, InStep(w)
    PROVE  LET v == Show(w, item)
           IN  /\ InStep(v) /\ Further(w, v)
               /\ LeftOut(w, item) => v.c.got = w.c.got
               /\ ~LeftOut(w, item) /\ ~v.o.err => v.c.got = Append(w.c.got, item)
               /\ ~LeftOut(w, item) /\ v.o.err => v.c.got = w.c.got
               /\ ~w.o.err /\ proto # "chat" =>
                     v.o.open = IF LeftOut(w, item) THEN w.o.open ELSE item.kind
<1> DEFINE v == Show(w, item)
<1>1. w \in Writers /\ w.c \in Readers /\ w.o \in Outs
  BY DEF InStep, Writers
<1>2. Delta(item) \in Events /\ item.kind \in {"text", "think", "call"}
  BY EventsAre DEF Shows
<1>3. w.c.phase = "open" /\ (proto = "chat" \/ w.c.block = item.kind) =>
        ReadAll(w.c, <<Delta(item)>>) = [w.c EXCEPT !.got = Append(w.c.got, item)]
  <2>1. ReadAll(w.c, <<Delta(item)>>) = Read(w.c, Delta(item))
    BY <1>1, <1>2, ReadFew
  <2> QED BY <1>1, <2>1, ReadIs
<1>4. w.c.phase # "open" =>
        ReadAll(w.c, <<Delta(item)>>) = [w.c EXCEPT !.fault = TRUE]
  <2>1. ReadAll(w.c, <<Delta(item)>>) = Read(w.c, Delta(item))
    BY <1>1, <1>2, ReadFew
  <2> QED BY <1>1, <2>1, ReadLate
<1>5. Append(w.c.got, item) \in Seq(Shows)
  BY <1>1 DEF Readers
<1>6. CASE proto = "chat"
  <2> DEFINE es == <<Delta(item)>>
  <2>1. v = Send(w, es)
    BY <1>6 DEF Show
  <2>2. es \in Seq(Events) /\ es # <<>>
    BY <1>2, OneEvent
  <2> HIDE DEF v
  <2>3. CASE w.o.err
    <3>1. v = w
      BY <1>1, <2>1, <2>2, <2>3, SendIs
    <3> QED BY <1>6, <2>3, <3>1 DEF InStep, Further, LeftOut, v
  <2>4. CASE ~w.o.err /\ gone
    <3>1. v = [w EXCEPT !.o.err = TRUE]
      BY <1>1, <2>1, <2>2, <2>4, SendIs
    <3> QED BY <1>1, <1>6, <2>4, <3>1 DEF InStep, Further, LeftOut, Writers, Outs, v
  <2>5. CASE ~w.o.err /\ ~gone /\ ~w.o.done
    <3>1. v = [w EXCEPT !.c = [w.c EXCEPT !.got = Append(w.c.got, item)]]
      BY <1>1, <1>3, <1>6, <2>1, <2>2, <2>5, SendIs DEF InStep
    <3> QED BY <1>1, <1>5, <1>6, <2>5, <3>1 DEF InStep, Further, LeftOut, Writers, Readers, v
  <2>6. CASE ~w.o.err /\ ~gone /\ w.o.done
    <3>1. v = [w EXCEPT !.c = [w.c EXCEPT !.fault = TRUE]]
      BY <1>1, <1>4, <2>1, <2>2, <2>6, SendIs DEF InStep
    <3>2. v.o = w.o /\ v.c = [w.c EXCEPT !.fault = TRUE] /\ v \in Writers
      BY <1>1, <3>1 DEF Writers, Readers
    <3>3. v.c.phase = w.c.phase /\ v.c.reason = w.c.reason /\ v.c.got = w.c.got
          /\ v.c.block = w.c.block
      BY <1>1, <3>2 DEF Readers
    <3> QED BY <1>6, <2>6, <3>2, <3>3 DEF InStep, Further, LeftOut, v
  <2> QED BY <2>3, <2>4, <2>5, <2>6
<1>7. CASE proto # "chat" /\ (w.o.done \/ item.kind = "think")
  <2>1. v = w
    BY <1>7 DEF Show
  <2> HIDE DEF v
  <2> QED BY <1>7, <2>1 DEF InStep, Further, LeftOut, v
<1>8. CASE proto # "chat" /\ ~w.o.done /\ item.kind = "text" /\ w.o.open = "text"
  <2> DEFINE es == <<Delta(item)>>
  <2>1. v = Send(w, es)
    BY <1>8 DEF Show
  <2>2. es \in Seq(Events) /\ es # <<>>
    BY <1>2, OneEvent
  <2> HIDE DEF v
  <2>3. CASE w.o.err
    <3>1. v = w
      BY <1>1, <2>1, <2>2, <2>3, SendIs
    <3> QED BY <1>8, <2>3, <3>1 DEF InStep, Further, LeftOut, v
  <2>4. CASE ~w.o.err /\ gone
    <3>1. v = [w EXCEPT !.o.err = TRUE]
      BY <1>1, <2>1, <2>2, <2>4, SendIs
    <3> QED BY <1>1, <1>8, <2>4, <3>1 DEF InStep, Further, LeftOut, Writers, Outs, v
  <2>5. CASE ~w.o.err /\ ~gone
    <3>1. v = [w EXCEPT !.c = [w.c EXCEPT !.got = Append(w.c.got, item)]]
      BY <1>1, <1>3, <1>8, <2>1, <2>2, <2>5, SendIs DEF InStep
    <3> QED BY <1>1, <1>5, <1>8, <2>5, <3>1 DEF InStep, Further, LeftOut, Writers, Readers, v
  <2> QED BY <2>3, <2>4, <2>5
<1>9. CASE proto = "anthropic" /\ ~w.o.done /\ item.kind = "text" /\ w.o.open = "call"
  <2>1. v = w
    BY <1>9 DEF Show
  <2> HIDE DEF v
  <2> QED BY <1>9, <2>1 DEF InStep, Further, LeftOut, v
<1>10. CASE /\ proto # "chat" /\ ~w.o.done /\ item.kind # "think"
            /\ ~(item.kind = "text" /\ w.o.open = "text")
            /\ ~(item.kind = "text" /\ w.o.open = "call" /\ proto = "anthropic")
  <2> DEFINE es == Begun(w.o) \o Closed(w.o) \o <<Open(item.kind), Delta(item)>>
             c2 == [w.c EXCEPT !.begun = TRUE, !.block = item.kind, !.got = Append(w.c.got, item)]
  <2>1. v = [Send(w, es) EXCEPT !.o.started = TRUE, !.o.open = item.kind]
    BY <1>10 DEF Show
  <2>2. es \in Seq(Events) /\ es # <<>>
    <3>1. PICK o2 \in Outs : o2 = w.o
      BY <1>1
    <3>2. Begun(w.o) \o Closed(w.o) \in Seq(Events)
      <4>1. Start \in Events /\ Close \in Events
        BY EventsAre
      <4>2. Begun(w.o) \in Seq(Events) /\ Closed(w.o) \in Seq(Events)
        BY <4>1 DEF Begun, Closed
      <4> QED BY <4>2
    <3>3. Open(item.kind) \in Events
      BY <1>2, EventsAre
    <3> DEFINE p == Begun(w.o) \o Closed(w.o)
               q == <<Open(item.kind), Delta(item)>>
    <3>4. p \in Seq(Events) /\ q \in Seq(Events) /\ Len(q) = 2
      BY <1>2, <3>2, <3>3
    <3> HIDE DEF p, q
    <3>5. p \o q \in Seq(Events) /\ Len(p \o q) = Len(p) + Len(q) /\ Len(p) \in Nat
      BY <3>4, LenJoined
    <3>6. Len(p \o q) # 0
      BY <3>4, <3>5
    <3> QED BY <3>5, <3>6 DEF p, q
  <2>3. w.c.phase = "open" /\ w.c.begun = w.o.started /\ w.c.block = w.o.open =>
          ReadAll(w.c, es) = c2
    BY <1>1, <1>10, OpeningIs
  <2> HIDE DEF v, es
  <2>4. CASE w.o.err
    <3>1. v = [w EXCEPT !.o.started = TRUE, !.o.open = item.kind]
      BY <1>1, <2>1, <2>2, <2>4, SendIs
    <3>2. v \in Writers /\ v.c = w.c /\ v.o.done = w.o.done /\ v.o.err
      BY <1>1, <1>2, <2>4, <3>1 DEF Writers, Outs, Block
    <3> QED BY <1>10, <2>4, <3>2 DEF InStep, Further, LeftOut, v
  <2>5. CASE ~w.o.err /\ gone
    <3>1. v = [w EXCEPT !.o.err = TRUE, !.o.started = TRUE, !.o.open = item.kind]
      BY <1>1, <2>1, <2>2, <2>5, SendIs
    <3>2. v \in Writers /\ v.c = w.c /\ v.o.done = w.o.done /\ v.o.err
          /\ v.o.open = item.kind
      BY <1>1, <1>2, <2>5, <3>1 DEF Writers, Outs, Block
    <3> QED BY <1>10, <2>5, <3>2 DEF InStep, Further, LeftOut, v
  <2>6. CASE ~w.o.err /\ ~gone
    <3>1. ReadAll(w.c, es) = c2
      BY <1>10, <2>3, <2>6 DEF InStep
    <3>2. Send(w, es) = [w EXCEPT !.c = c2]
      BY <1>1, <2>2, <2>6, <3>1, SendIs
    <3>3. /\ c2 \in Readers /\ c2.phase = w.c.phase /\ c2.reason = w.c.reason
          /\ c2.fault = w.c.fault /\ c2.begun /\ c2.block = item.kind
          /\ c2.got = Append(w.c.got, item)
      BY <1>1, <1>2, <1>5 DEF Readers, Block
    <3> HIDE DEF c2
    <3>4. v = [[w EXCEPT !.c = c2] EXCEPT !.o.started = TRUE, !.o.open = item.kind]
      BY <2>1, <3>2
    <3>5. v = [w EXCEPT !.c = c2, !.o.started = TRUE, !.o.open = item.kind]
      BY <1>1, <3>4 DEF Writers
    <3>6. /\ v \in Writers /\ v.c = c2 /\ v.o.done = w.o.done /\ ~v.o.err
          /\ v.o.open = item.kind /\ v.o.started
      BY <1>1, <1>2, <2>6, <3>3, <3>5 DEF Writers, Outs, Block
    <3> QED BY <1>10, <2>6, <3>3, <3>6 DEF InStep, Further, LeftOut, v
  <2> QED BY <2>4, <2>5, <2>6
<1>11. proto \in {"chat", "anthropic"} \/ proto \notin {"chat", "anthropic"}
  OBVIOUS
<1> QED BY <1>2, <1>6, <1>7, <1>8, <1>9, <1>10

-----------------------------------------------------------------------------
(* The end and the error frame *)

LEMMA FinishIs ==
    ASSUME NEW w, NEW fin \in Reason, InStep(w)
    PROVE  LET v == Finish(w, fin)
           IN  /\ InStep(v) /\ v.o.done
               /\ w.o.done => v = w
               /\ v.c.got = w.c.got /\ v.c.fault = w.c.fault
               /\ ~w.o.done /\ v.o.err => v.c = w.c
               /\ ~w.o.done /\ ~v.o.err =>
                     w.c.phase = "open" /\ v.c.phase = "ended" /\ v.c.reason = fin
<1> DEFINE v == Finish(w, fin)
<1>1. w \in Writers /\ w.c \in Readers /\ w.o \in Outs
  BY DEF InStep, Writers
<1>2. End(fin) \in Events
  BY EventsAre
<1>3. CASE w.o.done
  <2>1. v = w
    BY <1>3 DEF Finish
  <2> QED BY <1>3, <2>1
<1>4. CASE ~w.o.done /\ proto = "chat"
  <2> DEFINE es == <<End(fin)>>
             c2 == [w.c EXCEPT !.phase = "ended", !.reason = fin]
  <2>1. v = [Send(w, es) EXCEPT !.o.done = TRUE]
    BY <1>4 DEF Finish
  <2>2. es \in Seq(Events) /\ es # <<>>
    BY <1>2, OneEvent
  <2>3. ~w.o.err => ReadAll(w.c, es) = c2
    <3>1. ReadAll(w.c, es) = Read(w.c, End(fin))
      BY <1>1, <1>2, ReadFew
    <3>2. ~w.o.err => w.c.phase = "open" /\ w.c.block = "none"
      BY <1>4 DEF InStep
    <3> QED BY <1>1, <1>4, <3>1, <3>2, ReadIs
  <2>4. c2 \in Readers /\ c2.got = w.c.got /\ c2.fault = w.c.fault /\ c2.phase = "ended"
        /\ c2.reason = fin /\ c2.block = w.c.block
    BY <1>1 DEF Readers
  <2> HIDE DEF v, es, c2
  <2>5. CASE w.o.err
    <3>1. v = [w EXCEPT !.o.done = TRUE]
      BY <1>1, <2>1, <2>2, <2>5, SendIs
    <3>2. v \in Writers /\ v.c = w.c /\ v.o.done /\ v.o.err
      BY <1>1, <2>5, <3>1 DEF Writers, Outs
    <3> QED BY <1>4, <2>5, <3>2 DEF InStep, v
  <2>6. CASE ~w.o.err /\ gone
    <3>1. v = [[w EXCEPT !.o.err = TRUE] EXCEPT !.o.done = TRUE]
      BY <1>1, <2>1, <2>2, <2>6, SendIs
    <3>2. v \in Writers /\ v.c = w.c /\ v.o.done /\ v.o.err
      BY <1>1, <3>1 DEF Writers, Outs
    <3> QED BY <1>4, <2>6, <3>2 DEF InStep, v
  <2>7. CASE ~w.o.err /\ ~gone
    <3>1. v = [[w EXCEPT !.c = c2] EXCEPT !.o.done = TRUE]
      BY <1>1, <2>1, <2>2, <2>3, <2>7, SendIs
    <3>2. v \in Writers /\ v.c = c2 /\ v.o.done /\ ~v.o.err
      BY <1>1, <2>4, <2>7, <3>1 DEF Writers, Outs
    <3> QED BY <1>4, <2>4, <2>7, <3>2 DEF InStep, v
  <2> QED BY <1>4, <2>5, <2>6, <2>7 DEF v
<1>5. CASE ~w.o.done /\ proto # "chat"
  <2> DEFINE es == Begun(w.o) \o Closed(w.o) \o <<End(fin)>>
             c2 == [w.c EXCEPT !.begun = TRUE, !.block = "none", !.phase = "ended", !.reason = fin]
  <2>1. v = [Send(w, es) EXCEPT !.o.started = TRUE, !.o.open = "none", !.o.done = TRUE]
    BY <1>5 DEF Finish
  <2>2. es \in Seq(Events) /\ es # <<>>
    <3>1. Start \in Events /\ Close \in Events
      BY EventsAre
    <3>2. Begun(w.o) \in Seq(Events) /\ Closed(w.o) \in Seq(Events)
      BY <3>1 DEF Begun, Closed
    <3> DEFINE p == Begun(w.o) \o Closed(w.o)
               q == <<End(fin)>>
    <3>4. p \in Seq(Events) /\ q \in Seq(Events) /\ Len(q) = 1
      BY <1>2, <3>2
    <3> HIDE DEF p, q
    <3>5. p \o q \in Seq(Events) /\ Len(p \o q) = Len(p) + Len(q) /\ Len(p) \in Nat
      BY <3>4, LenJoined
    <3>6. Len(p \o q) # 0
      BY <3>4, <3>5
    <3> QED BY <3>5, <3>6 DEF p, q
  <2>3. ~w.o.err => ReadAll(w.c, es) = c2
    <3>2. ~w.o.err => w.c.phase = "open" /\ w.c.begun = w.o.started /\ w.c.block = w.o.open
      BY <1>5 DEF InStep
    <3> QED BY <1>1, <1>5, <3>2, EndingIs
  <2>4. c2 \in Readers /\ c2.got = w.c.got /\ c2.fault = w.c.fault /\ c2.phase = "ended"
        /\ c2.reason = fin /\ c2.block = "none" /\ c2.begun
    BY <1>1 DEF Readers, Block
  <2> HIDE DEF v, es, c2
  <2>5. CASE w.o.err
    <3>1. v = [w EXCEPT !.o.started = TRUE, !.o.open = "none", !.o.done = TRUE]
      BY <1>1, <2>1, <2>2, <2>5, SendIs
    <3>2. v \in Writers /\ v.c = w.c /\ v.o.done /\ v.o.err
      BY <1>1, <2>5, <3>1 DEF Writers, Outs, Block
    <3> QED BY <1>5, <2>5, <3>2 DEF InStep, v
  <2>6. CASE ~w.o.err /\ gone
    <3>1. v = [[w EXCEPT !.o.err = TRUE] EXCEPT !.o.started = TRUE, !.o.open = "none", !.o.done = TRUE]
      BY <1>1, <2>1, <2>2, <2>6, SendIs
    <3>2. v \in Writers /\ v.c = w.c /\ v.o.done /\ v.o.err
      BY <1>1, <3>1 DEF Writers, Outs, Block
    <3> QED BY <1>5, <2>6, <3>2 DEF InStep, v
  <2>7. CASE ~w.o.err /\ ~gone
    <3>0. Send(w, es) = [w EXCEPT !.c = c2]
      BY <1>1, <2>2, <2>3, <2>7, SendIs
    <3>1. v = [[w EXCEPT !.c = c2] EXCEPT !.o.started = TRUE, !.o.open = "none", !.o.done = TRUE]
      BY <2>1, <3>0
    <3>2. /\ v \in Writers /\ v.c = c2 /\ v.o.done /\ ~v.o.err
          /\ v.o.started /\ v.o.open = "none"
      BY <1>1, <2>4, <2>7, <3>1 DEF Writers, Outs, Block
    <3> QED BY <1>5, <2>4, <2>7, <3>2 DEF InStep, v
  <2> QED BY <1>5, <2>5, <2>6, <2>7 DEF v
<1> QED BY <1>3, <1>4, <1>5

LEMMA ShowErrorIs ==
    ASSUME NEW w, InStep(w), ~w.o.err
    PROVE  LET v == ShowError(w)
           IN  /\ InStep(v) /\ v.o.done
               /\ v.c.got = w.c.got /\ v.c.reason = w.c.reason
               /\ v.c.phase = w.c.phase \/ (w.c.phase = "open" /\ v.c.phase = "failed")
<1> DEFINE v == ShowError(w)
           es == <<Failure>>
           c2 == [w.c EXCEPT !.phase = "failed"]
           c3 == [w.c EXCEPT !.fault = TRUE]
<1>1. w \in Writers /\ w.c \in Readers /\ w.o \in Outs
  BY DEF InStep, Writers
<1>2. Failure \in Events
  BY EventsAre
<1>3. es \in Seq(Events) /\ es # <<>>
  BY <1>2, OneEvent
<1>4. ReadAll(w.c, es) = Read(w.c, Failure)
  BY <1>1, <1>2, ReadFew
<1>5. /\ c2 \in Readers /\ c2.got = w.c.got /\ c2.reason = w.c.reason /\ c2.fault = w.c.fault
      /\ c2.block = w.c.block /\ c2.phase = "failed" /\ c2.begun = w.c.begun
      /\ c3 \in Readers /\ c3.got = w.c.got /\ c3.reason = w.c.reason
      /\ c3.block = w.c.block /\ c3.phase = w.c.phase /\ c3.begun = w.c.begun
  BY <1>1 DEF Readers
<1>6. w.c.phase = "open" => ReadAll(w.c, es) = c2
  BY <1>1, <1>4, ReadIs
<1>7. w.c.phase # "open" => ReadAll(w.c, es) = c3
  BY <1>1, <1>4, ReadLate
<1> HIDE DEF es, c2, c3
<1>8. CASE proto # "chat" /\ w.o.done
  <2>1. v = w
    BY <1>8 DEF ShowError
  <2> QED BY <1>8, <2>1
<1>9. CASE ~(proto # "chat" /\ w.o.done)
  <2>1. v = [Send(w, es) EXCEPT !.o.done = TRUE]
    BY <1>9 DEF ShowError, es
  <2> HIDE DEF v
  <2>2. CASE gone
    <3>1. v = [[w EXCEPT !.o.err = TRUE] EXCEPT !.o.done = TRUE]
      BY <1>1, <1>3, <2>1, <2>2, SendIs
    <3>2. v \in Writers /\ v.c = w.c /\ v.o.done /\ v.o.err
      BY <1>1, <3>1 DEF Writers, Outs
    <3> QED BY <1>9, <2>2, <3>2 DEF InStep, v
  <2>3. CASE ~gone /\ w.c.phase = "open"
    <3>1. v = [[w EXCEPT !.c = c2] EXCEPT !.o.done = TRUE]
      BY <1>1, <1>3, <1>6, <2>1, <2>3, SendIs
    <3>2. v \in Writers /\ v.c = c2 /\ v.o = [w.o EXCEPT !.done = TRUE]
      BY <1>1, <1>5, <3>1 DEF Writers, Outs
    <3>3. v.o.done /\ ~v.o.err /\ v.o.open = w.o.open /\ v.o.started = w.o.started
      BY <1>1, <3>2 DEF Outs
    <3> QED BY <1>5, <1>9, <2>3, <3>2, <3>3 DEF InStep, v
  <2>4. CASE ~gone /\ w.c.phase # "open"
    <3>1. v = [[w EXCEPT !.c = c3] EXCEPT !.o.done = TRUE]
      BY <1>1, <1>3, <1>7, <2>1, <2>4, SendIs
    <3>2. v \in Writers /\ v.c = c3 /\ v.o = [w.o EXCEPT !.done = TRUE]
      BY <1>1, <1>5, <3>1 DEF Writers, Outs
    <3>3. v.o.done /\ ~v.o.err /\ v.o.open = w.o.open /\ v.o.started = w.o.started
          /\ w.o.done /\ proto = "chat"
      BY <1>1, <1>9, <2>4, <3>2 DEF Outs, InStep
    <3> QED BY <1>5, <2>4, <3>2, <3>3 DEF InStep, v
  <2> QED BY <2>2, <2>3, <2>4 DEF v
<1> QED BY <1>8, <1>9

-----------------------------------------------------------------------------
(* Several items *)

Good == {w \in Writers : InStep(w)}

LEMMA ShowGood == ASSUME NEW w \in Good, NEW item \in Shows PROVE Show(w, item) \in Good
BY ShowIs DEF Good, InStep

\* The items are shown one after another.
LEMMA ShowsAll ==
    ASSUME NEW c \in Good, NEW es \in Seq(Shows)
    PROVE  \E F \in [0 .. Len(es) -> Good] :
              /\ F[0] = c /\ F[Len(es)] = ShowAll(c, es)
              /\ \A k \in 1 .. Len(es) : F[k] = Show(F[k - 1], es[k])
<1> DEFINE n == Len(es)
           g == [x \in Good \X (1 .. n) |-> Show(x[1], es[x[2]])]
           Is(h) == h = [S \in SUBSET DOMAIN es |->
                           IF S = {} THEN c ELSE Show(h[S \ {Max(S)}], es[Max(S)])]
           f == CHOOSE h : Is(h)
<1>0. n \in Nat /\ DOMAIN es = 1 .. n
  OBVIOUS
<1>1. \A a \in Good, k \in 1 .. n : Show(a, es[k]) \in Good
  BY ShowGood
<1>2. /\ g \in [Good \X (1 .. n) -> Good]
      /\ \A a \in Good, k \in 1 .. n : g[<<a, k>>] = Show(a, es[k])
  BY <1>1
<1> HIDE DEF g
<1>3. PICK h \in [SUBSET (1 .. n) -> Good] : Stepped(n, c, g, h)
  BY <1>0, <1>2, FoldExists
<1>4. \A S \in SUBSET (1 .. n) : S # {} => Max(S) \in 1 .. n /\ S \ {Max(S)} \in SUBSET (1 .. n)
  BY <1>0, MaxIs
<1>5. Is(h)
  BY <1>0, <1>2, <1>3, <1>4 DEF Stepped
<1>6. Is(f)
  BY <1>5
<1> HIDE DEF f
<1>7. f[{}] = c
  BY <1>6
<1>8. Follows(n, Good, g, f)
  BY <1>0, <1>2, <1>4, <1>6 DEF Follows
<1>9. ShowAll(c, es) = f[1 .. n]
  <2>1. ShowAll(c, es) = f[DOMAIN es]
    BY DEF ShowAll, FoldLeft, MapThenFoldSet, f
  <2> QED BY <1>0, <2>1
<1> HIDE DEF n, Is
<1>10. Passes(n, Good, c, g, f[1 .. n])
  BY <1>0, <1>2, <1>7, <1>8, StepsOfFold
<1>12. PICK F \in [0 .. n -> Good] :
         F[0] = c /\ F[n] = f[1 .. n] /\ \A k \in 1 .. n : F[k] = g[<<F[k - 1], k>>]
  BY <1>10 DEF Passes
<1>11. \A k \in 1 .. n : F[k] = Show(F[k - 1], es[k])
  <2>1. \A k \in 1 .. n : k - 1 \in 0 .. n
    BY <1>0
  <2> QED BY <1>2, <1>12, <2>1
<1> QED BY <1>9, <1>11, <1>12 DEF n

LEMMA HasCallIs ==
    ASSUME NEW s
    PROVE  Promise!HasCall(s) <=> \E i \in DOMAIN s : s[i].kind = "call"
BY DEF Promise!HasCall

\* t goes on where s ends.
Longer(s, t) == Len(s) <= Len(t) /\ \A i \in 1 .. Len(s) : t[i] = s[i]

LEMMA LongerIs ==
    ASSUME NEW s \in Seq(Shows), NEW t \in Seq(Shows), Longer(s, t)
    PROVE  IsPrefix(s, t)
<1>1. SubSeq(s, 1, Len(s)) = SubSeq(t, 1, Len(s))
  BY DEF Longer
<1> QED BY <1>1 DEF IsPrefix, Longer

LEMMA LongerStep ==
    ASSUME NEW s \in Seq(Shows), NEW t \in Seq(Shows), NEW x \in Shows, Longer(s, t)
    PROVE  Longer(s, Append(t, x))
BY DEF Longer

LEMMA ShowAllIs ==
    ASSUME NEW w, InStep(w), NEW items \in Seq(Shows)
    PROVE  LET v == ShowAll(w, items)
           IN  InStep(v) /\ Further(w, v) /\ Longer(w.c.got, v.c.got)
<1> DEFINE n == Len(items)
<1>1. w \in Good /\ n \in Nat
  BY DEF Good, InStep
<1>2. PICK F \in [0 .. n -> Good] :
        /\ F[0] = w /\ F[n] = ShowAll(w, items)
        /\ \A k \in 1 .. n : F[k] = Show(F[k - 1], items[k])
  BY <1>1, ShowsAll
<1> DEFINE T == {k \in 0 .. n : Further(w, F[k]) /\ Longer(w.c.got, F[k].c.got)}
<1>3. 0 \in T
  <2>1. w.c.got \in Seq(Shows)
    BY <1>1 DEF Good, Writers, Readers
  <2> QED BY <1>1, <1>2, <2>1 DEF Further, Longer
<1>4. ASSUME NEW k \in 1 .. n, k - 1 \in T PROVE k \in T
  <2> DEFINE u == F[k - 1]
             v == F[k]
  <2>1. k - 1 \in 0 .. n /\ k \in 0 .. n /\ items[k] \in Shows
    OBVIOUS
  <2>2. v = Show(u, items[k]) /\ u \in Good /\ v \in Good
    BY <1>2, <2>1
  <2>3. Further(w, u) /\ Longer(w.c.got, u.c.got)
    BY <1>4
  <2> HIDE DEF u, v
  <2>4. Further(u, v) /\ v.c.got \in {u.c.got, Append(u.c.got, items[k])}
    BY <2>1, <2>2, ShowIs DEF Good
  <2>5. Further(w, v)
    BY <2>3, <2>4 DEF Further
  <2>6. w.c.got \in Seq(Shows) /\ u.c.got \in Seq(Shows)
    BY <1>1, <2>2 DEF Good, Writers, Readers
  <2>7. Longer(w.c.got, v.c.got)
    BY <2>1, <2>3, <2>4, <2>6, LongerStep
  <2> QED BY <2>1, <2>5, <2>7 DEF v
<1>5. 0 .. n \subseteq T
  <2> HIDE DEF T, n
  <2> QED BY <1>1, <1>3, <1>4, UpTo
<1>6. n \in 0 .. n
  BY <1>1
<1>7. n \in T /\ F[n] \in Good
  BY <1>5, <1>6
<1> QED BY <1>2, <1>7 DEF Good

\* Of some items and what has been found before them: no text comes after a
\* call.
Orderly(found, items) ==
    \A j \in DOMAIN items : items[j].kind = "text" =>
        ~found /\ \A i \in 1 .. (j - 1) : items[i].kind # "call"

LEMMA OneMore ==
    ASSUME NEW s \in Seq(Shows), NEW x \in Shows
    PROVE  /\ Len(s) \in Nat /\ DOMAIN s = 1 .. Len(s)
           /\ DOMAIN Append(s, x) = 1 .. (Len(s) + 1) /\ Append(s, x)[Len(s) + 1] = x
           /\ \A i \in 1 .. Len(s) : Append(s, x)[i] = s[i]
OBVIOUS

LEMMA CallsStayLast ==
    ASSUME NEW w, InStep(w), NEW items \in Seq(Shows), NEW found \in BOOLEAN,
           Orderly(found, items),
           Promise!CallsLast(w.c.got), Promise!HasCall(w.c.got) => found
    PROVE  LET v == ShowAll(w, items)
           IN  /\ Promise!CallsLast(v.c.got)
               /\ Promise!HasCall(v.c.got) => found \/ Promise!HasCall(items)
               /\ ~v.o.err /\ ~w.o.done /\ (Promise!HasCall(w.c.got) \/ Promise!HasCall(items))
                    => Promise!HasCall(v.c.got)
<1> DEFINE n == Len(items)
           Told(k) == \E i \in 1 .. k : items[i].kind = "call"
<1>1. w \in Good /\ n \in Nat
  BY DEF Good, InStep
<1>2. PICK F \in [0 .. n -> Good] :
        /\ F[0] = w /\ F[n] = ShowAll(w, items)
        /\ \A k \in 1 .. n : F[k] = Show(F[k - 1], items[k])
  BY <1>1, ShowsAll
<1> DEFINE P(k) == /\ Promise!CallsLast(F[k].c.got)
                   /\ Promise!HasCall(F[k].c.got) => found \/ Told(k)
                   /\ ~F[k].o.err /\ ~F[k].o.done /\ (Promise!HasCall(w.c.got) \/ Told(k))
                        => Promise!HasCall(F[k].c.got)
                   /\ F[k].o.done = w.o.done
           T == {k \in 0 .. n : P(k)}
<1>3. 0 \in T
  BY <1>1, <1>2
<1>4. ASSUME NEW k \in 1 .. n, k - 1 \in T PROVE k \in T
  <2> DEFINE u == F[k - 1]
             v == F[k]
             x == items[k]
  <2>1. k - 1 \in 0 .. n /\ k \in 0 .. n /\ x \in Shows
    OBVIOUS
  <2>2. v = Show(u, x) /\ u \in Good /\ v \in Good
    BY <1>2, <2>1
  <2>3. P(k - 1)
    BY <1>4
  <2>4. Told(k) <=> Told(k - 1) \/ x.kind = "call"
    OBVIOUS
  <2>5. x.kind = "text" => ~found /\ ~Told(k - 1)
    BY DEF Orderly
  <2> HIDE DEF u, v, x, Told
  <2>6. /\ Further(u, v)
        /\ LeftOut(u, x) => v.c.got = u.c.got
        /\ ~LeftOut(u, x) /\ ~v.o.err => v.c.got = Append(u.c.got, x)
        /\ ~LeftOut(u, x) /\ v.o.err => v.c.got = u.c.got
        /\ x.kind = "call" /\ ~u.o.err /\ ~u.o.done => ~LeftOut(u, x)
    BY <2>1, <2>2, ShowIs DEF Good, LeftOut
  <2>7. u.c.got \in Seq(Shows)
    BY <2>2 DEF Good, Writers, Readers
  <2>8. /\ Promise!HasCall(Append(u.c.got, x)) <=> Promise!HasCall(u.c.got) \/ x.kind = "call"
        /\ Promise!CallsLast(u.c.got) /\ (Promise!HasCall(u.c.got) => x.kind # "text")
              => Promise!CallsLast(Append(u.c.got, x))
    <3> DEFINE s == u.c.got
               t == Append(s, x)
    <3>1. /\ s \in Seq(Shows) /\ Len(s) \in Nat /\ DOMAIN s = 1 .. Len(s)
          /\ DOMAIN t = 1 .. (Len(s) + 1) /\ t[Len(s) + 1] = x
          /\ \A i \in 1 .. Len(s) : t[i] = s[i]
      <4> HIDE DEF s
      <4>1. s \in Seq(Shows) /\ x \in Shows
        BY <2>1, <2>7 DEF s
      <4> QED BY <4>1, OneMore
    <3> HIDE DEF s, t
    <3>2. Promise!HasCall(t) <=> Promise!HasCall(s) \/ x.kind = "call"
      <4>1. \A i : i \in DOMAIN t <=> i \in DOMAIN s \/ i = Len(s) + 1
        BY <3>1
      <4>2. \A i \in DOMAIN s : t[i] = s[i]
        BY <3>1
      <4>3. t[Len(s) + 1] = x
        BY <3>1
      <4> QED BY <4>1, <4>2, <4>3, Zenon DEF Promise!HasCall
    <3>3. ASSUME Promise!CallsLast(s), Promise!HasCall(s) => x.kind # "text"
          PROVE  Promise!CallsLast(t)
      <4> SUFFICES ASSUME NEW i \in DOMAIN t, NEW j \in DOMAIN t, i < j, t[i].kind = "call"
                   PROVE  t[j].kind # "text"
        BY DEF Promise!CallsLast
      <4>1. i \in 1 .. Len(s)
        BY <3>1
      <4>2. CASE j \in 1 .. Len(s)
        BY <3>1, <3>3, <4>1, <4>2 DEF Promise!CallsLast
      <4>3. CASE j = Len(s) + 1
        BY <3>1, <3>3, <4>1, <4>3 DEF Promise!HasCall
      <4> QED BY <3>1, <4>2, <4>3
    <3> QED BY <3>2, <3>3 DEF s, t
  <2>9. P(k)
    <3>1. v.o.done = u.o.done /\ (u.o.err => v.o.err)
      BY <2>6 DEF Further
    <3>2. CASE v.c.got = u.c.got
      <4>1. ~v.o.err /\ ~v.o.done => x.kind # "call"
        BY <2>6, <2>7, <2>8, <3>1, <3>2
      <4> QED BY <2>3, <2>4, <3>1, <3>2, <4>1 DEF u, v
    <3>3. CASE v.c.got = Append(u.c.got, x)
      <4>1. Promise!CallsLast(v.c.got)
        BY <2>3, <2>5, <2>8, <3>3 DEF u
      <4>2. Promise!HasCall(v.c.got) => found \/ Told(k)
        BY <2>3, <2>4, <2>8, <3>3 DEF u
      <4>3. ~v.o.err /\ ~v.o.done /\ (Promise!HasCall(w.c.got) \/ Told(k)) => Promise!HasCall(v.c.got)
        BY <2>3, <2>4, <2>8, <3>1, <3>3 DEF u
      <4> QED BY <2>3, <3>1, <4>1, <4>2, <4>3 DEF u, v
    <3> QED BY <2>6, <3>2, <3>3
  <2> QED BY <2>1, <2>9
<1>5. 0 .. n \subseteq T
  <2> HIDE DEF T, n
  <2> QED BY <1>1, <1>3, <1>4, UpTo
<1>6. n \in 0 .. n
  BY <1>1
<1>7. P(n)
  BY <1>5, <1>6
<1>8. Promise!HasCall(items) <=> Told(n)
  BY DEF Promise!HasCall
<1> HIDE DEF Told, n
<1> QED BY <1>2, <1>7, <1>8

-----------------------------------------------------------------------------
(* Texts and the marks in them *)

Txt == Seq(Val)

LEMMA FromIs ==
    ASSUME NEW s \in Txt, NEW k \in 1 .. (Len(s) + 1)
    PROVE  /\ From(s, k) \in Txt /\ Len(From(s, k)) = Len(s) + 1 - k
           /\ \A i \in 1 .. Len(From(s, k)) : From(s, k)[i] = s[k + i - 1]
BY DEF From, Txt

LEMMA FromTyped ==
    ASSUME NEW s \in Txt, NEW k \in Nat \ {0}
    PROVE  From(s, k) \in Txt
<1>1. CASE k \in 1 .. (Len(s) + 1)
  BY <1>1, FromIs
<1>2. CASE k > Len(s) + 1
  BY <1>2 DEF From, Txt
<1>3. Len(s) \in Nat
  BY DEF Txt
<1> QED BY <1>1, <1>2, <1>3

LEMMA UptoIs ==
    ASSUME NEW s \in Txt, NEW k \in 1 .. (Len(s) + 1)
    PROVE  /\ Upto(s, k) \in Txt /\ Len(Upto(s, k)) = k - 1
           /\ \A i \in 1 .. (k - 1) : Upto(s, k)[i] = s[i]
BY DEF Upto, Txt

LEMMA MinIs ==
    ASSUME NEW n \in Nat, NEW S \in SUBSET (1 .. n), S # {}
    PROVE  Min(S) \in S /\ \A j \in S : Min(S) <= j
<1>1. \E x \in S : \A y \in S : x <= y
  BY FirstPosition
<1> DEFINE mn == CHOOSE x \in S : \A y \in S : x <= y
<1>2. mn \in S /\ \A y \in S : mn <= y
  BY <1>1
<1>3. Min(S) = mn
  BY DEF Min
<1> HIDE DEF mn
<1> QED BY <1>2, <1>3

LEMMA FirstIs ==
    ASSUME NEW s \in Txt, NEW T
    PROVE  LET n == First(s, T)
           IN  /\ n \in 0 .. Len(s)
               /\ n = 0 => \A j \in 1 .. Len(s) : s[j] \notin T
               /\ n # 0 => s[n] \in T /\ \A j \in 1 .. (n - 1) : s[j] \notin T
<1> DEFINE I == {j \in 1 .. Len(s) : s[j] \in T}
<1>1. First(s, T) = IF I # {} THEN Min(I) ELSE 0
  BY DEF First, SelectInSeq
<1>2. Len(s) \in Nat
  BY DEF Txt
<1>3. CASE I = {}
  BY <1>1, <1>2, <1>3
<1>4. CASE I # {}
  <2>1. Min(I) \in I /\ \A j \in I : Min(I) <= j
    BY <1>2, <1>4, MinIs
  <2>2. First(s, T) = Min(I)
    BY <1>1, <1>4
  <2> HIDE DEF I
  <2> DEFINE n == First(s, T)
  <2>3. n \in I /\ \A j \in I : n <= j
    BY <2>1, <2>2
  <2> HIDE DEF n
  <2>4. n \in 1 .. Len(s) /\ s[n] \in T
    BY <2>3 DEF I
  <2>5. ASSUME NEW j \in 1 .. (n - 1) PROVE s[j] \notin T
    <3>1. j \in 1 .. Len(s) /\ ~(n <= j)
      BY <1>2, <2>4
    <3> QED BY <2>3, <3>1 DEF I
  <2> QED BY <1>2, <2>4, <2>5 DEF n
<1> QED BY <1>3, <1>4

LEMMA LineStartIs ==
    ASSUME NEW s \in Txt, NEW i \in 1 .. (Len(s) + 1)
    PROVE  LineStart(s, i) \in 1 .. i
<1> DEFINE r == Upto(s, i)
           I == {j \in 1 .. Len(r) : r[j] = "nl"}
<1>1. LineStart(s, i) = 1 + (IF I # {} THEN Max(I) ELSE 0)
  BY DEF LineStart, SelectLastInSeq
<1>2. Len(r) = i - 1 /\ i - 1 \in Nat /\ i \in Nat
  BY UptoIs DEF Txt
<1>3. CASE I = {}
  BY <1>1, <1>2, <1>3
<1>4. CASE I # {}
  <2>1. Max(I) \in I
    BY <1>2, <1>4, MaxIs
  <2>2. Max(I) \in 1 .. (i - 1)
    BY <1>2, <2>1
  <2> QED BY <1>1, <1>2, <1>4, <2>2
<1> QED BY <1>3, <1>4

LEMMA LineEndIs ==
    ASSUME NEW s \in Txt, NEW i \in 1 .. (Len(s) + 1)
    PROVE  LineEnd(s, i) \in i .. (Len(s) + 1)
<1> DEFINE n == First(From(s, i), {"nl"})
<1>1. n \in 0 .. (Len(s) + 1 - i)
  BY FromIs, FirstIs
<1>2. LineEnd(s, i) = IF n = 0 THEN Len(s) + 1 ELSE i + n - 1
  BY DEF LineEnd
<1>3. Len(s) \in Nat
  BY DEF Txt
<1> HIDE DEF n
<1> QED BY <1>1, <1>2, <1>3

\* The k-th token is the word that makes the ``` at i an opening.
Opens(s, i, k) ==
    /\ k \in (i + 1) .. Len(s) /\ s[k] = "tool"
    /\ \A j \in (i + 1) .. (k - 1) : s[j] = "sp"

LEMMA FenceIs ==
    ASSUME NEW s \in Txt, NEW i \in DOMAIN s
    PROVE  LET f == Fence(s, i)
           IN  /\ f.at = i /\ f.opens \in BOOLEAN
               /\ f.after \in (i + 1) .. (Len(s) + 1)
               /\ f.opens => Opens(s, i, f.after - 1)
               /\ ~f.opens => f.after = i + 1 /\ \A k : ~Opens(s, i, k)
               /\ \A k : Opens(s, i, k) => f = [at |-> i, opens |-> TRUE, after |-> k + 1]
<1> DEFINE r == From(s, i + 1)
           I == {j \in 1 .. Len(r) : r[j] # "sp"}
           n == IF I # {} THEN Min(I) ELSE 0
           k0 == i + n
           f == Fence(s, i)
<1>1. Len(s) \in Nat /\ i \in Nat /\ i \in 1 .. Len(s) /\ i + 1 \in 1 .. (Len(s) + 1)
  BY DEF Txt
<1>2. /\ r \in Txt /\ Len(r) = Len(s) - i
      /\ \A j \in 1 .. Len(r) : r[j] = s[i + j]
  <2>1. /\ r \in Txt /\ Len(r) = Len(s) + 1 - (i + 1)
        /\ \A j \in 1 .. Len(r) : r[j] = s[(i + 1) + j - 1]
    BY <1>1, FromIs
  <2> HIDE DEF r
  <2>2. \A j \in 1 .. Len(r) : (i + 1) + j - 1 = i + j
    BY <1>1, <2>1
  <2> QED BY <1>1, <2>1, <2>2
<1>3. f = IF n > 0 /\ s[k0] = "tool"
          THEN [at |-> i, opens |-> TRUE, after |-> k0 + 1]
          ELSE [at |-> i, opens |-> FALSE, after |-> i + 1]
  BY DEF Fence, SelectInSeq
<1> HIDE DEF r, f
<1>4. ASSUME NEW k, Opens(s, i, k)
      PROVE  I # {} /\ n = k - i /\ k0 = k /\ s[k0] = "tool"
  <2>1. k \in (i + 1) .. Len(s) /\ s[k] = "tool"
    BY <1>4 DEF Opens
  <2>2. k - i \in 1 .. Len(r) /\ i + (k - i) = k
    BY <1>1, <1>2, <2>1
  <2>3. k - i \in I
    BY <1>2, <2>1, <2>2
  <2>4. \A j \in I : j >= k - i
    <3> SUFFICES ASSUME NEW j \in I, j < k - i PROVE FALSE
      BY <1>1, <1>2, <2>2
    <3>1. i + j \in (i + 1) .. (k - 1)
      BY <1>1, <1>2, <2>1
    <3> QED BY <1>2, <1>4, <3>1 DEF Opens
  <2>5. I \in SUBSET (1 .. Len(r)) /\ Len(r) \in Nat
    BY <1>1, <1>2
  <2> HIDE DEF I
  <2>6. Min(I) \in I /\ \A j \in I : Min(I) <= j
    BY <2>3, <2>5, MinIs
  <2>7. Min(I) = k - i
    <3>1. Min(I) <= k - i /\ Min(I) >= k - i
      BY <2>3, <2>4, <2>6
    <3>2. Min(I) \in 1 .. Len(r)
      BY <2>5, <2>6
    <3> QED BY <2>2, <2>5, <3>1, <3>2
  <2> QED BY <1>1, <2>1, <2>2, <2>3, <2>7
<1>5. ASSUME n > 0, s[k0] = "tool"
      PROVE  Opens(s, i, k0) /\ k0 \in (i + 1) .. Len(s)
  <2>1. I # {} /\ I \in SUBSET (1 .. Len(r)) /\ Len(r) \in Nat
    BY <1>1, <1>2, <1>5
  <2>2. n \in I /\ \A j \in I : n <= j
    BY <2>1, MinIs
  <2> HIDE DEF n
  <2>3. n \in 1 .. Len(r)
    BY <2>1, <2>2
  <2>4. k0 \in (i + 1) .. Len(s)
    BY <1>1, <1>2, <2>3
  <2>5. ASSUME NEW j \in (i + 1) .. (k0 - 1) PROVE s[j] = "sp"
    <3>0. j \in Nat /\ n \in Nat /\ Len(r) \in Nat /\ n <= Len(r) /\ i + 1 <= j /\ j <= i + n - 1
      BY <1>1, <1>2, <2>3
    <3>1. j - i \in 1 .. Len(r) /\ ~(n <= j - i) /\ i + (j - i) = j
      BY <1>1, <3>0
    <3>2. j - i \notin I
      BY <2>2, <3>1
    <3> QED BY <1>2, <3>1, <3>2
  <2> QED BY <1>5, <2>4, <2>5 DEF Opens
<1> HIDE DEF n, I
<1>6. CASE n > 0 /\ s[k0] = "tool"
  <2>1. f = [at |-> i, opens |-> TRUE, after |-> k0 + 1]
    BY <1>3, <1>6
  <2>2. Opens(s, i, k0) /\ k0 \in (i + 1) .. Len(s)
    BY <1>5, <1>6
  <2> HIDE DEF k0
  <2>3. k0 + 1 - 1 = k0 /\ k0 + 1 \in (i + 1) .. (Len(s) + 1)
    BY <1>1, <2>2
  <2>4. \A k : Opens(s, i, k) => k0 = k
    BY <1>4
  <2>5. /\ f.at = i /\ f.opens /\ f.after = k0 + 1
        /\ \A k : Opens(s, i, k) => f = [at |-> i, opens |-> TRUE, after |-> k + 1]
    BY <2>1, <2>4
  <2> QED BY <2>2, <2>3, <2>5 DEF f
<1>7. CASE ~(n > 0 /\ s[k0] = "tool")
  <2>1. f = [at |-> i, opens |-> FALSE, after |-> i + 1]
    BY <1>3, <1>7
  <2>2. \A k : ~Opens(s, i, k)
    <3> SUFFICES ASSUME NEW k, Opens(s, i, k) PROVE FALSE
      OBVIOUS
    <3>1. n = k - i /\ s[k0] = "tool" /\ k \in (i + 1) .. Len(s)
      BY <1>4 DEF Opens
    <3>2. n > 0
      BY <1>1, <3>1
    <3> QED BY <1>7, <3>1, <3>2
  <2>3. i + 1 \in (i + 1) .. (Len(s) + 1)
    BY <1>1
  <2> QED BY <2>1, <2>2, <2>3 DEF f
<1> QED BY <1>6, <1>7

-----------------------------------------------------------------------------
(* The marks in a part of a text *)

\* A fence seen from a later start of the text.
LEMMA OpensFrom ==
    ASSUME NEW s \in Txt, NEW m \in 1 .. (Len(s) + 1), NEW i \in 1 .. Len(From(s, m)),
           NEW k \in Nat
    PROVE  /\ m + i - 1 \in DOMAIN s /\ From(s, m)[i] = s[m + i - 1]
           /\ Opens(From(s, m), i, k) <=> Opens(s, m + i - 1, m + k - 1)
<1> DEFINE r == From(s, m)
<1>1. /\ r \in Txt /\ Len(r) = Len(s) + 1 - m /\ Len(s) \in Nat /\ m \in Nat /\ i \in Nat
      /\ \A j \in 1 .. Len(r) : r[j] = s[m + j - 1]
      /\ DOMAIN s = 1 .. Len(s)
  BY FromIs DEF Txt
<1> HIDE DEF r
<1>2. m + i - 1 \in DOMAIN s /\ r[i] = s[m + i - 1]
  BY <1>1 DEF r
<1>3. ASSUME Opens(r, i, k) PROVE Opens(s, m + i - 1, m + k - 1)
  <2>1. k \in (i + 1) .. Len(r) /\ r[k] = "tool"
    BY <1>3 DEF Opens
  <2>2. m + k - 1 \in ((m + i - 1) + 1) .. Len(s) /\ s[m + k - 1] = "tool"
    BY <1>1, <2>1
  <2>3. ASSUME NEW j \in ((m + i - 1) + 1) .. ((m + k - 1) - 1) PROVE s[j] = "sp"
    <3>1. j - m + 1 \in (i + 1) .. (k - 1) /\ j - m + 1 \in 1 .. Len(r)
          /\ m + (j - m + 1) - 1 = j
      BY <1>1, <2>1
    <3>2. r[j - m + 1] = "sp"
      BY <1>3, <3>1 DEF Opens
    <3> QED BY <1>1, <3>1, <3>2
  <2> QED BY <2>2, <2>3 DEF Opens
<1>4. ASSUME Opens(s, m + i - 1, m + k - 1) PROVE Opens(r, i, k)
  <2>1. m + k - 1 \in ((m + i - 1) + 1) .. Len(s) /\ s[m + k - 1] = "tool"
    BY <1>4 DEF Opens
  <2>2. k \in (i + 1) .. Len(r) /\ r[k] = "tool"
    <3>1. k \in (i + 1) .. Len(r) /\ k \in 1 .. Len(r)
      BY <1>1, <2>1
    <3> QED BY <1>1, <2>1, <3>1
  <2>3. ASSUME NEW j \in (i + 1) .. (k - 1) PROVE r[j] = "sp"
    <3>1. m + j - 1 \in ((m + i - 1) + 1) .. ((m + k - 1) - 1) /\ j \in 1 .. Len(r)
      BY <1>1, <2>2
    <3>2. s[m + j - 1] = "sp"
      BY <1>4, <3>1 DEF Opens
    <3> QED BY <1>1, <3>1, <3>2
  <2> QED BY <2>2, <2>3 DEF Opens
<1> QED BY <1>2, <1>3, <1>4 DEF r

LEMMA FenceFrom ==
    ASSUME NEW s \in Txt, NEW m \in 1 .. (Len(s) + 1), NEW i \in 1 .. Len(From(s, m)),
           Fence(From(s, m), i).opens
    PROVE  /\ m + i - 1 \in DOMAIN s
           /\ Fence(s, m + i - 1) = [at |-> m + i - 1, opens |-> TRUE,
                                     after |-> m + Fence(From(s, m), i).after - 1]
<1> DEFINE r == From(s, m)
           a == Fence(r, i).after
<1>1. r \in Txt /\ i \in DOMAIN r /\ Len(s) \in Nat /\ m \in Nat /\ i \in Nat /\ Len(r) \in Nat
  BY FromIs DEF Txt
<1>2. a \in (i + 1) .. (Len(r) + 1) /\ Opens(r, i, a - 1)
  BY <1>1, FenceIs
<1>3. a \in Nat /\ a - 1 \in Nat
  BY <1>1, <1>2
<1>4. m + i - 1 \in DOMAIN s /\ Opens(s, m + i - 1, m + (a - 1) - 1)
  <2> HIDE DEF a
  <2> QED BY <1>2, <1>3, OpensFrom
<1>5. Fence(s, m + i - 1) = [at |-> m + i - 1, opens |-> TRUE, after |-> (m + (a - 1) - 1) + 1]
  <2> HIDE DEF a
  <2> QED BY <1>4, FenceIs
<1>6. (m + (a - 1) - 1) + 1 = m + a - 1
  BY <1>1, <1>3
<1> QED BY <1>4, <1>5, <1>6

\* More text leaves an opening what it is.
LEMMA OpensMore ==
    ASSUME NEW s \in Txt, NEW t \in Txt, NEW i \in DOMAIN s, Fence(s, i).opens
    PROVE  i \in DOMAIN (s \o t) /\ (s \o t)[i] = s[i] /\ Fence(s \o t, i) = Fence(s, i)
<1> DEFINE k == Fence(s, i).after - 1
<1>1. /\ s \o t \in Txt /\ Len(s) \in Nat /\ Len(t) \in Nat /\ Len(s \o t) = Len(s) + Len(t)
      /\ \A j \in 1 .. Len(s) : (s \o t)[j] = s[j]
      /\ DOMAIN s = 1 .. Len(s) /\ DOMAIN (s \o t) = 1 .. Len(s \o t)
  BY DEF Txt
<1>2. /\ Fence(s, i).after \in (i + 1) .. (Len(s) + 1) /\ Opens(s, i, k)
      /\ Fence(s, i) = [at |-> i, opens |-> TRUE, after |-> k + 1]
  BY FenceIs
<1> HIDE DEF k
<1>3. Opens(s \o t, i, k)
  BY <1>1, <1>2 DEF Opens
<1>4. i \in DOMAIN (s \o t)
  BY <1>1
<1> QED BY <1>1, <1>2, <1>3, <1>4, FenceIs

LEMMA JoinedIs ==
    ASSUME NEW s \in Txt, NEW t \in Txt
    PROVE  /\ s \o t \in Txt /\ Len(s) \in Nat /\ Len(t) \in Nat /\ Len(s \o t) = Len(s) + Len(t)
           /\ \A j \in 1 .. Len(s) : (s \o t)[j] = s[j]
           /\ \A j \in 1 .. Len(t) : (s \o t)[Len(s) + j] = t[j]
BY DEF Txt

LEMMA FromMore ==
    ASSUME NEW s \in Txt, NEW t \in Txt, NEW k \in 1 .. (Len(s) + 1)
    PROVE  /\ From(s, k) \o t = From(s \o t, k) /\ k \in 1 .. (Len(s \o t) + 1)
           /\ s \o t \in Txt /\ Len(s \o t) = Len(s) + Len(t)
<1>1. /\ s \o t \in Txt /\ Len(s) \in Nat /\ Len(t) \in Nat /\ Len(s \o t) = Len(s) + Len(t)
      /\ \A j \in 1 .. Len(s) : (s \o t)[j] = s[j]
      /\ \A j \in 1 .. Len(t) : (s \o t)[Len(s) + j] = t[j]
  BY DEF Txt
<1>2. k \in 1 .. (Len(s \o t) + 1) /\ k \in Nat
  BY <1>1
<1> DEFINE a == From(s, k)
           b == From(s \o t, k)
           ab == a \o t
<1>3. /\ a \in Txt /\ Len(a) = Len(s) + 1 - k
      /\ \A i \in 1 .. Len(a) : a[i] = s[k + i - 1]
  BY FromIs
<1>4. /\ b \in Txt /\ Len(b) = Len(s) + Len(t) + 1 - k
      /\ \A i \in 1 .. Len(b) : b[i] = (s \o t)[k + i - 1]
  BY <1>1, <1>2, FromIs
<1> HIDE DEF a, b
<1>5. /\ ab \in Txt /\ Len(ab) = Len(a) + Len(t)
      /\ \A j \in 1 .. Len(a) : ab[j] = a[j]
      /\ \A j \in 1 .. Len(t) : ab[Len(a) + j] = t[j]
  BY <1>3, JoinedIs
<1> HIDE DEF ab
<1>6. Len(ab) = Len(b)
  BY <1>1, <1>3, <1>4, <1>5
<1>7. ASSUME NEW i \in 1 .. Len(ab) PROVE ab[i] = b[i]
  <2>1. CASE i \in 1 .. Len(a)
    <3>1. k + i - 1 \in 1 .. Len(s)
      BY <1>1, <1>2, <1>3, <2>1
    <3> QED BY <1>1, <1>3, <1>4, <1>5, <1>6, <2>1, <3>1
  <2>2. CASE i \notin 1 .. Len(a)
    <3>1. i - Len(a) \in 1 .. Len(t) /\ Len(a) + (i - Len(a)) = i
          /\ k + i - 1 = Len(s) + (i - Len(a))
      BY <1>1, <1>2, <1>3, <1>5, <2>2
    <3>2. ab[i] = t[i - Len(a)]
      BY <1>5, <3>1
    <3>3. b[i] = (s \o t)[Len(s) + (i - Len(a))]
      BY <1>4, <1>6, <3>1
    <3> QED BY <1>1, <3>1, <3>2, <3>3
  <2> QED BY <2>1, <2>2
<1>8. ab = b
  <2>1. DOMAIN ab = 1 .. Len(ab) /\ DOMAIN b = 1 .. Len(b) /\ ab \in Seq(Val) /\ b \in Seq(Val)
    BY <1>4, <1>5 DEF Txt
  <2> QED BY <1>6, <1>7, <2>1
<1> QED BY <1>1, <1>2, <1>8 DEF a, b, ab

LEMMA FromFrom ==
    ASSUME NEW s \in Txt, NEW m \in 1 .. (Len(s) + 1), NEW k \in 1 .. (Len(From(s, m)) + 1)
    PROVE  From(From(s, m), k) = From(s, m + k - 1) /\ m + k - 1 \in 1 .. (Len(s) + 1)
<1> DEFINE r == From(s, m)
           a == From(r, k)
           b == From(s, m + k - 1)
<1>1. /\ r \in Txt /\ Len(r) = Len(s) + 1 - m /\ Len(s) \in Nat /\ m \in Nat
      /\ \A i \in 1 .. Len(r) : r[i] = s[m + i - 1]
  BY FromIs DEF Txt
<1> HIDE DEF r
<1>2. m + k - 1 \in 1 .. (Len(s) + 1) /\ k \in Nat /\ k \in 1 .. (Len(r) + 1)
  BY <1>1 DEF r
<1>3. /\ a \in Txt /\ Len(a) = Len(r) + 1 - k
      /\ \A i \in 1 .. Len(a) : a[i] = r[k + i - 1]
  BY <1>1, <1>2, FromIs
<1>4. /\ b \in Txt /\ Len(b) = Len(s) + 1 - (m + k - 1)
      /\ \A i \in 1 .. Len(b) : b[i] = s[(m + k - 1) + i - 1]
  BY <1>2, FromIs
<1> HIDE DEF a, b
<1>5. Len(a) = Len(b)
  BY <1>1, <1>2, <1>3, <1>4
<1>6. ASSUME NEW i \in 1 .. Len(a) PROVE a[i] = b[i]
  <2>1. k + i - 1 \in 1 .. Len(r) /\ m + (k + i - 1) - 1 = (m + k - 1) + i - 1
    BY <1>1, <1>2, <1>3
  <2>2. a[i] = r[k + i - 1] /\ b[i] = s[(m + k - 1) + i - 1]
    BY <1>3, <1>4, <1>5
  <2> QED BY <1>1, <2>1, <2>2
<1>7. a = b
  <2>1. a \in Seq(Val) /\ b \in Seq(Val)
    BY <1>3, <1>4 DEF Txt
  <2> QED BY <1>5, <1>6, <2>1
<1> QED BY <1>2, <1>7 DEF a, b, r

LEMMA NextFenceIs ==
    ASSUME NEW s \in Txt, NEW from \in 1 .. (Len(s) + 1)
    PROVE  LET f == NextFence(s, from)
           IN  \/ f = NoFence /\ \A j \in from .. Len(s) : s[j] # "fence"
               \/ /\ f.at \in from .. Len(s) /\ s[f.at] = "fence" /\ f = Fence(s, f.at)
                  /\ \A j \in from .. (f.at - 1) : s[j] # "fence"
<1> DEFINE r == From(s, from)
           n == First(r, {"fence"})
<1>1. /\ r \in Txt /\ Len(r) = Len(s) + 1 - from /\ Len(s) \in Nat /\ from \in Nat
      /\ \A i \in 1 .. Len(r) : r[i] = s[from + i - 1]
  BY FromIs DEF Txt
<1>2. NextFence(s, from) = IF n = 0 THEN NoFence ELSE Fence(s, from + n - 1)
  BY DEF NextFence
<1> HIDE DEF r
<1>3. /\ n \in 0 .. Len(r)
      /\ n = 0 => \A j \in 1 .. Len(r) : r[j] # "fence"
      /\ n # 0 => r[n] = "fence" /\ \A j \in 1 .. (n - 1) : r[j] # "fence"
  <2>1. /\ n \in 0 .. Len(r)
        /\ n = 0 => \A j \in 1 .. Len(r) : r[j] \notin {"fence"}
        /\ n # 0 => r[n] \in {"fence"} /\ \A j \in 1 .. (n - 1) : r[j] \notin {"fence"}
    BY <1>1, FirstIs
  <2> HIDE DEF n
  <2> QED BY <2>1
<1> HIDE DEF n
<1>4. CASE n = 0
  <2>1. ASSUME NEW j \in from .. Len(s) PROVE s[j] # "fence"
    <3>1. j - from + 1 \in 1 .. Len(r) /\ from + (j - from + 1) - 1 = j
      BY <1>1
    <3> QED BY <1>1, <1>3, <1>4, <3>1
  <2> QED BY <1>2, <1>4, <2>1
<1>5. CASE n # 0
  <2> DEFINE i == from + n - 1
  <2>1. n \in 1 .. Len(r)
    BY <1>1, <1>3, <1>5
  <2>2. i \in from .. Len(s) /\ s[i] = "fence" /\ i \in DOMAIN s
    <3>1. i \in from .. Len(s)
      BY <1>1, <2>1
    <3>2. DOMAIN s = 1 .. Len(s)
      BY DEF Txt
    <3>3. i \in 1 .. Len(s)
      BY <1>1, <2>1
    <3> QED BY <1>1, <1>3, <1>5, <2>1, <3>1, <3>2, <3>3
  <2>3. ASSUME NEW j \in from .. (i - 1) PROVE s[j] # "fence"
    <3>1. j - from + 1 \in 1 .. (n - 1) /\ j - from + 1 \in 1 .. Len(r) /\ from + (j - from + 1) - 1 = j
      BY <1>1, <2>1
    <3> QED BY <1>1, <1>3, <1>5, <3>1
  <2>4. NextFence(s, from) = Fence(s, i) /\ Fence(s, i).at = i
    BY <1>2, <1>5, <2>2, FenceIs
  <2> HIDE DEF i
  <2> QED BY <2>2, <2>3, <2>4
<1> QED BY <1>4, <1>5

LEMMA OpenerIs ==
    ASSUME NEW s \in Txt
    PROVE  LET f == FindTolerantOpener(s)
           IN  \/ f = NoFence
               \/ /\ f.at \in 1 .. Len(s) /\ s[f.at] = "fence" /\ f = Fence(s, f.at) /\ f.opens
                  /\ f.after \in (f.at + 1) .. (Len(s) + 1)
<1> DEFINE O == {i \in DOMAIN s : s[i] = "fence" /\ Fence(s, i).opens}
<1>1. FindTolerantOpener(s) = IF O = {} THEN NoFence ELSE Fence(s, Min(O))
  BY DEF FindTolerantOpener
<1>2. O \in SUBSET (1 .. Len(s)) /\ Len(s) \in Nat /\ DOMAIN s = 1 .. Len(s)
  BY DEF Txt
<1>3. ASSUME O # {} PROVE Min(O) \in O
  <2> HIDE DEF O
  <2> QED BY <1>2, <1>3, MinIs
<1>4. CASE O # {}
  <2> DEFINE i == Min(O)
  <2>1. i \in DOMAIN s /\ s[i] = "fence" /\ Fence(s, i).opens
    BY <1>3, <1>4
  <2>2. FindTolerantOpener(s) = Fence(s, i)
    BY <1>1, <1>4
  <2> HIDE DEF i
  <2>3. Fence(s, i).at = i /\ Fence(s, i).after \in (i + 1) .. (Len(s) + 1)
    BY <2>1, FenceIs
  <2> QED BY <1>2, <2>1, <2>2, <2>3
<1> QED BY <1>1, <1>4

-----------------------------------------------------------------------------
(* What the parsers return *)

LEMMA ParseLineIs ==
    ASSUME NEW s \in Txt, ParseBracketCallLine(s).ok
    PROVE  LET p == ParseBracketCallLine(s)
           IN  /\ p.call \in Val /\ p.pre \in Txt /\ p.post \in Txt
               /\ \E k \in 2 .. (Len(s) + 1) : p.post = From(s, k)
<1> DEFINE i == First(s, {"mark"})
           head == LineStart(s, i)
           k == i + 3 + (IF i + 3 <= Len(s) /\ s[i + 3] = "end" THEN 1 ELSE 0)
           post == From(s, k)
           here == Upto(post, LineEnd(post, 1))
           ok == /\ i > 0
                 /\ Blank(SubSeq(s, head, i - 1))
                 /\ i + 2 <= Len(s) /\ s[i + 1] \in Objects /\ s[i + 2] = "end"
                 /\ \/ Trim(post) # <<>> /\ Trim(post)[1] = "mark"
                    \/ ~Contains(here, "mark")
<1>1. ParseBracketCallLine(s) =
        IF ok THEN [ok |-> TRUE, call |-> s[i + 1], pre |-> Upto(s, head), post |-> post]
        ELSE NoLine
  BY DEF ParseBracketCallLine
<1>2. ok
  <2>1. ~NoLine.ok
    BY DEF NoLine
  <2> HIDE DEF ok, k, post, head, i
  <2>2. ~ok => ParseBracketCallLine(s) = NoLine
    BY <1>1
  <2> QED BY <2>1, <2>2
<1>3. i > 0 /\ i + 2 <= Len(s)
  BY <1>2
<1>4. i \in 0 .. Len(s) /\ Len(s) \in Nat
  BY FirstIs DEF Txt
<1> HIDE DEF i
<1>5. k \in 1 .. (Len(s) + 1) /\ k \in 2 .. (Len(s) + 1) /\ i \in 1 .. (Len(s) + 1) /\ i + 1 \in 1 .. Len(s)
  BY <1>3, <1>4
<1>6. post \in Txt /\ s[i + 1] \in Val
  <2>1. s[i + 1] \in Val
    BY <1>5 DEF Txt
  <2> HIDE DEF k
  <2> QED BY <1>5, <2>1, FromIs
<1>7. head \in 1 .. i
  BY <1>5, LineStartIs
<1>8. Upto(s, head) \in Txt
  <2> HIDE DEF head
  <2>1. head \in 1 .. (Len(s) + 1)
    BY <1>5, <1>7
  <2> QED BY <2>1, UptoIs
<1>9. ParseBracketCallLine(s) =
        [ok |-> TRUE, call |-> s[i + 1], pre |-> Upto(s, head), post |-> post]
  BY <1>1, <1>2
<1> HIDE DEF k, head, ok, here
<1> QED BY <1>5, <1>6, <1>8, <1>9

LEMMA WithoutResultIs ==
    ASSUME NEW s \in Txt
    PROVE  /\ WithoutResultLine(s) \in Txt /\ Len(WithoutResultLine(s)) <= Len(s)
           /\ (\A j \in 1 .. Len(s) : s[j] # "result") => WithoutResultLine(s) = s
<1> DEFINE i == First(s, {"result"})
           end == LineEnd(s, i)
           ok == /\ i > 0
                 /\ Blank(SubSeq(s, LineStart(s, i), i - 1))
                 /\ Last(Trim(SubSeq(s, i, end - 1))) = "end"
           cut == Upto(s, LineStart(s, i)) \o From(s, end + 1)
<1>1. WithoutResultLine(s) = IF ok THEN cut ELSE s
  BY DEF WithoutResultLine
<1>2. /\ i \in 0 .. Len(s) /\ Len(s) \in Nat
      /\ i # 0 => s[i] \in {"result"}
  BY FirstIs DEF Txt
<1> HIDE DEF i
<1>3. i # 0 => cut \in Txt /\ Len(cut) <= Len(s)
  <2> SUFFICES ASSUME i # 0 PROVE cut \in Txt /\ Len(cut) <= Len(s)
    OBVIOUS
  <2>1. i \in 1 .. (Len(s) + 1)
    BY <1>2
  <2>2. LineStart(s, i) \in 1 .. i /\ end \in i .. (Len(s) + 1)
    BY <2>1, LineStartIs, LineEndIs
  <2>3. LineStart(s, i) \in 1 .. (Len(s) + 1) /\ end + 1 \in Nat \ {0}
    BY <1>2, <2>1, <2>2
  <2> HIDE DEF end
  <2> DEFINE a == Upto(s, LineStart(s, i))
             b == From(s, end + 1)
  <2>4. a \in Txt /\ b \in Txt /\ Len(a) = LineStart(s, i) - 1
    BY <2>3, UptoIs, FromTyped
  <2>5. Len(b) <= Len(s) - end \/ Len(b) = 0
    <3>1. CASE end + 1 \in 1 .. (Len(s) + 1)
      BY <1>2, <2>2, <3>1, FromIs
    <3>2. CASE end = Len(s) + 1
      BY <1>2, <3>2 DEF From, Txt
    <3> QED BY <1>2, <2>1, <2>2, <3>1, <3>2
  <2> HIDE DEF a, b
  <2>6. a \o b \in Txt /\ Len(a \o b) = Len(a) + Len(b) /\ Len(b) \in Nat
    BY <2>4, JoinedIs
  <2>7. Len(a) + Len(b) <= Len(s)
    BY <1>2, <2>1, <2>2, <2>4, <2>5, <2>6
  <2> QED BY <2>6, <2>7 DEF a, b
<1>4. ok => i # 0
  BY <1>2
<1>5. i # 0 => ~(\A j \in 1 .. Len(s) : s[j] # "result")
  BY <1>2
<1> HIDE DEF ok, cut
<1> QED BY <1>1, <1>2, <1>3, <1>4, <1>5

LEMMA CutLineIs ==
    ASSUME NEW s \in Txt
    PROVE  /\ CutLineHead(s).head \in Txt /\ CutLineHead(s).rest \in Txt
           /\ \E k \in 1 .. (Len(s) + 1) :
                CutLineHead(s).head = Upto(s, k) /\ CutLineHead(s).rest = From(s, k)
<1> DEFINE I == {j \in 1 .. Len(s) : s[j] = "nl"}
           nl == IF I # {} THEN Max(I) ELSE 0
<1>1. CutLineHead(s) = IF nl < Len(s)
                       THEN [head |-> SubSeq(s, 1, nl), rest |-> From(s, nl + 1)]
                       ELSE [head |-> <<>>, rest |-> s]
  BY DEF CutLineHead, SelectLastInSeq
<1>2. Len(s) \in Nat
  BY DEF Txt
<1>3. nl \in 0 .. Len(s)
  <2>1. I \in SUBSET (1 .. Len(s))
    OBVIOUS
  <2> HIDE DEF I
  <2>2. I # {} => Max(I) \in I
    BY <1>2, <2>1, MaxIs
  <2>3. I # {} => Max(I) \in 1 .. Len(s)
    BY <2>1, <2>2
  <2>4. nl = IF I # {} THEN Max(I) ELSE 0
    OBVIOUS
  <2> HIDE DEF nl
  <2> QED BY <1>2, <2>3, <2>4
<1> HIDE DEF nl
<1>4. CASE nl < Len(s)
  <2>1. nl + 1 \in 1 .. (Len(s) + 1) /\ (nl + 1) - 1 = nl
    BY <1>2, <1>3
  <2>2. CutLineHead(s).head = Upto(s, nl + 1) /\ CutLineHead(s).rest = From(s, nl + 1)
    BY <1>1, <1>4, <2>1 DEF Upto
  <2> QED BY <2>1, <2>2, UptoIs, FromIs
<1>5. CASE ~(nl < Len(s))
  <2>1. 1 \in 1 .. (Len(s) + 1)
    BY <1>2
  <2>2. Upto(s, 1) = <<>> /\ From(s, 1) = s
    BY <1>2 DEF Upto, From, Txt
  <2>3. CutLineHead(s).head = Upto(s, 1) /\ CutLineHead(s).rest = From(s, 1)
    BY <1>1, <1>5, <2>2
  <2> QED BY <2>1, <2>3, UptoIs, FromIs
<1> QED BY <1>4, <1>5

LEMMA TrimIs ==
    ASSUME NEW s \in Txt
    PROVE  Trim(s) \in Txt
<1> DEFINE S == {i \in DOMAIN s : s[i] \notin {"sp", "nl"}}
<1>1. Trim(s) = IF S = {} THEN <<>> ELSE SubSeq(s, Min(S), Max(S))
  BY DEF Trim
<1>2. S \in SUBSET (1 .. Len(s)) /\ Len(s) \in Nat
  BY DEF Txt
<1>3. CASE S = {}
  BY <1>1, <1>3 DEF Txt
<1>4. CASE S # {}
  <2> HIDE DEF S
  <2>1. Min(S) \in S /\ Max(S) \in S
    BY <1>2, <1>4, MinIs, MaxIs
  <2>2. Min(S) \in 1 .. Len(s) /\ Max(S) \in 1 .. Len(s)
    BY <1>2, <2>1
  <2>3. \A a, b \in 1 .. Len(s) : SubSeq(s, a, b) \in Txt
    BY DEF Txt
  <2> QED BY <1>1, <1>4, <2>2, <2>3
<1> QED BY <1>3, <1>4

LEMMA CallBlockIs ==
    ASSUME NEW s \in Txt, IsCallBlock(s)
    PROVE  Trim(s)[1] \in Val
<1>1. Trim(s) \in Txt /\ Len(Trim(s)) = 1
  BY TrimIs DEF IsCallBlock
<1> QED BY <1>1 DEF Txt

LEMMA TextsIs ==
    ASSUME NEW s \in Txt
    PROVE  /\ Texts(s) \in Seq(Shows) /\ Len(Texts(s)) = Len(s)
           /\ \A i \in 1 .. Len(s) : Texts(s)[i] = Text(s[i]) /\ Texts(s)[i].kind = "text"
<1>1. DOMAIN s = 1 .. Len(s) /\ Len(s) \in Nat /\ \A i \in 1 .. Len(s) : s[i] \in Val
  BY DEF Txt
<1>2. \A i \in 1 .. Len(s) : Text(s[i]) \in Shows /\ Text(s[i]).kind = "text"
  BY <1>1 DEF Shows, Text
<1>3. Texts(s) = [i \in 1 .. Len(s) |-> Text(s[i])]
  BY <1>1 DEF Texts
<1> QED BY <1>1, <1>2, <1>3

LEMMA CallIs == ASSUME NEW j \in Val PROVE Call(j) \in Shows /\ Call(j).kind = "call"
BY DEF Call, Shows

-----------------------------------------------------------------------------
(* The filter's state, sound in itself and against what has been said *)

LEMMA OrderlyJoined ==
    ASSUME NEW a \in Seq(Shows), NEW b \in Seq(Shows), NEW h \in BOOLEAN,
           Orderly(h, a), Orderly(h \/ Promise!HasCall(a), b)
    PROVE  /\ a \o b \in Seq(Shows) /\ Orderly(h, a \o b)
           /\ Promise!HasCall(a \o b) <=> Promise!HasCall(a) \/ Promise!HasCall(b)
<1> DEFINE ab == a \o b
<1>1. /\ ab \in Seq(Shows) /\ Len(a) \in Nat /\ Len(b) \in Nat /\ Len(ab) = Len(a) + Len(b)
      /\ \A i \in 1 .. Len(a) : ab[i] = a[i]
      /\ \A i \in 1 .. Len(b) : ab[Len(a) + i] = b[i]
      /\ DOMAIN a = 1 .. Len(a) /\ DOMAIN b = 1 .. Len(b) /\ DOMAIN ab = 1 .. Len(ab)
  OBVIOUS
<1> HIDE DEF ab
<1>2. \A i \in 1 .. Len(ab) :
        i \in 1 .. Len(a) \/ (i - Len(a) \in 1 .. Len(b) /\ Len(a) + (i - Len(a)) = i)
  BY <1>1
<1>3. \A i \in 1 .. Len(a) : i \in 1 .. Len(ab)
  BY <1>1
<1>4. \A i \in 1 .. Len(b) : Len(a) + i \in 1 .. Len(ab)
  BY <1>1
<1>5. Promise!HasCall(ab) <=> Promise!HasCall(a) \/ Promise!HasCall(b)
  <2>1. ASSUME Promise!HasCall(ab) PROVE Promise!HasCall(a) \/ Promise!HasCall(b)
    <3>1. PICK i \in 1 .. Len(ab) : ab[i].kind = "call"
      BY <1>1, <2>1 DEF Promise!HasCall
    <3>2. CASE i \in 1 .. Len(a)
      BY <1>1, <3>1, <3>2 DEF Promise!HasCall
    <3>3. CASE i \notin 1 .. Len(a)
      <4>1. i - Len(a) \in 1 .. Len(b) /\ Len(a) + (i - Len(a)) = i
        BY <1>2, <3>3
      <4>2. b[i - Len(a)].kind = "call"
        BY <1>1, <3>1, <4>1
      <4> QED BY <1>1, <4>1, <4>2 DEF Promise!HasCall
    <3> QED BY <3>2, <3>3
  <2>2. Promise!HasCall(a) => Promise!HasCall(ab)
    BY <1>1, <1>3 DEF Promise!HasCall
  <2>3. Promise!HasCall(b) => Promise!HasCall(ab)
    BY <1>1, <1>4 DEF Promise!HasCall
  <2> QED BY <2>1, <2>2, <2>3
<1>6. Orderly(h, ab)
  <2> SUFFICES ASSUME NEW j \in 1 .. Len(ab), ab[j].kind = "text"
               PROVE  ~h /\ \A i \in 1 .. (j - 1) : ab[i].kind # "call"
    BY <1>1 DEF Orderly
  <2>1. CASE j \in 1 .. Len(a)
    <3>1. \A i \in 1 .. (j - 1) : i \in 1 .. Len(a)
      BY <1>1, <2>1
    <3> QED BY <1>1, <2>1, <3>1 DEF Orderly
  <2>2. CASE j \notin 1 .. Len(a)
    <3> DEFINE m == j - Len(a)
    <3>1. m \in 1 .. Len(b) /\ Len(a) + m = j
      BY <1>2, <2>2
    <3> HIDE DEF m
    <3>2. b[m].kind = "text"
      BY <1>1, <3>1
    <3>3. ~h /\ ~Promise!HasCall(a) /\ \A i \in 1 .. (m - 1) : b[i].kind # "call"
      BY <1>1, <3>1, <3>2 DEF Orderly
    <3>4. ASSUME NEW i \in 1 .. (j - 1) PROVE ab[i].kind # "call"
      <4>1. CASE i \in 1 .. Len(a)
        BY <1>1, <3>3, <4>1 DEF Promise!HasCall
      <4>2. CASE i \notin 1 .. Len(a)
        <5>1. i - Len(a) \in 1 .. (m - 1) /\ i - Len(a) \in 1 .. Len(b) /\ Len(a) + (i - Len(a)) = i
          BY <1>1, <3>1, <4>2
        <5> QED BY <1>1, <3>3, <5>1
      <4> QED BY <4>1, <4>2
    <3> QED BY <3>3, <3>4
  <2> QED BY <2>1, <2>2
<1> QED BY <1>1, <1>5, <1>6 DEF ab

LEMMA OrderlyTexts ==
    ASSUME NEW s \in Txt
    PROVE  Orderly(FALSE, Texts(s)) /\ ~Promise!HasCall(Texts(s))
<1>1. /\ Len(Texts(s)) = Len(s) /\ Texts(s) \in Seq(Shows)
      /\ \A i \in 1 .. Len(s) : Texts(s)[i].kind = "text"
  BY TextsIs
<1>2. DOMAIN Texts(s) = 1 .. Len(s) /\ Len(s) \in Nat
  BY <1>1 DEF Txt
<1>3. \A j \in 1 .. Len(s) : \A i \in 1 .. (j - 1) : i \in 1 .. Len(s)
  BY <1>2
<1> HIDE DEF Texts
<1> QED BY <1>1, <1>2, <1>3 DEF Orderly, Promise!HasCall

LEMMA OrderlyCall ==
    ASSUME NEW j \in Val, NEW h \in BOOLEAN
    PROVE  /\ <<Call(j)>> \in Seq(Shows) /\ Orderly(h, <<Call(j)>>)
           /\ Promise!HasCall(<<Call(j)>>)
<1> DEFINE x == Call(j)
           t == <<x>>
<1>1. x \in Shows /\ x.kind = "call"
  BY CallIs
<1> HIDE DEF x
<1>2. t \in Seq(Shows) /\ DOMAIN t = {1} /\ t[1] = x
  BY <1>1
<1> HIDE DEF t
<1> QED BY <1>1, <1>2 DEF Orderly, Promise!HasCall, t, x

LEMMA OrderlyNone ==
    ASSUME NEW h
    PROVE  <<>> \in Seq(Shows) /\ Orderly(h, <<>>) /\ ~Promise!HasCall(<<>>)
BY DEF Orderly, Promise!HasCall

-----------------------------------------------------------------------------
(* The filter *)

Filters ==
    [pending : Txt, inTool : BOOLEAN, inPost : BOOLEAN, toolBuf : Txt, found : BOOLEAN,
     out : Seq(Shows), go : {"no", "on", "force"}]

\* h: whether a call had been found before f put out what is in out.
Sound(h, f) ==
    /\ f \in Filters
    /\ Orderly(h, f.out)
    /\ f.found <=> h \/ Promise!HasCall(f.out)
    /\ f.inPost => f.found
    /\ ~f.inTool /\ f.found => f.inPost

NoResult(s) == \A j \in 1 .. Len(s) : s[j] # "result"

\* What the filter holds is the end of what has been said.
Held(said, f) ==
    NoResult(said) =>
        /\ ~f.inTool => \E k \in 1 .. (Len(said) + 1) : f.pending = From(said, k)
        /\ f.inTool => \E i \in DOMAIN said :
              said[i] = "fence" /\ Fence(said, i).opens /\ f.toolBuf = From(said, Fence(said, i).after)

LEMMA EmitTexts ==
    ASSUME NEW h \in BOOLEAN, NEW f, Sound(h, f), ~f.found, NEW s \in Txt
    PROVE  Sound(h, Emit(f, Texts(s)))
<1> DEFINE items == Texts(s)
           o2 == f.out \o items
<1>1. items \in Seq(Shows) /\ Orderly(FALSE, items) /\ ~Promise!HasCall(items)
  BY TextsIs, OrderlyTexts
<1>2. f \in Filters /\ f.out \in Seq(Shows) /\ ~h /\ ~Promise!HasCall(f.out) /\ Orderly(h, f.out)
  BY DEF Sound, Filters
<1> HIDE DEF items
<1>3. Orderly(h \/ Promise!HasCall(f.out), items)
  BY <1>1, <1>2 DEF Orderly
<1>4. o2 \in Seq(Shows) /\ Orderly(h, o2) /\ ~Promise!HasCall(o2)
  BY <1>1, <1>2, <1>3, OrderlyJoined
<1>5. Emit(f, items) = [f EXCEPT !.out = o2]
  BY DEF Emit
<1> HIDE DEF o2
<1> DEFINE g == [f EXCEPT !.out = o2]
<1>6. g \in Filters /\ g.out = o2 /\ g.found = f.found /\ g.inPost = f.inPost /\ g.inTool = f.inTool
  BY <1>2, <1>4 DEF Filters
<1> HIDE DEF g
<1>7. Sound(h, g)
  BY <1>2, <1>4, <1>6 DEF Sound
<1> QED BY <1>5, <1>7 DEF g, items

LEMMA EmitCall ==
    ASSUME NEW h \in BOOLEAN, NEW f, Sound(h, f), NEW j \in Val
    PROVE  LET g == [Emit(f, <<Call(j)>>) EXCEPT !.found = TRUE]
           IN  /\ g \in Filters /\ Orderly(h, g.out) /\ Promise!HasCall(g.out) /\ g.found
               /\ g = [f EXCEPT !.out = g.out, !.found = TRUE]
<1> DEFINE items == <<Call(j)>>
           o2 == f.out \o items
           hh == h \/ Promise!HasCall(f.out)
<1>1. items \in Seq(Shows) /\ Orderly(hh, items) /\ Promise!HasCall(items)
  <2>1. hh \in BOOLEAN
    BY DEF Promise!HasCall
  <2> HIDE DEF hh
  <2> QED BY <2>1, OrderlyCall
<1>2. f \in Filters /\ f.out \in Seq(Shows) /\ Orderly(h, f.out)
  BY DEF Sound, Filters
<1> HIDE DEF items
<1>4. o2 \in Seq(Shows) /\ Orderly(h, o2) /\ Promise!HasCall(o2)
  BY <1>1, <1>2, OrderlyJoined
<1>5. Emit(f, items) = [f EXCEPT !.out = o2]
  BY DEF Emit
<1> HIDE DEF o2
<1> DEFINE g == [[f EXCEPT !.out = o2] EXCEPT !.found = TRUE]
<1>6. g \in Filters /\ g.out = o2 /\ g.found /\ g = [f EXCEPT !.out = o2, !.found = TRUE]
  BY <1>2, <1>4 DEF Filters
<1>7. [Emit(f, items) EXCEPT !.found = TRUE] = g
  BY <1>5
<1> HIDE DEF g
<1> QED BY <1>4, <1>6, <1>7 DEF items

-----------------------------------------------------------------------------
(* The end of a call's body *)

Size(f) == Len(f.pending) + Len(f.toolBuf)

\* Closing a call's body at a ``` of it.
LEMMA CloseToolIs ==
    ASSUME NEW h \in BOOLEAN, NEW said \in Txt, NEW f, Sound(h, f), f.inTool, Held(said, f),
           NEW at \in 1 .. Len(f.toolBuf), NEW opens \in BOOLEAN,
           NEW after \in (at + 1) .. (Len(f.toolBuf) + 1),
           NEW fence, fence = [at |-> at, opens |-> opens, after |-> after],
           f.toolBuf[at] = "fence", opens => Fence(f.toolBuf, at) = fence
    PROVE  LET g == CloseTool(f, fence)
           IN  /\ Sound(h, g) /\ Held(said, g) /\ Size(g) < Size(f)
               /\ g.inTool => g.go = f.go
               /\ ~g.inTool => g.go = "on" /\ g.pending = From(f.toolBuf, after)
               /\ ~opens => ~g.inTool
<1> DEFINE buf == f.toolBuf
           block == Upto(buf, at)
           rest == From(buf, after)
           j == Trim(block)[1]
           c0 == [Emit(f, <<Call(j)>>) EXCEPT !.found = TRUE]
           call == [Emit(f, <<Call(j)>>) EXCEPT !.found = TRUE, !.toolBuf = rest]
           kept == [Emit(f, IF f.found THEN <<>>
                             ELSE Texts(<<"fence", "tool">> \o block \o <<"fence">>))
                       EXCEPT !.inPost = f.found]
           done == IF IsCallBlock(block) THEN [call EXCEPT !.inPost = TRUE] ELSE kept
           g == CloseTool(f, fence)
<1>0. fence.at = at /\ fence.after = after /\ fence.opens = opens
  OBVIOUS
<1>1. g = IF IsCallBlock(block) /\ opens THEN call
          ELSE [done EXCEPT !.inTool = FALSE, !.pending = rest, !.toolBuf = <<>>, !.go = "on"]
  BY <1>0 DEF CloseTool
<1>2. f \in Filters /\ buf \in Txt /\ Len(buf) \in Nat /\ Len(f.pending) \in Nat /\ DOMAIN buf = 1 .. Len(buf)
  BY DEF Sound, Filters, Txt
<1>3. at \in 1 .. (Len(buf) + 1) /\ after \in 1 .. (Len(buf) + 1) /\ at \in Nat /\ after \in Nat
  BY <1>2
<1>4. block \in Txt /\ rest \in Txt /\ Len(rest) = Len(buf) + 1 - after
  BY <1>2, <1>3, UptoIs, FromIs
<1>5. IsCallBlock(block) => j \in Val
  BY <1>4, CallBlockIs
<1> HIDE DEF g, j, block, rest
<1>6. Len(rest) < Len(buf) /\ Len(rest) \in Nat
  BY <1>2, <1>3, <1>4
<1>7. NoResult(said) => \E k \in 1 .. (Len(said) + 1) : rest = From(said, k)
  <2> SUFFICES ASSUME NoResult(said)
               PROVE  \E k \in 1 .. (Len(said) + 1) : rest = From(said, k)
    OBVIOUS
  <2>1. PICK i \in DOMAIN said : Fence(said, i).opens /\ buf = From(said, Fence(said, i).after)
    BY DEF Held
  <2> DEFINE m == Fence(said, i).after
  <2>2. m \in 1 .. (Len(said) + 1)
    <3>1. m \in (i + 1) .. (Len(said) + 1) /\ i \in Nat /\ Len(said) \in Nat
      BY FenceIs DEF Txt
    <3> QED BY <3>1
  <2> HIDE DEF m
  <2>3. From(From(said, m), after) = From(said, m + after - 1) /\ m + after - 1 \in 1 .. (Len(said) + 1)
    <3>1. buf = From(said, m)
      BY <2>1 DEF m
    <3>2. after \in 1 .. (Len(From(said, m)) + 1)
      BY <1>3, <3>1
    <3> QED BY <2>2, <3>2, FromFrom
  <2> QED BY <2>1, <2>3 DEF m, rest
<1>8. CASE IsCallBlock(block) /\ opens
  <2>1. /\ c0 \in Filters /\ Orderly(h, c0.out) /\ Promise!HasCall(c0.out) /\ c0.found
        /\ c0 = [f EXCEPT !.out = c0.out, !.found = TRUE]
    BY <1>5, <1>8, EmitCall
  <2>2. g = [c0 EXCEPT !.toolBuf = rest]
    BY <1>1, <1>8 DEF Emit
  <2> HIDE DEF c0
  <2>3. /\ g \in Filters /\ g.out = c0.out /\ g.found /\ g.inPost = f.inPost /\ g.inTool
        /\ g.toolBuf = rest /\ g.pending = f.pending /\ g.go = f.go
    BY <1>2, <1>4, <2>1, <2>2 DEF Filters
  <2>4. Sound(h, g)
    BY <2>1, <2>3 DEF Sound
  <2>5. Held(said, g)
    <3> SUFFICES ASSUME NoResult(said)
                 PROVE  \E n \in DOMAIN said :
                          said[n] = "fence" /\ Fence(said, n).opens /\ rest = From(said, Fence(said, n).after)
      BY <2>3 DEF Held
    <3>1. PICK i \in DOMAIN said : Fence(said, i).opens /\ buf = From(said, Fence(said, i).after)
      BY DEF Held
    <3> DEFINE m == Fence(said, i).after
               n == m + at - 1
    <3>2. m \in 1 .. (Len(said) + 1) /\ m \in Nat
      <4>1. m \in (i + 1) .. (Len(said) + 1) /\ i \in Nat /\ Len(said) \in Nat
        BY FenceIs DEF Txt
      <4> QED BY <4>1
    <3>3. buf = From(said, m)
      BY <3>1
    <3> HIDE DEF m
    <3>4. Fence(From(said, m), at) = fence
      BY <1>8, <3>3
    <3>5. at \in 1 .. Len(From(said, m)) /\ Fence(From(said, m), at).opens
          /\ Fence(From(said, m), at).after = after
      BY <1>0, <1>8, <3>3, <3>4
    <3>6. n \in DOMAIN said /\ Fence(said, n) = [at |-> n, opens |-> TRUE, after |-> m + after - 1]
      BY <3>2, <3>5, FenceFrom
    <3>7. said[n] = "fence"
      <4>1. From(said, m)[at] = said[m + at - 1]
        BY <3>2, <3>5, FromIs
      <4> QED BY <3>3, <4>1
    <3>8. From(From(said, m), after) = From(said, m + after - 1)
      <4>1. after \in 1 .. (Len(From(said, m)) + 1)
        BY <1>3, <3>3
      <4> QED BY <3>2, <4>1, FromFrom
    <3>9. rest = From(said, Fence(said, n).after) /\ Fence(said, n).opens
      BY <3>3, <3>6, <3>8 DEF rest
    <3> QED BY <3>6, <3>7, <3>9
  <2>6. Size(g) < Size(f)
    <3>1. Len(g.toolBuf) = Len(rest) /\ Len(g.pending) = Len(f.pending)
      BY <2>3
    <3> HIDE DEF g, buf
    <3>2. Len(g.pending) + Len(g.toolBuf) < Len(f.pending) + Len(buf)
      BY <1>2, <1>6, <3>1
    <3> QED BY <3>2 DEF Size, buf
  <2> QED BY <1>8, <2>3, <2>4, <2>5, <2>6 DEF g
<1>9. CASE ~(IsCallBlock(block) /\ opens)
  <2>1. /\ done \in Filters /\ Orderly(h, done.out)
        /\ done.found <=> h \/ Promise!HasCall(done.out)
        /\ done.inPost <=> done.found
    <3>1. CASE IsCallBlock(block)
      <4>1. /\ c0 \in Filters /\ Orderly(h, c0.out) /\ Promise!HasCall(c0.out) /\ c0.found
        BY <1>5, <3>1, EmitCall
      <4>2. done = [[c0 EXCEPT !.toolBuf = rest] EXCEPT !.inPost = TRUE]
        BY <3>1 DEF Emit
      <4> HIDE DEF c0, done
      <4>3. done \in Filters /\ done.out = c0.out /\ done.found /\ done.inPost
        BY <1>4, <4>1, <4>2 DEF Filters
      <4> QED BY <4>1, <4>3
    <3>2. CASE ~IsCallBlock(block) /\ f.found
      <4>1. done = [Emit(f, <<>>) EXCEPT !.inPost = TRUE]
        BY <3>2
      <4>2. f.out \o <<>> = f.out
        BY <1>2 DEF Filters
      <4>3. done = [[f EXCEPT !.out = f.out] EXCEPT !.inPost = TRUE]
        BY <4>1, <4>2 DEF Emit
      <4> HIDE DEF done
      <4>4. done \in Filters /\ done.out = f.out /\ done.found /\ done.inPost
        BY <1>2, <3>2, <4>3 DEF Filters
      <4> QED BY <3>2, <4>4 DEF Sound
    <3>3. CASE ~IsCallBlock(block) /\ ~f.found
      <4> DEFINE shown == <<"fence", "tool">> \o block \o <<"fence">>
                 e == Emit(f, Texts(shown))
      <4>1. shown \in Txt
        <5>0. "fence" \in Val /\ "tool" \in Val
          BY DEF Val
        <5>1. <<"fence", "tool">> \in Txt /\ <<"fence">> \in Txt
          BY <5>0 DEF Txt
        <5>2. <<"fence", "tool">> \o block \in Txt
          BY <1>4, <5>1, JoinedIs
        <5> QED BY <5>1, <5>2, JoinedIs
      <4>3. done = [e EXCEPT !.inPost = FALSE]
        <5>1. f.found = FALSE
          BY <1>2, <3>3 DEF Filters
        <5>2. done = kept
          BY <3>3
        <5>3. kept = [Emit(f, Texts(shown)) EXCEPT !.inPost = FALSE]
          BY <5>1
        <5> QED BY <5>2, <5>3
      <4> HIDE DEF shown
      <4>2. Sound(h, e)
        BY <3>3, <4>1, EmitTexts
      <4>4. e.found = f.found
        BY <1>2 DEF Emit, Filters
      <4> HIDE DEF e, done
      <4>5. done \in Filters /\ done.out = e.out /\ ~done.found /\ ~done.inPost
        BY <3>3, <4>2, <4>3, <4>4 DEF Filters, Sound
      <4> QED BY <3>3, <4>2, <4>4, <4>5 DEF Sound
    <3> QED BY <3>1, <3>2, <3>3
  <2>2. g = [done EXCEPT !.inTool = FALSE, !.pending = rest, !.toolBuf = <<>>, !.go = "on"]
    BY <1>1, <1>9
  <2> HIDE DEF done
  <2>3. /\ g \in Filters /\ g.out = done.out /\ g.found = done.found /\ g.inPost = done.inPost
        /\ ~g.inTool /\ g.pending = rest /\ g.toolBuf = <<>> /\ g.go = "on"
    <3>1. <<>> \in Txt
      BY DEF Txt
    <3> QED BY <1>4, <2>1, <2>2, <3>1 DEF Filters
  <2>4. Sound(h, g)
    BY <2>1, <2>3 DEF Sound
  <2>5. Held(said, g)
    BY <1>7, <2>3 DEF Held
  <2>6. Size(g) < Size(f)
    <3>1. Len(g.toolBuf) = 0 /\ Len(g.pending) = Len(rest)
      BY <2>3
    <3> HIDE DEF g, buf
    <3>2. Len(g.pending) + Len(g.toolBuf) < Len(f.pending) + Len(buf)
      BY <1>2, <1>6, <3>1
    <3> QED BY <3>2 DEF Size, buf
  <2> QED BY <2>3, <2>4, <2>5, <2>6 DEF g, rest
<1> QED BY <1>8, <1>9

-----------------------------------------------------------------------------
(* Outside a call *)

ShownBy(f, s) == IF f.inPost THEN <<>> ELSE Texts(s)

LEMMA EmitShown ==
    ASSUME NEW h \in BOOLEAN, NEW f, Sound(h, f), ~f.inTool, NEW s \in Txt
    PROVE  LET e == Emit(f, ShownBy(f, s))
           IN  /\ Sound(h, e) /\ ShownBy(f, s) \in Seq(Shows)
               /\ e = [f EXCEPT !.out = e.out]
<1>1. f \in Filters /\ f.out \in Seq(Shows)
  BY DEF Sound, Filters
<1>2. CASE f.inPost
  <2>1. f.out \o <<>> = f.out /\ <<>> \in Seq(Shows)
    BY <1>1
  <2>2. Emit(f, ShownBy(f, s)) = [f EXCEPT !.out = f.out] /\ ShownBy(f, s) \in Seq(Shows)
    BY <1>2, <2>1 DEF Emit, ShownBy
  <2>3. [f EXCEPT !.out = f.out] = f
    BY <1>1 DEF Filters
  <2> QED BY <2>2, <2>3
<1>3. CASE ~f.inPost
  <2>1. ~f.found /\ ShownBy(f, s) = Texts(s) /\ Texts(s) \in Seq(Shows)
    BY <1>3, TextsIs DEF Sound, ShownBy
  <2>2. Sound(h, Emit(f, Texts(s)))
    BY <2>1, EmitTexts
  <2>3. Emit(f, Texts(s)) = [f EXCEPT !.out = Emit(f, Texts(s)).out]
    BY <1>1 DEF Emit, Filters
  <2> QED BY <2>1, <2>2, <2>3
<1> QED BY <1>2, <1>3

LEMMA EmitTwice ==
    ASSUME NEW f \in Filters, NEW a \in Seq(Shows), NEW b \in Seq(Shows)
    PROVE  Emit(f, a \o b) = Emit(Emit(f, a), b)
<1>1. f.out \in Seq(Shows)
  BY DEF Filters
<1>2. f.out \o (a \o b) = (f.out \o a) \o b
  <2> DEFINE o == f.out
  <2>1. o \in Seq(Shows)
    BY <1>1
  <2> HIDE DEF o
  <2>2. o \o (a \o b) = (o \o a) \o b
    BY <2>1, ConcatAssociative
  <2> QED BY <2>2 DEF o
<1> DEFINE o2 == f.out \o a
<1>3. Emit(f, a) = [f EXCEPT !.out = o2]
  BY DEF Emit
<1> HIDE DEF o2
<1>4. Emit(f, a).out = o2
  BY <1>3 DEF Filters
<1>5. Emit(Emit(f, a), b) = [[f EXCEPT !.out = o2] EXCEPT !.out = o2 \o b]
  BY <1>3, <1>4 DEF Emit
<1>6. Emit(f, a \o b) = [f EXCEPT !.out = o2 \o b]
  BY <1>2 DEF Emit, o2
<1> QED BY <1>5, <1>6 DEF Filters

LEMMA ScanIs ==
    ASSUME NEW h \in BOOLEAN, NEW said \in Txt, NEW f, Sound(h, f), ~f.inTool, Held(said, f)
    PROVE  LET g == ScanText(f)
           IN  /\ Sound(h, g) /\ Held(said, g)
               /\ \/ g.go = "no" /\ ~g.inTool
                  \/ g.go = f.go /\ Size(g) < Size(f)
<1> DEFINE p == f.pending
           line == ParseBracketCallLine(p)
           rest == WithoutResultLine(p)
           open == FindTolerantOpener(rest)
           cut == CutLineHead(rest)
           g == ScanText(f)
<1>1. /\ g = CASE line.ok ->
                   [Emit(f, ShownBy(f, line.pre) \o <<Call(line.call)>>)
                      EXCEPT !.found = TRUE, !.inPost = TRUE, !.pending = line.post]
               [] ~line.ok /\ open.at > 0 ->
                   [Emit(f, ShownBy(f, Upto(rest, open.at)))
                      EXCEPT !.toolBuf = From(rest, open.after), !.pending = <<>>, !.inTool = TRUE]
               [] OTHER -> [Emit(f, ShownBy(f, cut.head)) EXCEPT !.pending = cut.rest, !.go = "no"]
  BY DEF ScanText, ShownBy
<1>2. /\ f \in Filters /\ p \in Txt /\ Len(p) \in Nat /\ f.toolBuf \in Txt /\ Len(f.toolBuf) \in Nat
  BY DEF Sound, Filters, Txt
<1>3. /\ rest \in Txt /\ Len(rest) <= Len(p) /\ Len(rest) \in Nat
      /\ NoResult(p) => rest = p
  <2>1. /\ rest \in Txt /\ Len(rest) <= Len(p)
        /\ (\A i \in 1 .. Len(p) : p[i] # "result") => rest = p
    BY <1>2, WithoutResultIs
  <2> HIDE DEF rest, p
  <2> QED BY <2>1 DEF NoResult, Txt
<1>4. ASSUME NoResult(said)
      PROVE  NoResult(p) /\ \E k \in 1 .. (Len(said) + 1) : p = From(said, k)
  <2>1. PICK k \in 1 .. (Len(said) + 1) : p = From(said, k)
    BY <1>4 DEF Held
  <2>2. /\ Len(p) = Len(said) + 1 - k /\ Len(said) \in Nat
        /\ \A i \in 1 .. Len(p) : p[i] = said[k + i - 1]
    BY <2>1, FromIs DEF Txt
  <2>3. \A i \in 1 .. Len(p) : k + i - 1 \in 1 .. Len(said)
    BY <2>2
  <2> QED BY <1>4, <2>1, <2>2, <2>3 DEF NoResult
<1> HIDE DEF line, rest, open, cut, g, p
<1>5. CASE line.ok
  <2>1. /\ line.call \in Val /\ line.pre \in Txt /\ line.post \in Txt
        /\ \E k \in 2 .. (Len(p) + 1) : line.post = From(p, k)
    BY <1>2, <1>5, ParseLineIs DEF line
  <2> DEFINE a == ShownBy(f, line.pre)
             c == <<Call(line.call)>>
             e == Emit(f, a)
             x == [Emit(e, c) EXCEPT !.found = TRUE]
  <2>2. Sound(h, e) /\ a \in Seq(Shows) /\ e = [f EXCEPT !.out = e.out]
    BY <2>1, EmitShown
  <2>3. c \in Seq(Shows)
    BY <2>1, OrderlyCall
  <2>4. Emit(f, a \o c) = Emit(e, c)
    <3> HIDE DEF a, c
    <3> QED BY <1>2, <2>2, <2>3, EmitTwice
  <2> HIDE DEF a, e
  <2>5. /\ x \in Filters /\ Orderly(h, x.out) /\ Promise!HasCall(x.out) /\ x.found
        /\ x = [e EXCEPT !.out = x.out, !.found = TRUE]
    <3> DEFINE j == line.call
    <3>1. j \in Val
      BY <2>1
    <3> HIDE DEF j
    <3>2. LET y == [Emit(e, <<Call(j)>>) EXCEPT !.found = TRUE]
          IN  /\ y \in Filters /\ Orderly(h, y.out) /\ Promise!HasCall(y.out) /\ y.found
              /\ y = [e EXCEPT !.out = y.out, !.found = TRUE]
      BY <2>2, <3>1, EmitCall
    <3> QED BY <3>2 DEF j
  <2>6. g = [x EXCEPT !.inPost = TRUE, !.pending = line.post]
    <3>1. g = [Emit(f, a \o c) EXCEPT !.found = TRUE, !.inPost = TRUE, !.pending = line.post]
      BY <1>1, <1>5 DEF a
    <3> QED BY <2>4, <3>1
  <2>7. x.go = f.go /\ x.inTool = f.inTool /\ x.toolBuf = f.toolBuf
    <3> HIDE DEF x
    <3> QED BY <1>2, <2>2, <2>5 DEF Filters
  <2> HIDE DEF x
  <2>8. /\ g \in Filters /\ g.out = x.out /\ g.found /\ g.inPost /\ ~g.inTool
        /\ g.pending = line.post /\ g.toolBuf = f.toolBuf /\ g.go = f.go
    BY <2>1, <2>5, <2>6, <2>7 DEF Filters
  <2>9. Sound(h, g)
    BY <2>5, <2>8 DEF Sound
  <2>10. PICK k \in 2 .. (Len(p) + 1) : line.post = From(p, k)
    BY <2>1
  <2>11. k \in 1 .. (Len(p) + 1) /\ Len(line.post) = Len(p) + 1 - k
    <3>1. k \in 1 .. (Len(p) + 1)
      BY <1>2
    <3> QED BY <1>2, <2>10, <3>1, FromIs
  <2>12. Size(g) < Size(f)
    <3>1. Len(g.pending) < Len(p) /\ Len(g.pending) \in Nat
      BY <1>2, <2>8, <2>11
    <3>2. Len(g.toolBuf) = Len(f.toolBuf)
      BY <2>8
    <3>3. Len(g.pending) + Len(g.toolBuf) < Len(p) + Len(f.toolBuf)
      <4>1. Len(p) \in Nat /\ Len(f.toolBuf) \in Nat
        BY <1>2
      <4> DEFINE a2 == Len(g.pending)
                 b2 == Len(g.toolBuf)
                 d2 == Len(p)
                 e2 == Len(f.toolBuf)
      <4>2. a2 \in Nat /\ d2 \in Nat /\ e2 \in Nat /\ a2 < d2 /\ b2 = e2
        BY <3>1, <3>2, <4>1
      <4> HIDE DEF a2, b2, d2, e2
      <4>3. a2 + b2 < d2 + e2
        BY <4>2
      <4> QED BY <4>3 DEF a2, b2, d2, e2
    <3> QED BY <3>3 DEF Size, p
  <2>13. Held(said, g)
    <3> SUFFICES ASSUME NoResult(said)
                 PROVE  \E n \in 1 .. (Len(said) + 1) : line.post = From(said, n)
      BY <2>8 DEF Held
    <3>1. PICK m \in 1 .. (Len(said) + 1) : p = From(said, m)
      BY <1>4
    <3>2. k \in 1 .. (Len(From(said, m)) + 1)
      BY <2>11, <3>1
    <3>3. From(From(said, m), k) = From(said, m + k - 1) /\ m + k - 1 \in 1 .. (Len(said) + 1)
      BY <3>2, FromFrom
    <3> QED BY <2>10, <3>1, <3>3
  <2> QED BY <2>8, <2>9, <2>12, <2>13 DEF g
<1>6. CASE ~line.ok /\ open.at > 0
  <2> DEFINE e == Emit(f, ShownBy(f, Upto(rest, open.at)))
             buf == From(rest, open.after)
  <2>1. /\ open.at \in 1 .. Len(rest) /\ rest[open.at] = "fence" /\ open = Fence(rest, open.at)
        /\ open.opens /\ open.after \in (open.at + 1) .. (Len(rest) + 1)
    <3>1. open # NoFence
      BY <1>6 DEF NoFence
    <3> QED BY <1>3, <3>1, OpenerIs DEF open
  <2>2. open.at \in 1 .. (Len(rest) + 1) /\ open.after \in 1 .. (Len(rest) + 1)
        /\ open.after \in Nat /\ open.after >= 2
    BY <1>3, <2>1
  <2>3. Upto(rest, open.at) \in Txt /\ buf \in Txt /\ Len(buf) = Len(rest) + 1 - open.after
    BY <1>3, <2>2, UptoIs, FromIs
  <2>4. Sound(h, e) /\ e = [f EXCEPT !.out = e.out]
    BY <2>3, EmitShown
  <2>5. g = [e EXCEPT !.toolBuf = buf, !.pending = <<>>, !.inTool = TRUE]
    BY <1>1, <1>6
  <2> HIDE DEF e, buf
  <2>6. e.go = f.go /\ e \in Filters
    BY <1>2, <2>4 DEF Filters, Sound
  <2>7. /\ g \in Filters /\ g.out = e.out /\ g.found = e.found /\ g.inPost = e.inPost
        /\ g.inTool /\ g.toolBuf = buf /\ g.pending = <<>> /\ g.go = f.go
    <3>1. <<>> \in Txt
      BY DEF Txt
    <3> QED BY <2>3, <2>5, <2>6, <3>1 DEF Filters
  <2>8. Sound(h, g)
    BY <2>4, <2>7 DEF Sound
  <2>9. Size(g) < Size(f)
    <3>1. Len(g.pending) = 0 /\ Len(g.toolBuf) < Len(p) /\ Len(g.toolBuf) \in Nat
      BY <1>2, <1>3, <2>2, <2>3, <2>7
    <3>2. Len(g.pending) + Len(g.toolBuf) < Len(p) + Len(f.toolBuf)
      BY <1>2, <3>1
    <3> QED BY <3>2 DEF Size, p
  <2>10. Held(said, g)
    <3> SUFFICES ASSUME NoResult(said)
                 PROVE  \E n \in DOMAIN said :
                          said[n] = "fence" /\ Fence(said, n).opens /\ buf = From(said, Fence(said, n).after)
      BY <2>7 DEF Held
    <3>1. PICK m \in 1 .. (Len(said) + 1) : p = From(said, m)
      BY <1>4
    <3>2. rest = From(said, m)
      BY <1>3, <1>4, <3>1
    <3> DEFINE n == m + open.at - 1
    <3>3. open.at \in 1 .. Len(From(said, m)) /\ Fence(From(said, m), open.at) = open
          /\ Fence(From(said, m), open.at).opens
      BY <2>1, <3>2
    <3>4. n \in DOMAIN said /\ Fence(said, n) = [at |-> n, opens |-> TRUE, after |-> m + open.after - 1]
      BY <3>3, FenceFrom
    <3>5. said[n] = "fence"
      <4>1. From(said, m)[open.at] = said[m + open.at - 1]
        BY <3>3, FromIs
      <4> QED BY <2>1, <3>2, <4>1
    <3>6. From(From(said, m), open.after) = From(said, m + open.after - 1)
      <4>1. open.after \in 1 .. (Len(From(said, m)) + 1)
        BY <2>2, <3>2
      <4> QED BY <4>1, FromFrom
    <3>7. buf = From(said, Fence(said, n).after) /\ Fence(said, n).opens
      BY <3>2, <3>4, <3>6 DEF buf
    <3> QED BY <3>4, <3>5, <3>7
  <2> QED BY <2>7, <2>8, <2>9, <2>10 DEF g
<1>7. CASE ~line.ok /\ ~(open.at > 0)
  <2> DEFINE e == Emit(f, ShownBy(f, cut.head))
  <2>1. /\ cut.head \in Txt /\ cut.rest \in Txt
        /\ \E k \in 1 .. (Len(rest) + 1) : cut.rest = From(rest, k)
    BY <1>3, CutLineIs DEF cut
  <2>2. Sound(h, e) /\ e = [f EXCEPT !.out = e.out]
    BY <2>1, EmitShown
  <2>3. g = [e EXCEPT !.pending = cut.rest, !.go = "no"]
    BY <1>1, <1>7
  <2> HIDE DEF e
  <2>4. e \in Filters /\ e.inTool = f.inTool
    BY <1>2, <2>2 DEF Filters, Sound
  <2>5. /\ g \in Filters /\ g.out = e.out /\ g.found = e.found /\ g.inPost = e.inPost
        /\ ~g.inTool /\ e.inTool = g.inTool /\ g.pending = cut.rest /\ g.go = "no"
    BY <2>1, <2>3, <2>4 DEF Filters
  <2>6. Sound(h, g)
    BY <2>2, <2>5 DEF Sound
  <2>7. Held(said, g)
    <3> SUFFICES ASSUME NoResult(said)
                 PROVE  \E n \in 1 .. (Len(said) + 1) : cut.rest = From(said, n)
      BY <2>5 DEF Held
    <3>1. PICK m \in 1 .. (Len(said) + 1) : p = From(said, m)
      BY <1>4
    <3>2. rest = From(said, m)
      BY <1>3, <1>4, <3>1
    <3>3. PICK k \in 1 .. (Len(rest) + 1) : cut.rest = From(rest, k)
      BY <2>1
    <3>4. k \in 1 .. (Len(From(said, m)) + 1)
      BY <3>2
    <3>5. From(From(said, m), k) = From(said, m + k - 1) /\ m + k - 1 \in 1 .. (Len(said) + 1)
      BY <3>4, FromFrom
    <3> QED BY <3>2, <3>3, <3>5
  <2> QED BY <2>5, <2>6, <2>7 DEF g
<1> QED BY <1>5, <1>6, <1>7

-----------------------------------------------------------------------------
(* The parsing of a piece *)

\* The parsing goes on until a round has nothing left to do.
LEMMA ParsedSteps ==
    ASSUME NEW A, NEW f \in Filters, Round(f) \in A,
           \A x \in A : x.go # "no" => Round(x) \in A
    PROVE  \E F \in [0 .. Size(f) -> A] :
              /\ F[0] = Round(f) /\ F[Size(f)] = Parsed(f)
              /\ \A k \in 1 .. Size(f) :
                    F[k] = IF F[k - 1].go = "no" THEN F[k - 1] ELSE Round(F[k - 1])
<1> DEFINE es == f.pending \o f.toolBuf
           n == Len(es)
           c == Round(f)
           g == [x \in A \X (1 .. n) |-> IF x[1].go = "no" THEN x[1] ELSE Round(x[1])]
           Is(h) == h = [S \in SUBSET DOMAIN es |->
                           IF S = {} THEN c
                           ELSE IF h[S \ {Max(S)}].go = "no" THEN h[S \ {Max(S)}]
                                ELSE Round(h[S \ {Max(S)}])]
           p == CHOOSE h : Is(h)
<1>0. n \in Nat /\ DOMAIN es = 1 .. n /\ n = Size(f)
  <2>1. f.pending \in Txt /\ f.toolBuf \in Txt
    BY DEF Filters
  <2>2. es \in Txt /\ Len(es) = Len(f.pending) + Len(f.toolBuf)
    BY <2>1, JoinedIs
  <2>3. /\ Len(f.pending) + Len(f.toolBuf) = Size(f) /\ Len(f.pending) \in Nat
        /\ Len(f.toolBuf) \in Nat
    BY <2>1 DEF Size, Txt
  <2> HIDE DEF es
  <2>4. Len(es) \in Nat /\ DOMAIN es = 1 .. Len(es)
    <3>1. \A s \in Txt : Len(s) \in Nat /\ DOMAIN s = 1 .. Len(s)
      BY DEF Txt
    <3> QED BY <2>2, <3>1
  <2>5. Len(es) = Size(f)
    BY <2>2, <2>3
  <2> QED BY <2>4, <2>5
<1> HIDE DEF es, n
<1>1. c \in A /\ \A a \in A, k \in 1 .. n : (IF a.go = "no" THEN a ELSE Round(a)) \in A
  OBVIOUS
<1>2. /\ g \in [A \X (1 .. n) -> A]
      /\ \A a \in A, k \in 1 .. n : g[<<a, k>>] = IF a.go = "no" THEN a ELSE Round(a)
  BY <1>1
<1> HIDE DEF g, c
<1>3. PICK h \in [SUBSET (1 .. n) -> A] : Stepped(n, c, g, h)
  BY <1>0, <1>1, <1>2, FoldExists
<1>4. \A S \in SUBSET (1 .. n) : S # {} => Max(S) \in 1 .. n /\ S \ {Max(S)} \in SUBSET (1 .. n)
  BY <1>0, MaxIs
<1>5. Is(h)
  BY <1>0, <1>2, <1>3, <1>4 DEF Stepped
<1>6. Is(p)
  BY <1>5
<1> HIDE DEF p
<1>7. p[{}] = c
  BY <1>6
<1>8. Follows(n, A, g, p)
  BY <1>0, <1>2, <1>4, <1>6 DEF Follows
<1>9. Parsed(f) = p[1 .. n]
  <2>1. Parsed(f) = p[DOMAIN es]
    BY DEF Parsed, FoldLeft, MapThenFoldSet, p, c, es
  <2> QED BY <1>0, <2>1
<1> HIDE DEF Is
<1>10. Passes(n, A, c, g, p[1 .. n])
  BY <1>0, <1>1, <1>2, <1>7, <1>8, StepsOfFold
<1>11. PICK F \in [0 .. n -> A] :
         F[0] = c /\ F[n] = p[1 .. n] /\ \A k \in 1 .. n : F[k] = g[<<F[k - 1], k>>]
  BY <1>10 DEF Passes
<1>12. \A k \in 1 .. n : F[k] = IF F[k - 1].go = "no" THEN F[k - 1] ELSE Round(F[k - 1])
  <2>1. \A k \in 1 .. n : k - 1 \in 0 .. n
    BY <1>0
  <2> QED BY <1>2, <1>11, <2>1
<1> QED BY <1>0, <1>9, <1>11, <1>12 DEF c

\* What the filter waits for inside a call: a ```, or what follows one.
Waiting(f) ==
    f.inTool =>
        LET seen == NextFence(f.toolBuf, 1)
        IN  seen.at = 0 \/ Undecided(f.toolBuf, seen.at)

\* What is left when the reply ends right behind a ```.
Ends == {<<>>, <<"tool">>}

LEMMA TryCloseIs ==
    ASSUME NEW h \in BOOLEAN, NEW said \in Txt, NEW f, Sound(h, f), f.inTool, Held(said, f),
           f.go \in {"on", "force"}
    PROVE  LET g == TryCloseTool(f)
               seen == NextFence(f.toolBuf, 1)
           IN  /\ Sound(h, g) /\ Held(said, g)
               /\ \/ /\ g.go = "no" /\ g.inTool /\ g.toolBuf = f.toolBuf /\ Waiting(g)
                     /\ f.go = "force" => seen.at = 0
                  \/ /\ g.go \in {"on", f.go} /\ Size(g) < Size(f) /\ seen.at # 0
                     /\ g.go = "force" => g.inTool
                     /\ Undecided(f.toolBuf, seen.at) =>
                           ~g.inTool /\ g.go = "on" /\ g.pending \in Ends
<1> DEFINE buf == f.toolBuf
           seen == NextFence(buf, 1)
           wait == Undecided(buf, seen.at)
           fence == IF wait THEN [at |-> seen.at, opens |-> FALSE, after |-> seen.at + 1] ELSE seen
           g == TryCloseTool(f)
<1>1. g = IF seen.at = 0 \/ (wait /\ f.go # "force") THEN [f EXCEPT !.go = "no"]
          ELSE CloseTool(f, fence)
  BY DEF TryCloseTool
<1>2. f \in Filters /\ buf \in Txt /\ Len(buf) \in Nat /\ DOMAIN buf = 1 .. Len(buf)
  BY DEF Sound, Filters, Txt
<1>3. \/ seen = NoFence
      \/ /\ seen.at \in 1 .. Len(buf) /\ buf[seen.at] = "fence" /\ seen = Fence(buf, seen.at)
  <2>1. 1 \in 1 .. (Len(buf) + 1)
    BY <1>2
  <2> QED BY <1>2, <2>1, NextFenceIs
<1> HIDE DEF seen, g, wait, fence
<1>4. CASE seen.at = 0 \/ (wait /\ f.go # "force")
  <2>1. g = [f EXCEPT !.go = "no"]
    BY <1>1, <1>4
  <2>2. /\ g \in Filters /\ g.out = f.out /\ g.found = f.found /\ g.inPost = f.inPost
        /\ g.inTool = f.inTool /\ g.toolBuf = f.toolBuf /\ g.pending = f.pending /\ g.go = "no"
    BY <1>2, <2>1 DEF Filters
  <2>3. Sound(h, g) /\ Held(said, g)
    BY <2>2 DEF Sound, Held
  <2>4. Waiting(g)
    BY <1>4, <2>2 DEF Waiting, seen, wait
  <2> QED BY <1>4, <2>2, <2>3, <2>4 DEF g, seen
<1>5. CASE ~(seen.at = 0 \/ (wait /\ f.go # "force"))
  <2>0. g = CloseTool(f, fence)
    BY <1>1, <1>5
  <2>1. seen.at \in 1 .. Len(buf) /\ buf[seen.at] = "fence" /\ seen = Fence(buf, seen.at)
    BY <1>3, <1>5 DEF NoFence
  <2> DEFINE at == seen.at
             opens == IF wait THEN FALSE ELSE seen.opens
             after == IF wait THEN at + 1 ELSE seen.after
  <2>2. /\ seen.opens \in BOOLEAN /\ seen.after \in (at + 1) .. (Len(buf) + 1)
        /\ seen = [at |-> at, opens |-> seen.opens, after |-> seen.after]
    <3>1. /\ Fence(buf, at).opens \in BOOLEAN /\ Fence(buf, at).after \in (at + 1) .. (Len(buf) + 1)
          /\ Fence(buf, at).opens => Opens(buf, at, Fence(buf, at).after - 1)
          /\ ~Fence(buf, at).opens => Fence(buf, at).after = at + 1
      BY <1>2, <2>1, FenceIs
    <3>2. Fence(buf, at) = [at |-> at, opens |-> Fence(buf, at).opens, after |-> Fence(buf, at).after]
      BY DEF Fence
    <3> QED BY <2>1, <3>1, <3>2
  <2>3. /\ opens \in BOOLEAN /\ after \in (at + 1) .. (Len(buf) + 1) /\ at \in 1 .. Len(buf)
        /\ wait => ~opens /\ after = at + 1
        /\ ~wait => opens = seen.opens /\ after = seen.after
    <3>1. at \in 1 .. Len(buf) /\ seen.opens \in BOOLEAN /\ seen.after \in (at + 1) .. (Len(buf) + 1)
      BY <2>1, <2>2
    <3>2. at + 1 \in (at + 1) .. (Len(buf) + 1)
      BY <1>2, <3>1
    <3>3. CASE wait
      BY <3>1, <3>2, <3>3
    <3>4. CASE ~wait
      BY <3>1, <3>4
    <3> QED BY <3>3, <3>4
  <2>4. fence = [at |-> at, opens |-> opens, after |-> after]
    BY <2>2 DEF fence
  <2>5. opens => Fence(buf, at) = fence
    BY <2>1, <2>2, <2>3, <2>4
  <2>6. Undecided(buf, at) <=> wait
    BY DEF wait
  <2> HIDE DEF at, opens, after
  <2>7. /\ Sound(h, g) /\ Held(said, g) /\ Size(g) < Size(f)
        /\ g.inTool => g.go = f.go
        /\ ~g.inTool => g.go = "on" /\ g.pending = From(buf, after)
        /\ ~opens => ~g.inTool
    <3>1. buf[at] = "fence"
      BY <2>1 DEF at
    <3> QED BY <2>0, <2>3, <2>4, <2>5, <3>1, CloseToolIs
  <2>8. wait => From(buf, after) \in Ends
    BY <2>3, <2>6 DEF Undecided, Ends
  <2>9. seen.at = at
    BY DEF at
  <2>10. g.go \in {"on", f.go} /\ (g.go = "force" => g.inTool)
    BY <2>7
  <2> QED BY <2>3, <2>6, <2>7, <2>8, <2>9, <2>10 DEF g, seen
<1> QED BY <1>4, <1>5

-----------------------------------------------------------------------------
(* A piece is fed *)

\* A round that finds nothing but the rest of an undecided ``` is the last.
LEMMA SmallScan ==
    ASSUME NEW h \in BOOLEAN, NEW f, Sound(h, f), ~f.inTool, f.pending \in Ends
    PROVE  ScanText(f).go = "no" /\ ~ScanText(f).inTool
<1> DEFINE p == f.pending
           line == ParseBracketCallLine(p)
           rest == WithoutResultLine(p)
           open == FindTolerantOpener(rest)
           cut == CutLineHead(rest)
           g == ScanText(f)
<1>1. f \in Filters /\ p \in Txt /\ Len(p) \in Nat /\ DOMAIN p = 1 .. Len(p)
  BY DEF Sound, Filters, Txt
<1>2. \A i \in 1 .. Len(p) : p[i] = "tool"
  <2>1. CASE p = <<>>
    BY <2>1
  <2>2. CASE p = <<"tool">>
    BY <2>2
  <2> QED BY <2>1, <2>2 DEF Ends
<1> HIDE DEF p
<1>3. ~line.ok
  <2>1. First(p, {"mark"}) = 0
    <3>1. /\ First(p, {"mark"}) \in 0 .. Len(p)
          /\ First(p, {"mark"}) # 0 => p[First(p, {"mark"})] \in {"mark"}
      BY <1>1, FirstIs
    <3> HIDE DEF First
    <3> QED BY <1>1, <1>2, <3>1
  <2> DEFINE i == First(p, {"mark"})
             head == LineStart(p, i)
             post == From(p, i + 3 + (IF i + 3 <= Len(p) /\ p[i + 3] = "end" THEN 1 ELSE 0))
             here == Upto(post, LineEnd(post, 1))
  <2>2. line = IF /\ i > 0
                  /\ Blank(SubSeq(p, head, i - 1))
                  /\ i + 2 <= Len(p) /\ p[i + 1] \in Objects /\ p[i + 2] = "end"
                  /\ \/ Trim(post) # <<>> /\ Trim(post)[1] = "mark"
                     \/ ~Contains(here, "mark")
               THEN [ok |-> TRUE, call |-> p[i + 1], pre |-> Upto(p, head), post |-> post]
               ELSE NoLine
    BY DEF ParseBracketCallLine
  <2>3. i = 0
    BY <2>1
  <2> HIDE DEF i, head, post, here, line
  <2>4. line = NoLine
    BY <2>2, <2>3
  <2> QED BY <2>4 DEF NoLine
<1>4. rest = p
  BY <1>1, <1>2, WithoutResultIs
<1>5. open.at = 0
  <2>1. \/ open = NoFence
        \/ open.at \in 1 .. Len(rest) /\ rest[open.at] = "fence"
    BY <1>1, <1>4, OpenerIs
  <2> HIDE DEF open
  <2> QED BY <1>2, <1>4, <2>1 DEF NoFence
<1>6. g = CASE line.ok ->
                   [Emit(f, ShownBy(f, line.pre) \o <<Call(line.call)>>)
                      EXCEPT !.found = TRUE, !.inPost = TRUE, !.pending = line.post]
               [] ~line.ok /\ open.at > 0 ->
                   [Emit(f, ShownBy(f, Upto(rest, open.at)))
                      EXCEPT !.toolBuf = From(rest, open.after), !.pending = <<>>, !.inTool = TRUE]
               [] OTHER -> [Emit(f, ShownBy(f, cut.head)) EXCEPT !.pending = cut.rest, !.go = "no"]
  BY DEF ScanText, ShownBy, p
<1> HIDE DEF line, open
<1> DEFINE e == Emit(f, ShownBy(f, cut.head))
<1>7. g = [e EXCEPT !.pending = cut.rest, !.go = "no"]
  BY <1>3, <1>5, <1>6
<1>8. cut.head \in Txt /\ cut.rest \in Txt
  BY <1>1, <1>4, CutLineIs
<1>9. Sound(h, e) /\ e = [f EXCEPT !.out = e.out]
  BY <1>8, EmitShown
<1> HIDE DEF e, g, cut
<1>10. e \in Filters /\ e.inTool = f.inTool
  BY <1>1, <1>9 DEF Filters, Sound
<1>11. g.go = "no" /\ ~g.inTool
  BY <1>7, <1>8, <1>10 DEF Filters
<1> QED BY <1>11 DEF g

LEMMA SizeIs == ASSUME NEW x \in Filters PROVE Size(x) \in Nat
<1> DEFINE a == Len(x.pending)
           b == Len(x.toolBuf)
<1>1. x.pending \in Txt /\ x.toolBuf \in Txt
  BY DEF Filters
<1>2. a \in Nat /\ b \in Nat
  <2>1. \A s \in Txt : Len(s) \in Nat
    BY DEF Txt
  <2> QED BY <1>1, <2>1
<1> HIDE DEF a, b
<1>3. a + b \in Nat
  BY <1>2
<1> QED BY <1>3 DEF Size, a, b

\* The parsing of a piece ends, and leaves the filter waiting.
Waits(h, said, g) == Sound(h, g) /\ Held(said, g) /\ Waiting(g) /\ g.go = "no"

Parsing(h, said) ==
    {g \in Filters : Sound(h, g) /\ Held(said, g) /\ (g.go = "no" => Waiting(g))}

LEMMA RoundIs ==
    ASSUME NEW h \in BOOLEAN, NEW said \in Txt, NEW f \in Parsing(h, said), f.go # "no"
    PROVE  /\ Round(f) \in Parsing(h, said)
           /\ Round(f).go = "no" \/ Size(Round(f)) < Size(f)
<1>1. /\ f \in Filters /\ Sound(h, f) /\ Held(said, f) /\ f.go \in {"on", "force"}
      /\ f.inTool \in BOOLEAN
  BY DEF Parsing, Filters
<1>2. CASE f.inTool
  <2> DEFINE g == TryCloseTool(f)
  <2>1. /\ Sound(h, g) /\ Held(said, g)
        /\ \/ g.go = "no" /\ Waiting(g)
           \/ g.go \in {"on", f.go} /\ Size(g) < Size(f)
    BY <1>1, <1>2, TryCloseIs
  <2>2. Round(f) = g
    BY <1>2 DEF Round
  <2> HIDE DEF g
  <2>3. g \in Filters
    BY <2>1 DEF Sound
  <2> QED BY <1>1, <2>1, <2>2, <2>3 DEF Parsing
<1>3. CASE ~f.inTool
  <2> DEFINE g == ScanText(f)
  <2>1. /\ Sound(h, g) /\ Held(said, g)
        /\ \/ g.go = "no" /\ ~g.inTool
           \/ g.go = f.go /\ Size(g) < Size(f)
    BY <1>1, <1>3, ScanIs
  <2>2. Round(f) = g
    BY <1>3 DEF Round
  <2> HIDE DEF g
  <2>3. g \in Filters
    BY <2>1 DEF Sound
  <2> QED BY <1>1, <2>1, <2>2, <2>3 DEF Parsing, Waiting
<1> QED BY <1>1, <1>2, <1>3

LEMMA ParsedIs ==
    ASSUME NEW h \in BOOLEAN, NEW said \in Txt, NEW f \in Parsing(h, said), f.go # "no"
    PROVE  Waits(h, said, Parsed(f))
<1> DEFINE A == Parsing(h, said)
           n == Size(f)
<1>1. \A x \in A : x.go # "no" => Round(x) \in A /\ (Round(x).go = "no" \/ Size(Round(x)) < Size(x))
  BY RoundIs
<1>2. f \in Filters
  BY DEF Parsing
<1>3. n \in Nat /\ \A x \in A : Size(x) \in Nat
  <2>1. \A x \in Filters : Size(x) \in Nat
    BY SizeIs
  <2>2. A \subseteq Filters
    BY DEF Parsing
  <2> HIDE DEF A
  <2> QED BY <1>2, <2>1, <2>2
<1> HIDE DEF A
<1>4. f \in A /\ Round(f) \in A
  BY <1>1 DEF A
<1>5. PICK F \in [0 .. n -> A] :
         /\ F[0] = Round(f) /\ F[n] = Parsed(f)
         /\ \A k \in 1 .. n :
               F[k] = IF F[k - 1].go = "no" THEN F[k - 1] ELSE Round(F[k - 1])
  BY <1>1, <1>2, <1>4, ParsedSteps
<1> HIDE DEF n
<1> DEFINE T == {k \in 0 .. n : F[k].go = "no" \/ Size(F[k]) + k < n}
<1>6. 0 \in T
  BY <1>1, <1>3, <1>4, <1>5 DEF n
<1>7. ASSUME NEW k \in 1 .. n, k - 1 \in T PROVE k \in T
  <2>1. k - 1 \in 0 .. n /\ k \in 0 .. n /\ k - 1 \in Nat
    BY <1>3
  <2>2. F[k - 1] \in A /\ F[k] \in A
    BY <1>5, <2>1
  <2>3. CASE F[k - 1].go = "no"
    BY <1>5, <2>1, <2>3
  <2>4. CASE F[k - 1].go # "no"
    <3>1. F[k] = Round(F[k - 1])
      BY <1>5, <2>4
    <3>2. F[k].go = "no" \/ Size(F[k]) < Size(F[k - 1])
      BY <1>1, <2>2, <2>4, <3>1
    <3>3. Size(F[k - 1]) + (k - 1) < n
      BY <1>7, <2>4
    <3>4. Size(F[k - 1]) \in Nat /\ Size(F[k]) \in Nat
      BY <1>3, <2>2
    <3>5. Size(F[k]) < Size(F[k - 1]) => Size(F[k]) + k < n
      <4> DEFINE a == Size(F[k])
                 b == Size(F[k - 1])
      <4> HIDE DEF a, b
      <4>1. a \in Nat /\ b \in Nat /\ b + (k - 1) < n
        BY <3>3, <3>4 DEF a, b
      <4>2. a < b => a + k < n
        BY <1>3, <4>1
      <4> QED BY <4>2 DEF a, b
    <3> QED BY <2>1, <3>2, <3>5
  <2> QED BY <2>3, <2>4
<1>8. n \in T
  <2> HIDE DEF T
  <2>1. 0 .. n \subseteq T
    BY <1>3, <1>6, <1>7, UpTo
  <2> QED BY <1>3, <2>1
<1>9. F[n] \in A /\ Size(F[n]) \in Nat
  BY <1>3, <1>5
<1>10. F[n].go = "no"
  <2>1. ~(Size(F[n]) + n < n)
    BY <1>3, <1>9
  <2> QED BY <1>8, <2>1
<1> QED BY <1>5, <1>9, <1>10 DEF A, Parsing, Waits

\* A piece of text is fed to the filter.
LEMMA FeedIs ==
    ASSUME NEW h \in BOOLEAN, NEW said \in Txt, NEW s \in Txt, NEW f,
           Sound(h, f), Held(said, f)
    PROVE  Waits(h, said \o s, FeedContent(f, s))
<1> DEFINE x == IF f.inTool THEN [f EXCEPT !.toolBuf = @ \o s, !.go = "on"]
                ELSE [f EXCEPT !.pending = @ \o s, !.go = "on"]
           both == said \o s
<1>1. f \in Filters /\ f.pending \in Txt /\ f.toolBuf \in Txt /\ f.inTool \in BOOLEAN
  BY DEF Sound, Filters
<1>2. both \in Txt /\ f.pending \o s \in Txt /\ f.toolBuf \o s \in Txt
  BY <1>1, JoinedIs
<1>3. /\ x \in Filters /\ x.out = f.out /\ x.found = f.found /\ x.inPost = f.inPost
      /\ x.inTool = f.inTool /\ x.go = "on"
      /\ f.inTool => x.toolBuf = f.toolBuf \o s
      /\ ~f.inTool => x.pending = f.pending \o s
  <2> DEFINE p2 == f.pending \o s
             t2 == f.toolBuf \o s
  <2>1. p2 \in Txt /\ t2 \in Txt
    BY <1>2
  <2> HIDE DEF p2, t2
  <2>2. x = IF f.inTool THEN [f EXCEPT !.toolBuf = t2, !.go = "on"]
                ELSE [f EXCEPT !.pending = p2, !.go = "on"]
    BY DEF p2, t2
  <2> HIDE DEF x
  <2>3. CASE f.inTool
    <3>1. x = [f EXCEPT !.toolBuf = t2, !.go = "on"]
      BY <2>2, <2>3
    <3> QED BY <1>1, <2>1, <2>3, <3>1 DEF Filters, t2
  <2>4. CASE ~f.inTool
    <3>1. x = [f EXCEPT !.pending = p2, !.go = "on"]
      BY <2>2, <2>4
    <3> QED BY <1>1, <2>1, <2>4, <3>1 DEF Filters, p2
  <2> QED BY <2>3, <2>4
<1> HIDE DEF x
<1>4. Sound(h, x)
  BY <1>3 DEF Sound
<1>5. Held(both, x)
  <2> SUFFICES ASSUME NoResult(both)
               PROVE  /\ ~x.inTool => \E k \in 1 .. (Len(both) + 1) : x.pending = From(both, k)
                      /\ x.inTool => \E i \in DOMAIN both :
                            both[i] = "fence" /\ Fence(both, i).opens /\ x.toolBuf = From(both, Fence(both, i).after)
    BY DEF Held
  <2>1. NoResult(said)
    <3>1. /\ Len(said) \in Nat /\ Len(s) \in Nat /\ Len(both) = Len(said) + Len(s)
          /\ \A j \in 1 .. Len(said) : both[j] = said[j]
      BY JoinedIs
    <3> HIDE DEF both
    <3>2. \A j \in 1 .. Len(said) : j \in 1 .. Len(both)
      BY <3>1
    <3> QED BY <3>1, <3>2 DEF NoResult
  <2>2. CASE ~x.inTool
    <3>1. PICK k \in 1 .. (Len(said) + 1) : f.pending = From(said, k)
      BY <1>3, <2>1, <2>2 DEF Held
    <3>2. f.pending \o s = From(both, k) /\ k \in 1 .. (Len(both) + 1)
      BY <3>1, FromMore
    <3> QED BY <1>3, <2>2, <3>2
  <2>3. CASE x.inTool
    <3>1. PICK i \in DOMAIN said :
             said[i] = "fence" /\ Fence(said, i).opens /\ f.toolBuf = From(said, Fence(said, i).after)
      BY <1>3, <2>1, <2>3 DEF Held
    <3>2. i \in DOMAIN both /\ both[i] = said[i] /\ Fence(both, i) = Fence(said, i)
      BY <3>1, OpensMore
    <3> DEFINE k == Fence(said, i).after
    <3>3. k \in 1 .. (Len(said) + 1)
      <4>1. k \in (i + 1) .. (Len(said) + 1)
        BY FenceIs
      <4>2. i \in Nat /\ Len(said) \in Nat
        BY DEF Txt
      <4> HIDE DEF k
      <4> QED BY <4>1, <4>2
    <3>4. f.toolBuf \o s = From(both, k)
      <4> HIDE DEF k
      <4>1. f.toolBuf = From(said, k)
        BY <3>1 DEF k
      <4> QED BY <3>3, <4>1, FromMore
    <3> QED BY <1>3, <2>3, <3>1, <3>2, <3>4
  <2> QED BY <1>1, <1>3, <2>2, <2>3
<1>6. x \in Parsing(h, both) /\ x.go # "no"
  BY <1>3, <1>4, <1>5 DEF Parsing
<1>7. Waits(h, both, Parsed(x))
  <2> HIDE DEF both
  <2> QED BY <1>2, <1>6, ParsedIs
<1> QED BY <1>7 DEF FeedContent, x

-----------------------------------------------------------------------------
(* The filter is closed *)

\* The end of the reply: a call that stays open is not closed by any ```.
Closing(h, said) ==
    {g \in Filters : /\ Sound(h, g) /\ Held(said, g)
                     /\ g.inTool => g.go = "no" /\ NextFence(g.toolBuf, 1).at = 0
                     /\ ~g.inTool => g.go = "no" \/ g.pending \in Ends}

LEMMA ForcedIs ==
    ASSUME NEW h \in BOOLEAN, NEW said \in Txt, NEW f, Sound(h, f), Held(said, f),
           Waiting(f), f.inTool, f.go = "force"
    PROVE  Parsed(f) \in Closing(h, said)
<1> DEFINE A == Closing(h, said)
           n == Size(f)
<1>1. Round(f) \in A
  <2> DEFINE g == TryCloseTool(f)
             seen == NextFence(f.toolBuf, 1)
  <2>0. Undecided(f.toolBuf, seen.at) \/ seen.at = 0
    BY DEF Waiting
  <2>1. /\ Sound(h, g) /\ Held(said, g)
        /\ \/ /\ g.go = "no" /\ g.inTool /\ g.toolBuf = f.toolBuf
              /\ f.go = "force" => seen.at = 0
           \/ /\ seen.at # 0
              /\ Undecided(f.toolBuf, seen.at) => ~g.inTool /\ g.go = "on" /\ g.pending \in Ends
    BY TryCloseIs
  <2>2. Round(f) = g
    BY DEF Round
  <2>3. g.inTool => NextFence(g.toolBuf, 1).at = 0 /\ g.go = "no"
    <3> HIDE DEF g
    <3> QED BY <2>0, <2>1 DEF seen
  <2>4. ~g.inTool => g.go = "no" \/ g.pending \in Ends
    <3> HIDE DEF g, seen
    <3> QED BY <2>0, <2>1
  <2> HIDE DEF g, seen
  <2> QED BY <2>1, <2>2, <2>3, <2>4 DEF Closing, Sound
<1>2. ASSUME NEW x \in A, x.go # "no" PROVE Round(x) \in A
  <2> DEFINE g == ScanText(x)
  <2>1. x \in Filters /\ Sound(h, x) /\ Held(said, x) /\ ~x.inTool /\ x.pending \in Ends
    BY <1>2 DEF Closing
  <2>2. g.go = "no" /\ ~g.inTool
    BY <2>1, SmallScan
  <2>3. Sound(h, g) /\ Held(said, g)
    BY <2>1, ScanIs
  <2>4. Round(x) = g
    BY <2>1 DEF Round
  <2> HIDE DEF g
  <2> QED BY <2>2, <2>3, <2>4 DEF Closing, Sound
<1>4. f \in Filters
  BY DEF Sound
<1>3. n \in Nat
  BY <1>4, SizeIs
<1> HIDE DEF A
<1>5. PICK F \in [0 .. n -> A] : F[n] = Parsed(f)
  BY <1>1, <1>2, <1>4, ParsedSteps
<1> HIDE DEF n
<1>6. F[n] \in A
  BY <1>3, <1>5
<1> QED BY <1>5, <1>6 DEF A

\* Text adds no call.
LEMMA TextsAddNone ==
    ASSUME NEW a \in Seq(Shows), NEW s \in Txt
    PROVE  /\ a \o Texts(s) \in Seq(Shows)
           /\ Promise!HasCall(a \o Texts(s)) <=> Promise!HasCall(a)
<1> DEFINE b == Texts(s)
           ab == a \o b
<1>1. /\ b \in Seq(Shows) /\ Len(b) = Len(s) /\ \A i \in 1 .. Len(b) : b[i].kind = "text"
  BY TextsIs
<1> HIDE DEF b
<1>2. /\ ab \in Seq(Shows) /\ Len(a) \in Nat /\ Len(b) \in Nat /\ Len(ab) = Len(a) + Len(b)
      /\ \A i \in 1 .. Len(a) : ab[i] = a[i]
      /\ \A i \in 1 .. Len(b) : ab[Len(a) + i] = b[i]
      /\ DOMAIN a = 1 .. Len(a) /\ DOMAIN ab = 1 .. Len(ab)
  BY <1>1
<1> HIDE DEF ab
<1>3. ASSUME Promise!HasCall(ab) PROVE Promise!HasCall(a)
  <2>1. PICK i \in 1 .. Len(ab) : ab[i].kind = "call"
    BY <1>2, <1>3 DEF Promise!HasCall
  <2>2. CASE i \in 1 .. Len(a)
    BY <1>2, <2>1, <2>2 DEF Promise!HasCall
  <2>3. CASE i \notin 1 .. Len(a)
    <3>1. i - Len(a) \in 1 .. Len(b) /\ Len(a) + (i - Len(a)) = i
      BY <1>2, <2>3
    <3>2. b[i - Len(a)].kind = "call"
      BY <1>2, <2>1, <3>1
    <3> QED BY <1>1, <3>1, <3>2
  <2> QED BY <2>2, <2>3
<1>4. ASSUME Promise!HasCall(a) PROVE Promise!HasCall(ab)
  <2>1. \A i \in 1 .. Len(a) : i \in 1 .. Len(ab)
    BY <1>2
  <2> QED BY <1>2, <1>4, <2>1 DEF Promise!HasCall
<1> QED BY <1>2, <1>3, <1>4 DEF ab, b

\* What is shown of the rest.
LEMMA ShowRestIs ==
    ASSUME NEW h \in BOOLEAN, NEW f \in Filters, Orderly(h, f.out),
           f.found <=> h \/ Promise!HasCall(f.out), f.inPost => f.found
    PROVE  LET g == ShowRest(f)
           IN  /\ g \in Filters /\ g.found = f.found
               /\ g.found <=> h \/ Promise!HasCall(g.out)
               /\ (f.found => f.inPost) => Orderly(h, g.out)
<1> DEFINE g == ShowRest(f)
<1>1. /\ f.pending \in Txt /\ f.toolBuf \in Txt /\ f.out \in Seq(Shows) /\ f.found \in BOOLEAN
      /\ f.inPost \in BOOLEAN
  BY DEF Filters
<1>2. CASE f.inPost
  <2>1. g = [f EXCEPT !.pending = <<>>, !.toolBuf = <<>>]
    BY <1>2 DEF ShowRest
  <2>2. <<>> \in Txt
    BY DEF Txt
  <2> HIDE DEF g
  <2>3. g \in Filters /\ g.found = f.found /\ g.out = f.out
    BY <2>1, <2>2 DEF Filters
  <2> QED BY <2>3 DEF g
<1>3. CASE ~f.inPost
  <2> DEFINE all == (IF f.toolBuf = <<>> THEN <<>> ELSE <<"fence", "tool">> \o f.toolBuf)
             o2 == f.out \o LastText(f)
  <2>1. all \in Txt
    <3>1. <<"fence", "tool">> \in Txt
      BY DEF Txt, Val
    <3>2. <<"fence", "tool">> \o f.toolBuf \in Txt
      BY <1>1, <3>1, JoinedIs
    <3>3. <<>> \in Txt
      BY DEF Txt
    <3> QED BY <3>2, <3>3
  <2>2. LastText(f) = Texts(all) \o Texts(f.pending)
    <3>1. Texts(<<>>) = <<>>
      BY DEF Texts
    <3> QED BY <3>1 DEF LastText
  <2> HIDE DEF all
  <2> DEFINE a == Texts(all)
             b == Texts(f.pending)
  <2>3. /\ a \in Seq(Shows) /\ Orderly(FALSE, a) /\ ~Promise!HasCall(a)
        /\ b \in Seq(Shows) /\ Orderly(FALSE, b) /\ ~Promise!HasCall(b)
    BY <1>1, <2>1, TextsIs, OrderlyTexts
  <2> HIDE DEF a, b
  <2>4. a \o b \in Seq(Shows) /\ Orderly(FALSE, a \o b) /\ ~Promise!HasCall(a \o b)
    <3>1. Orderly(FALSE \/ Promise!HasCall(a), b)
      BY <2>3 DEF Orderly
    <3> QED BY <2>3, <3>1, OrderlyJoined
  <2> DEFINE t == a \o b
  <2>5. g = [f EXCEPT !.out = f.out \o t, !.toolBuf = <<>>]
    <3>1. g = [Emit(f, t) EXCEPT !.toolBuf = <<>>]
      BY <1>3, <2>2 DEF ShowRest, a, b
    <3>2. Emit(f, t) = [f EXCEPT !.out = f.out \o t]
      BY DEF Emit
    <3> HIDE DEF t
    <3> QED BY <1>1, <3>1, <3>2 DEF Filters
  <2>6. /\ f.out \o t \in Seq(Shows)
        /\ Promise!HasCall(f.out \o t) <=> Promise!HasCall(f.out)
    <3>1. f.out \o a \in Seq(Shows) /\ (Promise!HasCall(f.out \o a) <=> Promise!HasCall(f.out))
      BY <1>1, <2>1, TextsAddNone DEF a
    <3> DEFINE oa == f.out \o a
    <3> HIDE DEF oa
    <3>2. oa \o b \in Seq(Shows) /\ (Promise!HasCall(oa \o b) <=> Promise!HasCall(oa))
      BY <1>1, <3>1, TextsAddNone DEF b, oa
    <3>3. oa \o b = f.out \o t
      <4>1. \A x, y, z \in Seq(Shows) : (x \o y) \o z = x \o (y \o z)
        OBVIOUS
      <4> QED BY <1>1, <2>3, <4>1 DEF oa
    <3> QED BY <3>1, <3>2, <3>3 DEF oa
  <2>7. ~f.found => Orderly(h, f.out \o t)
    <3> SUFFICES ASSUME ~f.found PROVE Orderly(h, f.out \o t)
      OBVIOUS
    <3>1. ~h /\ ~Promise!HasCall(f.out)
      OBVIOUS
    <3>2. Orderly(h \/ Promise!HasCall(f.out), t)
      BY <2>4, <3>1 DEF Orderly
    <3>3. t \in Seq(Shows)
      BY <2>4
    <3>4. f.out \in Seq(Shows) /\ Orderly(h, f.out)
      BY <1>1
    <3> HIDE DEF t
    <3> QED BY <3>2, <3>3, <3>4, OrderlyJoined
  <2> DEFINE o3 == f.out \o t
  <2> HIDE DEF g, t, o3
  <2>8. g \in Filters /\ g.found = f.found /\ g.out = o3
    <3>1. <<>> \in Txt /\ o3 \in Seq(Shows) /\ g = [f EXCEPT !.out = o3, !.toolBuf = <<>>]
      BY <2>5, <2>6 DEF Txt, o3
    <3> QED BY <3>1 DEF Filters
  <2>9. (f.found => f.inPost) => ~f.found
    BY <1>3
  <2> QED BY <2>6, <2>7, <2>8, <2>9 DEF g, o3
<1> QED BY <1>2, <1>3

\* A fence that is open when the reply has been read.
LEMMA CloseIs ==
    ASSUME NEW h \in BOOLEAN, NEW said \in Txt, NEW f, Sound(h, f), Held(said, f), Waiting(f)
    PROVE  LET g == CloseFilter(f)
           IN  /\ g \in Filters
               /\ g.found <=> h \/ Promise!HasCall(g.out)
               /\ NoResult(said) /\ ~LeftOpen(said) => Orderly(h, g.out)
<1>1. f \in Filters /\ f.inTool \in BOOLEAN /\ f.inPost \in BOOLEAN
  BY DEF Sound, Filters
<1>2. CASE ~f.inTool
  <2>1. CloseFilter(f) = ShowRest(f)
    BY <1>2 DEF CloseFilter
  <2>2. /\ Orderly(h, f.out) /\ (f.found <=> h \/ Promise!HasCall(f.out))
        /\ f.inPost => f.found
        /\ f.found => f.inPost
    BY <1>2 DEF Sound
  <2>3. LET g == ShowRest(f)
        IN  /\ g \in Filters
            /\ g.found <=> h \/ Promise!HasCall(g.out)
            /\ Orderly(h, g.out)
    BY <1>1, <2>2, ShowRestIs
  <2> QED BY <2>1, <2>3
<1>3. CASE f.inTool
  <2> DEFINE x == [f EXCEPT !.go = "force"]
             y == Parsed(x)
             z == [y EXCEPT !.inTool = FALSE]
  <2>1. /\ x \in Filters /\ x.out = f.out /\ x.found = f.found /\ x.inPost = f.inPost
        /\ x.inTool = f.inTool /\ x.toolBuf = f.toolBuf /\ x.pending = f.pending /\ x.go = "force"
    BY <1>1 DEF Filters
  <2> HIDE DEF x
  <2>2. Sound(h, x) /\ Held(said, x) /\ Waiting(x)
    BY <2>1 DEF Sound, Held, Waiting
  <2>3. y \in Closing(h, said)
    BY <1>3, <2>1, <2>2, ForcedIs
  <2>4. CloseFilter(f) = ShowRest(z)
    BY <1>3 DEF CloseFilter, x
  <2> HIDE DEF y
  <2>5. y \in Filters /\ Sound(h, y) /\ Held(said, y)
        /\ (y.inTool => NextFence(y.toolBuf, 1).at = 0)
    BY <2>3 DEF Closing
  <2>6. /\ z \in Filters /\ z.out = y.out /\ z.found = y.found /\ z.inPost = y.inPost
    BY <2>5 DEF Filters
  <2> HIDE DEF z
  <2>7. /\ Orderly(h, z.out) /\ (z.found <=> h \/ Promise!HasCall(z.out))
        /\ z.inPost => z.found
    BY <2>5, <2>6 DEF Sound
  <2>8. LET g == ShowRest(z)
        IN  /\ g \in Filters
            /\ g.found <=> h \/ Promise!HasCall(g.out)
            /\ (z.found => z.inPost) => Orderly(h, g.out)
    <3> DEFINE g == ShowRest(z)
    <3>1. /\ g \in Filters /\ g.found = z.found
          /\ g.found <=> h \/ Promise!HasCall(g.out)
          /\ (z.found => z.inPost) => Orderly(h, g.out)
      BY <2>6, <2>7, ShowRestIs
    <3> QED BY <3>1
  <2>9. ASSUME NoResult(said), ~LeftOpen(said) PROVE z.found => z.inPost
    <3>1. CASE ~y.inTool
      BY <2>5, <2>6, <3>1 DEF Sound
    <3>2. CASE y.inTool
      <4>1. PICK i \in DOMAIN said :
               said[i] = "fence" /\ Fence(said, i).opens /\ y.toolBuf = From(said, Fence(said, i).after)
        BY <2>5, <2>9, <3>2 DEF Held
      <4> DEFINE k == Fence(said, i).after
      <4>2. k \in 1 .. (Len(said) + 1)
        <5>1. k \in (i + 1) .. (Len(said) + 1)
          BY FenceIs
        <5>2. i \in Nat /\ Len(said) \in Nat
          BY DEF Txt
        <5> HIDE DEF k
        <5> QED BY <5>1, <5>2
      <4>3. NextFence(said, k) = NoFence
        <5> HIDE DEF k
        <5>1. y.toolBuf = From(said, k) /\ NextFence(y.toolBuf, 1).at = 0
          BY <2>5, <3>2, <4>1 DEF k
        <5>2. /\ From(said, k) \in Txt /\ Len(From(said, k)) = Len(said) + 1 - k
              /\ \A j \in 1 .. Len(From(said, k)) : From(said, k)[j] = said[k + j - 1]
          BY <4>2, FromIs
        <5> DEFINE b == From(said, k)
                   nb == NextFence(b, 1)
                   ns == NextFence(said, k)
        <5>3. \/ nb = NoFence /\ \A j \in 1 .. Len(b) : b[j] # "fence"
              \/ nb.at \in 1 .. Len(b)
          <6> HIDE DEF b
          <6>1. 1 \in 1 .. (Len(b) + 1)
            BY <5>2 DEF b, Txt
          <6> QED BY <5>2, <6>1, NextFenceIs DEF b
        <5>4. \A j \in 1 .. Len(b) : b[j] # "fence"
          <6> HIDE DEF b, nb
          <6> QED BY <5>1, <5>3 DEF b, nb
        <5>5. \/ ns = NoFence
              \/ ns.at \in k .. Len(said) /\ said[ns.at] = "fence"
          BY <4>2, NextFenceIs
        <5>6. Len(said) \in Nat
          BY DEF Txt
        <5> HIDE DEF ns, nb
        <5>7. ASSUME NEW m \in k .. Len(said), said[m] = "fence" PROVE FALSE
          <6> DEFINE j == m - k + 1
          <6> HIDE DEF b
          <6>1. j \in 1 .. Len(b) /\ k + j - 1 = m
            BY <4>2, <5>2, <5>6 DEF b
          <6> HIDE DEF j
          <6>2. b[j] = said[m]
            BY <5>2, <6>1 DEF b
          <6> QED BY <5>4, <5>7, <6>1, <6>2
        <5> QED BY <5>5, <5>7 DEF ns
      <4>4. LeftOpen(said)
        BY <4>1, <4>3 DEF LeftOpen
      <4> QED BY <2>9, <4>4
    <3> QED BY <2>5, <3>1, <3>2 DEF Filters
  <2> QED BY <2>4, <2>8, <2>9
<1> QED BY <1>1, <1>2, <1>3

-----------------------------------------------------------------------------
(* What has been said *)

\* Picking items out of a sequence, one item at a time.
Picks(X, s, kinds) ==
    \E F \in [0 .. Len(s) -> Seq(X)] :
        /\ F[0] = <<>> /\ F[Len(s)] = Of(s, kinds)
        /\ \A k \in 1 .. Len(s) :
              F[k] = IF s[k].kind \in kinds THEN Append(F[k - 1], s[k]) ELSE F[k - 1]

LEMMA OfSteps ==
    ASSUME NEW X, NEW s \in Seq(X), NEW kinds
    PROVE  Picks(X, s, kinds)
<1> DEFINE n == Len(s)
           A == Seq(X)
           c == <<>>
           g == [x \in A \X (1 .. n) |-> IF s[x[2]].kind \in kinds THEN Append(x[1], s[x[2]]) ELSE x[1]]
           Is(h) == h = [S \in SUBSET DOMAIN s |->
                           IF S = {} THEN c
                           ELSE IF s[Max(S)].kind \in kinds
                                THEN Append(h[S \ {Max(S)}], s[Max(S)])
                                ELSE h[S \ {Max(S)}]]
           p == CHOOSE h : Is(h)
<1>0. n \in Nat /\ DOMAIN s = 1 .. n
  OBVIOUS
<1>1. c \in A /\ \A a \in A, k \in 1 .. n :
         (IF s[k].kind \in kinds THEN Append(a, s[k]) ELSE a) \in A
  OBVIOUS
<1> HIDE DEF n
<1>2. /\ g \in [A \X (1 .. n) -> A]
      /\ \A a \in A, k \in 1 .. n :
            g[<<a, k>>] = IF s[k].kind \in kinds THEN Append(a, s[k]) ELSE a
  <2> HIDE DEF A
  <2> QED BY <1>1
<1> HIDE DEF g, c, A
<1>3. PICK h \in [SUBSET (1 .. n) -> A] : Stepped(n, c, g, h)
  BY <1>0, <1>1, <1>2, FoldExists
<1>4. \A S \in SUBSET (1 .. n) : S # {} => Max(S) \in 1 .. n /\ S \ {Max(S)} \in SUBSET (1 .. n)
  BY <1>0, MaxIs
<1>5. Is(h)
  BY <1>0, <1>2, <1>3, <1>4 DEF Stepped
<1>6. Is(p)
  BY <1>5
<1> HIDE DEF p
<1>7. p[{}] = c
  BY <1>6
<1>8. Follows(n, A, g, p)
  BY <1>0, <1>2, <1>4, <1>6 DEF Follows
<1>9. Of(s, kinds) = p[1 .. n]
  <2>1. Of(s, kinds) = p[DOMAIN s]
    BY DEF Of, FoldLeft, MapThenFoldSet, p, c
  <2> QED BY <1>0, <2>1
<1> HIDE DEF Is
<1>10. Passes(n, A, c, g, p[1 .. n])
  BY <1>0, <1>1, <1>2, <1>7, <1>8, StepsOfFold
<1>11. PICK F \in [0 .. n -> A] :
         F[0] = c /\ F[n] = p[1 .. n] /\ \A k \in 1 .. n : F[k] = g[<<F[k - 1], k>>]
  BY <1>10 DEF Passes
<1>12. \A k \in 1 .. n : F[k] = IF s[k].kind \in kinds THEN Append(F[k - 1], s[k]) ELSE F[k - 1]
  <2>1. \A k \in 1 .. n : k - 1 \in 0 .. n
    BY <1>0
  <2> QED BY <1>2, <1>11, <2>1
<1> QED BY <1>0, <1>9, <1>11, <1>12 DEF c, A, n, Picks

LEMMA OfAppend ==
    ASSUME NEW X, NEW s \in Seq(X), NEW x \in X, NEW kinds
    PROVE  /\ Of(s, kinds) \in Seq(X)
           /\ Of(Append(s, x), kinds) =
                 IF x.kind \in kinds THEN Append(Of(s, kinds), x) ELSE Of(s, kinds)
<1> DEFINE n == Len(s)
           t == Append(s, x)
<1>1. /\ n \in Nat /\ t \in Seq(X) /\ Len(t) = n + 1 /\ t[n + 1] = x
      /\ \A k \in 1 .. n : t[k] = s[k]
  OBVIOUS
<1> HIDE DEF t
<1>2. PICK F \in [0 .. n -> Seq(X)] :
         /\ F[0] = <<>> /\ F[n] = Of(s, kinds)
         /\ \A k \in 1 .. n :
               F[k] = IF s[k].kind \in kinds THEN Append(F[k - 1], s[k]) ELSE F[k - 1]
  <2>1. Picks(X, s, kinds)
    BY OfSteps
  <2> QED BY <2>1 DEF Picks
<1>3. PICK G \in [0 .. Len(t) -> Seq(X)] :
         /\ G[0] = <<>> /\ G[Len(t)] = Of(t, kinds)
         /\ \A k \in 1 .. Len(t) :
               G[k] = IF t[k].kind \in kinds THEN Append(G[k - 1], t[k]) ELSE G[k - 1]
  <2>1. Picks(X, t, kinds)
    BY <1>1, OfSteps
  <2> QED BY <2>1 DEF Picks
<1> HIDE DEF n
<1> DEFINE T == {k \in 0 .. n : G[k] = F[k]}
<1>4. 0 \in T
  BY <1>1, <1>2, <1>3
<1>5. ASSUME NEW k \in 1 .. n, k - 1 \in T PROVE k \in T
  <2>1. k \in 1 .. Len(t) /\ k \in 0 .. n /\ t[k] = s[k] /\ G[k - 1] = F[k - 1]
    BY <1>1, <1>5
  <2>2. G[k] = F[k]
    BY <1>2, <1>3, <2>1
  <2> QED BY <2>1, <2>2
<1>6. n \in T
  <2> HIDE DEF T
  <2>1. 0 .. n \subseteq T
    BY <1>1, <1>4, <1>5, UpTo
  <2> QED BY <1>1, <2>1
<1>7. G[n + 1] = IF x.kind \in kinds THEN Append(G[n], x) ELSE G[n]
  <2>1. n + 1 \in 1 .. Len(t) /\ (n + 1) - 1 = n
    BY <1>1
  <2> QED BY <1>1, <1>3, <2>1
<1>8. Of(s, kinds) \in Seq(X)
  BY <1>1, <1>2
<1>9. G[n] = Of(s, kinds) /\ G[n + 1] = Of(t, kinds)
  BY <1>1, <1>2, <1>3, <1>6
<1> QED BY <1>7, <1>8, <1>9 DEF t

LEMMA OfNone == ASSUME NEW kinds PROVE Of(<<>>, kinds) = <<>>
<1> DEFINE e == <<>>
<1>1. e \in Seq({}) /\ Len(e) = 0
  OBVIOUS
<1> HIDE DEF e
<1>2. PICK F \in [0 .. Len(e) -> Seq({})] : F[0] = <<>> /\ F[Len(e)] = Of(e, kinds)
  <2>1. Picks({}, e, kinds)
    BY <1>1, OfSteps
  <2> QED BY <2>1 DEF Picks
<1> QED BY <1>1, <1>2 DEF e

-----------------------------------------------------------------------------
(* What has been said *)

Early(items, k) == SubSeq(items, 1, k)

LEMMA FrontMore ==
    ASSUME NEW X, NEW s \in Seq(X), NEW k \in 1 .. Len(s)
    PROVE  /\ Early(s, k) = Append(Early(s, k - 1), s[k])
           /\ Early(s, k - 1) \in Seq(X) /\ Early(s, k) \in Seq(X) /\ s[k] \in X
<1>1. SubSeq(s, 1, k) = Append(SubSeq(s, 1, k - 1), s[k])
  OBVIOUS
<1>2. SubSeq(s, 1, k) \in Seq(X) /\ SubSeq(s, 1, k - 1) \in Seq(X)
  OBVIOUS
<1> QED BY <1>1, <1>2 DEF Early

\* The text among the first k items.
SaidBy(items, k) == Tokens(Of(Early(items, k), {"text"}))

LEMMA ItemsHaveVal == \A y \in Items : y.val \in Val
BY DEF Items, Val

LEMMA TokensAppend ==
    ASSUME NEW s \in Seq(Items), NEW x \in Items
    PROVE  /\ Tokens(s) \in Txt /\ x.val \in Val
           /\ Tokens(Append(s, x)) = Append(Tokens(s), x.val)
<1>1. x.val \in Val /\ \A i \in DOMAIN s : s[i].val \in Val
  <2>1. \A y \in Items : y.val \in Val
    BY ItemsHaveVal
  <2>2. \A i \in DOMAIN s : s[i] \in Items
    OBVIOUS
  <2> QED BY <2>1, <2>2
<1>2. Tokens(s) \in Txt
  BY <1>1 DEF Tokens, Txt
<1>3. Tokens(Append(s, x)) = Append(Tokens(s), x.val)
  BY <1>1 DEF Tokens
<1> QED BY <1>1, <1>2, <1>3

LEMMA SaidByIs ==
    ASSUME NEW s \in Seq(Items), NEW k \in 1 .. Len(s)
    PROVE  /\ SaidBy(s, k - 1) \in Txt /\ s[k] \in Items /\ s[k].val \in Val
           /\ SaidBy(s, k) = IF s[k].kind = "text" THEN Append(SaidBy(s, k - 1), s[k].val)
                             ELSE SaidBy(s, k - 1)
<1> DEFINE a == Early(s, k - 1)
           x == s[k]
           o == Of(a, {"text"})
<1>1. Early(s, k) = Append(a, x) /\ a \in Seq(Items) /\ x \in Items
  BY FrontMore
<1> HIDE DEF a, x
<1>2. /\ o \in Seq(Items)
      /\ Of(Append(a, x), {"text"}) = IF x.kind \in {"text"} THEN Append(o, x) ELSE o
  BY <1>1, OfAppend
<1> HIDE DEF o
<1>3. Tokens(o) \in Txt /\ x.val \in Val /\ Tokens(Append(o, x)) = Append(Tokens(o), x.val)
  BY <1>1, <1>2, TokensAppend
<1> QED BY <1>1, <1>2, <1>3 DEF SaidBy, a, x, o

LEMMA SaidTyped ==
    ASSUME NEW s \in Seq(Items), NEW k \in 0 .. Len(s)
    PROVE  SaidBy(s, k) \in Txt
<1>1. CASE k = 0
  <2>1. Early(s, 0) = <<>>
    BY DEF Early
  <2>2. Tokens(<<>>) = <<>>
    BY DEF Tokens
  <2>3. <<>> \in Txt
    BY DEF Txt
  <2> QED BY <1>1, <2>1, <2>2, <2>3, OfNone DEF SaidBy
<1>2. CASE k # 0
  <2>1. k \in 1 .. Len(s)
    BY <1>2
  <2>2. /\ SaidBy(s, k - 1) \in Txt /\ s[k].val \in Val
        /\ SaidBy(s, k) = IF s[k].kind = "text" THEN Append(SaidBy(s, k - 1), s[k].val)
                          ELSE SaidBy(s, k - 1)
    BY <2>1, SaidByIs
  <2>3. \A a \in Txt, v \in Val : Append(a, v) \in Txt
    BY DEF Txt
  <2> QED BY <2>2, <2>3
<1> QED BY <1>1, <1>2

LEMMA AppendJoined ==
    ASSUME NEW a \in Txt, NEW b \in Txt, NEW v \in Val
    PROVE  Append(a \o b, v) = a \o Append(b, v)
<1>1. a \in Seq(Val) /\ b \in Seq(Val) /\ Append(b, v) \in Seq(Val) /\ a \o b \in Seq(Val)
  BY DEF Txt
<1> QED BY <1>1

\* A frame with n tokens of text.
LEMMA SaidMore ==
    ASSUME NEW s \in Seq(Items), NEW m \in Nat, NEW n \in Nat, m + n <= Len(s),
           \A i \in 1 .. n : s[m + i].kind = "text"
    PROVE  LET piece == [i \in 1 .. n |-> s[m + i].val]
           IN  piece \in Txt /\ SaidBy(s, m + n) = SaidBy(s, m) \o piece
<1> DEFINE piece == [i \in 1 .. n |-> s[m + i].val]
           a == SaidBy(s, m)
           P(k) == SaidBy(s, m + k) = a \o Early(piece, k)
           T == {k \in 0 .. n : P(k)}
<1>1. \A i \in 1 .. n : m + i \in 1 .. Len(s) /\ s[m + i] \in Items /\ s[m + i].val \in Val
  BY ItemsHaveVal
<1>2. piece \in Txt /\ Len(piece) = n /\ \A i \in 1 .. n : piece[i] = s[m + i].val
  BY <1>1 DEF Txt
<1>3. a \in Txt
  <2>1. m \in 0 .. Len(s)
    OBVIOUS
  <2> QED BY <2>1, SaidTyped
<1> HIDE DEF piece, a
<1>4. 0 \in T
  <2>1. Early(piece, 0) = <<>>
    BY DEF Early
  <2>2. a \o <<>> = a
    BY <1>3 DEF Txt
  <2>3. m + 0 = m /\ 0 \in 0 .. n
    OBVIOUS
  <2>4. P(0)
    BY <2>1, <2>2, <2>3 DEF a
  <2> QED BY <2>3, <2>4
<1>5. ASSUME NEW k \in 1 .. n, k - 1 \in T PROVE k \in T
  <2> DEFINE j == m + k
             f1 == Early(piece, k - 1)
             v == s[j].val
  <2>1. /\ j \in 1 .. Len(s) /\ j - 1 = m + (k - 1) /\ k \in 1 .. Len(piece)
        /\ piece[k] = v /\ s[j].kind = "text" /\ v \in Val
    <3>1. j \in 1 .. Len(s) /\ j - 1 = m + (k - 1) /\ v \in Val /\ s[j].kind = "text"
      BY <1>1
    <3> QED BY <1>2, <3>1
  <2>2. SaidBy(s, j) = Append(SaidBy(s, j - 1), v)
    <3> HIDE DEF j
    <3> QED BY <2>1, SaidByIs
  <2>3. Early(piece, k) = Append(f1, v) /\ f1 \in Txt
    <3>1. piece \in Seq(Val)
      BY <1>2 DEF Txt
    <3> HIDE DEF f1
    <3>2. Early(piece, k) = Append(Early(piece, k - 1), piece[k]) /\ Early(piece, k - 1) \in Seq(Val)
      BY <2>1, <3>1, FrontMore
    <3> QED BY <2>1, <3>2 DEF Txt, f1
  <2>4. SaidBy(s, j - 1) = a \o f1
    BY <1>5, <2>1
  <2> HIDE DEF f1, v
  <2>5. Append(a \o f1, v) = a \o Append(f1, v)
    BY <1>3, <2>1, <2>3, AppendJoined
  <2>6. P(k)
    BY <2>2, <2>3, <2>4, <2>5
  <2> QED BY <2>6
<1>6. n \in T
  <2> HIDE DEF T
  <2>1. 0 .. n \subseteq T
    BY <1>4, <1>5, UpTo
  <2> QED BY <2>1
<1>7. Early(piece, n) = piece
  BY <1>2 DEF Early, Txt
<1> QED BY <1>2, <1>6, <1>7 DEF piece, a

-----------------------------------------------------------------------------
(* Items that are written, the stitched calls among them *)

\* What writing some items may do.
Grows(w, v) ==
    /\ InStep(v) /\ Further(w, v) /\ Longer(w.c.got, v.c.got)
    /\ w.o.done => v.c.got = w.c.got

LEMMA GrowsItself == ASSUME NEW w, InStep(w) PROVE Grows(w, w)
BY DEF Grows, Further, Longer

LEMMA ShowGrows ==
    ASSUME NEW w, NEW u, InStep(w), Grows(w, u), NEW x \in Shows
    PROVE  LET v == Show(u, x)
           IN  /\ Grows(w, v)
               /\ Promise!HasCall(u.c.got) => Promise!HasCall(v.c.got)
               /\ Promise!HasCall(v.c.got) => Promise!HasCall(u.c.got) \/ x.kind = "call"
               /\ x.kind = "call" /\ ~w.o.done /\ ~v.o.err => Promise!HasCall(v.c.got)
<1> DEFINE v == Show(u, x)
           s == u.c.got
           t == Append(s, x)
<1>1. InStep(u) /\ u.o.done = w.o.done /\ Further(w, u) /\ Longer(w.c.got, s)
      /\ (w.o.done => s = w.c.got)
  BY DEF Grows, Further
<1>2. /\ InStep(v) /\ Further(u, v)
      /\ LeftOut(u, x) => v.c.got = s
      /\ ~LeftOut(u, x) /\ ~v.o.err => v.c.got = t
      /\ ~LeftOut(u, x) /\ v.o.err => v.c.got = s
      /\ x.kind = "call" /\ ~u.o.err /\ ~u.o.done => ~LeftOut(u, x)
      /\ u.o.done => LeftOut(u, x)
  BY <1>1, ShowIs DEF LeftOut
<1>3. s \in Seq(Shows) /\ w.c.got \in Seq(Shows)
  BY <1>1 DEF InStep, Writers, Readers
<1> HIDE DEF v, s
<1>4. Longer(w.c.got, v.c.got)
  <2>1. Longer(w.c.got, t)
    BY <1>1, <1>3, LongerStep
  <2> QED BY <1>1, <1>2, <2>1
<1>5. Further(w, v)
  BY <1>1, <1>2 DEF Further
<1>6. w.o.done => v.c.got = w.c.got
  BY <1>1, <1>2
<1>7. Promise!HasCall(t) <=> Promise!HasCall(s) \/ x.kind = "call"
  <2>1. /\ DOMAIN s = 1 .. Len(s) /\ DOMAIN t = 1 .. (Len(s) + 1) /\ t[Len(s) + 1] = x
        /\ \A i \in 1 .. Len(s) : t[i] = s[i]
        /\ Len(s) \in Nat
    BY <1>3
  <2> HIDE DEF t
  <2> QED BY <2>1 DEF Promise!HasCall
<1> HIDE DEF t
<1>8. v.c.got = s \/ v.c.got = t
  BY <1>2
<1>9. x.kind = "call" /\ ~w.o.done /\ ~v.o.err => v.c.got = t
  BY <1>1, <1>2 DEF Further
<1>10. Grows(w, v)
  BY <1>2, <1>4, <1>5, <1>6 DEF Grows
<1> QED BY <1>7, <1>8, <1>9, <1>10 DEF v, s

LEMMA ShowAllGrows ==
    ASSUME NEW w, InStep(w), NEW items \in Seq(Shows)
    PROVE  LET v == ShowAll(w, items)
           IN  /\ Grows(w, v)
               /\ Promise!HasCall(w.c.got) => Promise!HasCall(v.c.got)
               /\ Promise!HasCall(v.c.got) => Promise!HasCall(w.c.got) \/ Promise!HasCall(items)
               /\ ~v.o.err /\ ~w.o.done /\ Promise!HasCall(items) => Promise!HasCall(v.c.got)
<1> DEFINE n == Len(items)
           Seen(k) == \E i \in 1 .. k : items[i].kind = "call"
<1>1. w \in Good /\ n \in Nat
  BY DEF Good, InStep
<1>2. PICK F \in [0 .. n -> Good] :
        /\ F[0] = w /\ F[n] = ShowAll(w, items)
        /\ \A k \in 1 .. n : F[k] = Show(F[k - 1], items[k])
  BY <1>1, ShowsAll
<1> DEFINE P(v) == /\ Grows(w, v)
                   /\ Promise!HasCall(w.c.got) => Promise!HasCall(v.c.got)
                   /\ Promise!HasCall(v.c.got) => Promise!HasCall(w.c.got) \/ Promise!HasCall(items)
           Q(k, v) == ~v.o.err /\ ~w.o.done /\ Seen(k) => Promise!HasCall(v.c.got)
           T == {k \in 0 .. n : P(F[k]) /\ Q(k, F[k])}
<1>3. 0 \in T
  BY <1>1, <1>2, GrowsItself
<1>4. ASSUME NEW k \in 1 .. n, k - 1 \in T PROVE k \in T
  <2> DEFINE u == F[k - 1]
             v == F[k]
             x == items[k]
  <2>1. k - 1 \in 0 .. n /\ k \in 0 .. n /\ x \in Shows
    OBVIOUS
  <2>2. v = Show(u, x) /\ P(u) /\ Q(k - 1, u)
    BY <1>2, <1>4
  <2>3. x.kind = "call" => Promise!HasCall(items)
    BY DEF Promise!HasCall
  <2>6. Seen(k) <=> Seen(k - 1) \/ x.kind = "call"
    OBVIOUS
  <2> HIDE DEF u, v, x, Seen
  <2>4. /\ Grows(w, v)
        /\ Promise!HasCall(u.c.got) => Promise!HasCall(v.c.got)
        /\ Promise!HasCall(v.c.got) => Promise!HasCall(u.c.got) \/ x.kind = "call"
        /\ x.kind = "call" /\ ~w.o.done /\ ~v.o.err => Promise!HasCall(v.c.got)
    BY <2>1, <2>2, ShowGrows
  <2>5. P(v)
    BY <2>2, <2>3, <2>4
  <2>7. u.o.err => v.o.err
    <3>1. InStep(u)
      BY <2>2 DEF Grows
    <3> QED BY <2>1, <2>2, <3>1, ShowIs DEF Further
  <2>8. Q(k, v)
    BY <2>2, <2>4, <2>6, <2>7
  <2> QED BY <2>1, <2>5, <2>8 DEF v
<1>5. 0 .. n \subseteq T
  <2> HIDE DEF T, n
  <2> QED BY <1>1, <1>3, <1>4, UpTo
<1>6. P(F[n]) /\ Q(n, F[n])
  BY <1>1, <1>5
<1>7. Promise!HasCall(items) <=> Seen(n)
  BY DEF Promise!HasCall
<1> HIDE DEF Seen
<1> QED BY <1>2, <1>6, <1>7

-----------------------------------------------------------------------------
(* The stitched calls *)

Stitches == Seq([call : STRING, whole : BOOLEAN])

FlushStep(v, t) == IF v.o.err THEN v ELSE Show(v, Call(t.call))

Flushes(w) ==
    \E F \in [0 .. Len(up.stitch) -> Good] :
        /\ F[0] = w /\ F[Len(up.stitch)] = FlushTools(w)
        /\ \A k \in 1 .. Len(up.stitch) : F[k] = FlushStep(F[k - 1], up.stitch[k])

LEMMA StitchIs ==
    ASSUME NEW s \in Stitches, NEW k \in DOMAIN s
    PROVE  Call(s[k].call) \in Shows /\ Call(s[k].call).kind = "call"
<1>1. s[k].call \in STRING
  <2> DEFINE X == [call : STRING, whole : BOOLEAN]
             x == s[k]
  <2>1. \A y \in X : y.call \in STRING
    OBVIOUS
  <2>2. s \in Seq(X)
    BY DEF Stitches
  <2> HIDE DEF X
  <2>3. s[k] \in X
    BY <2>2
  <2> QED BY <2>1, <2>3
<1>2. s[k].call \in Val
  BY <1>1 DEF Val
<1> QED BY <1>2, CallIs

LEMMA SeqFacts == ASSUME NEW X, NEW s \in Seq(X) PROVE Len(s) \in Nat /\ DOMAIN s = 1 .. Len(s)
OBVIOUS

LEMMA FlushSteps ==
    ASSUME NEW w \in Good, up.stitch \in Stitches
    PROVE  Flushes(w)
<1> DEFINE es == up.stitch
           n == Len(es)
           g == [x \in Good \X (1 .. n) |-> FlushStep(x[1], es[x[2]])]
           Is(h) == h = [S \in SUBSET DOMAIN es |->
                           IF S = {} THEN w
                           ELSE IF h[S \ {Max(S)}].o.err THEN h[S \ {Max(S)}]
                                ELSE Show(h[S \ {Max(S)}], Call(es[Max(S)].call))]
           p == CHOOSE h : Is(h)
<1>0. n \in Nat /\ DOMAIN es = 1 .. n
  BY SeqFacts DEF Stitches
<1>1. \A a \in Good, k \in 1 .. n : FlushStep(a, es[k]) \in Good
  <2> SUFFICES ASSUME NEW a \in Good, NEW k \in 1 .. n PROVE FlushStep(a, es[k]) \in Good
    OBVIOUS
  <2>1. Call(es[k].call) \in Shows
    BY <1>0, StitchIs
  <2>2. Show(a, Call(es[k].call)) \in Good
    BY <2>1, ShowGood
  <2> QED BY <2>2 DEF FlushStep
<1> HIDE DEF n, es
<1>2. /\ g \in [Good \X (1 .. n) -> Good]
      /\ \A a \in Good, k \in 1 .. n : g[<<a, k>>] = FlushStep(a, es[k])
  BY <1>1
<1> HIDE DEF g
<1>3. PICK h \in [SUBSET (1 .. n) -> Good] : Stepped(n, w, g, h)
  BY <1>0, <1>2, FoldExists
<1>4. \A S \in SUBSET (1 .. n) : S # {} => Max(S) \in 1 .. n /\ S \ {Max(S)} \in SUBSET (1 .. n)
  BY <1>0, MaxIs
<1>5. Is(h)
  BY <1>0, <1>2, <1>3, <1>4 DEF Stepped, FlushStep
<1>6. Is(p)
  BY <1>5
<1> HIDE DEF p
<1>7. p[{}] = w
  BY <1>6
<1>8. Follows(n, Good, g, p)
  BY <1>0, <1>2, <1>4, <1>6 DEF Follows, FlushStep
<1>9. FlushTools(w) = p[1 .. n]
  <2>1. FlushTools(w) = p[DOMAIN es]
    BY DEF FlushTools, FoldLeft, MapThenFoldSet, p, es
  <2> QED BY <1>0, <2>1
<1> HIDE DEF Is
<1>10. Passes(n, Good, w, g, p[1 .. n])
  BY <1>0, <1>2, <1>7, <1>8, StepsOfFold
<1>11. PICK F \in [0 .. n -> Good] :
         F[0] = w /\ F[n] = p[1 .. n] /\ \A k \in 1 .. n : F[k] = g[<<F[k - 1], k>>]
  BY <1>10 DEF Passes
<1>12. \A k \in 1 .. n : F[k] = FlushStep(F[k - 1], es[k])
  <2>1. \A k \in 1 .. n : k - 1 \in 0 .. n
    BY <1>0
  <2> QED BY <1>2, <1>11, <2>1
<1> QED BY <1>0, <1>9, <1>11, <1>12 DEF n, es, Flushes

LEMMA FlushIs ==
    ASSUME NEW w, InStep(w), up.stitch \in Stitches
    PROVE  LET v == FlushTools(w)
           IN  /\ Grows(w, v)
               /\ up.stitch = <<>> => v = w
               /\ Promise!HasCall(v.c.got) => Promise!HasCall(w.c.got) \/ up.stitch # <<>>
               /\ Promise!HasCall(w.c.got) => Promise!HasCall(v.c.got)
               /\ ~v.o.err /\ ~w.o.done /\ up.stitch # <<>> => Promise!HasCall(v.c.got)
<1> DEFINE es == up.stitch
           n == Len(es)
<1>1. w \in Good /\ n \in Nat /\ DOMAIN es = 1 .. n /\ (es = <<>> <=> n = 0)
  BY DEF Good, InStep, Stitches
<1>2. PICK F \in [0 .. n -> Good] :
        /\ F[0] = w /\ F[n] = FlushTools(w)
        /\ \A k \in 1 .. n : F[k] = FlushStep(F[k - 1], es[k])
  BY <1>1, FlushSteps DEF Flushes
<1>a. \A k \in 1 .. n : Call(es[k].call) \in Shows /\ Call(es[k].call).kind = "call"
  BY <1>1, StitchIs
<1> HIDE DEF n, es
<1> DEFINE P(k) == /\ Grows(w, F[k])
                   /\ Promise!HasCall(w.c.got) => Promise!HasCall(F[k].c.got)
                   /\ Promise!HasCall(F[k].c.got) => Promise!HasCall(w.c.got) \/ k > 0
                   /\ ~F[k].o.err /\ ~w.o.done /\ k > 0 => Promise!HasCall(F[k].c.got)
           T == {k \in 0 .. n : P(k)}
<1>3. 0 \in T
  <2>1. P(0)
    BY <1>1, <1>2, GrowsItself
  <2> QED BY <1>1, <2>1
<1>4. ASSUME NEW k \in 1 .. n, k - 1 \in T PROVE k \in T
  <2> DEFINE u == F[k - 1]
             v == F[k]
             x == Call(es[k].call)
  <2>1. k - 1 \in 0 .. n /\ k \in 0 .. n /\ x \in Shows /\ x.kind = "call" /\ k > 0
    BY <1>1, <1>a
  <2>2. /\ v = FlushStep(u, es[k]) /\ Grows(w, u)
        /\ Promise!HasCall(w.c.got) => Promise!HasCall(u.c.got)
    BY <1>2, <1>4
  <2>3. CASE u.o.err
    <3>1. v = u
      BY <2>2, <2>3 DEF FlushStep
    <3> QED BY <2>1, <2>2, <2>3, <3>1
  <2>4. CASE ~u.o.err
    <3>1. v = Show(u, x)
      BY <2>2, <2>4 DEF FlushStep
    <3> HIDE DEF u, v, x
    <3>2. /\ Grows(w, v)
          /\ Promise!HasCall(u.c.got) => Promise!HasCall(v.c.got)
          /\ x.kind = "call" /\ ~w.o.done /\ ~v.o.err => Promise!HasCall(v.c.got)
      BY <2>1, <2>2, <3>1, ShowGrows
    <3>3. P(k)
      BY <2>1, <2>2, <3>2 DEF v
    <3> QED BY <2>1, <3>3
  <2> QED BY <2>3, <2>4
<1>5. 0 .. n \subseteq T
  <2> HIDE DEF T
  <2> QED BY <1>1, <1>3, <1>4, UpTo
<1>6. P(n)
  BY <1>1, <1>5
<1>7. es = <<>> => FlushTools(w) = w
  BY <1>1, <1>2
<1>8. es # <<>> <=> n > 0
  BY <1>1
<1> QED BY <1>2, <1>6, <1>7, <1>8 DEF es

-----------------------------------------------------------------------------
(* Content, and the end of the reply *)

\* On a channel whose calls are text: the filter, the writer and the client
\* agree about the calls.
Agree(said, w, f) ==
    /\ InStep(w) /\ f.out = <<>> /\ Sound(f.found, f)
    /\ ~w.o.err => Held(said, f) /\ Waiting(f)
    /\ Promise!CallsLast(w.c.got)
    /\ Promise!HasCall(w.c.got) => f.found
    /\ f.found /\ ~w.o.err /\ ~w.o.done => Promise!HasCall(w.c.got)

LEMMA Emptied ==
    ASSUME NEW h \in BOOLEAN, NEW f, Sound(h, f)
    PROVE  LET x == [f EXCEPT !.out = <<>>]
           IN  /\ x \in Filters /\ x.out = <<>> /\ x.found = f.found /\ Sound(f.found, x)
               /\ \A said : Held(said, f) => Held(said, x)
               /\ Waiting(f) => Waiting(x)
<1> DEFINE x == [f EXCEPT !.out = <<>>]
           none == <<>>
<1>1. f \in Filters /\ f.found \in BOOLEAN
  BY DEF Sound, Filters
<1>2. none \in Seq(Shows) /\ Orderly(f.found, none) /\ ~Promise!HasCall(none)
  BY OrderlyNone
<1>3. x = [f EXCEPT !.out = none]
  OBVIOUS
<1> HIDE DEF none, x
<1>4. /\ x \in Filters /\ x.out = none /\ x.found = f.found /\ x.inPost = f.inPost
      /\ x.inTool = f.inTool /\ x.toolBuf = f.toolBuf /\ x.pending = f.pending
  BY <1>1, <1>2, <1>3 DEF Filters
<1>5. Sound(f.found, x)
  BY <1>2, <1>4 DEF Sound
<1>6. \A said : Held(said, f) => Held(said, x)
  BY <1>4 DEF Held
<1>7. Waiting(f) => Waiting(x)
  BY <1>4 DEF Waiting
<1> QED BY <1>4, <1>5, <1>6, <1>7 DEF x, none

LEMMA FencedContent ==
    ASSUME script.fence, NEW said \in Txt, NEW tokens \in Txt, NEW w, NEW f,
           Agree(said, w, f)
    PROVE  LET d == Content(w, f, tokens)
           IN  Grows(w, d.w) /\ Agree(said \o tokens, d.w, d.f)
<1> DEFINE d == Content(w, f, tokens)
           x == [f EXCEPT !.out = <<>>]
           g == FeedContent(x, tokens)
           v == ShowAll(w, g.out)
           y == [g EXCEPT !.out = <<>>]
           h == f.found
<1>1. /\ InStep(w) /\ Sound(h, f) /\ h \in BOOLEAN
      /\ Promise!CallsLast(w.c.got) /\ (Promise!HasCall(w.c.got) => h)
      /\ h /\ ~w.o.err /\ ~w.o.done => Promise!HasCall(w.c.got)
      /\ ~w.o.err => Held(said, f) /\ Waiting(f)
  BY DEF Agree, Sound, Filters
<1>2. d = CASE tokens = <<>> \/ w.o.err -> [w |-> w, f |-> f]
            [] tokens # <<>> /\ ~w.o.err /\ script.fence -> [w |-> v, f |-> y]
            [] OTHER -> [w |-> ShowAll(w, Texts(tokens)), f |-> f]
  BY DEF Content
<1> HIDE DEF d, g, v, y
<1>3. CASE w.o.err
  <2>1. d.w = w /\ d.f = f
    BY <1>2, <1>3
  <2>2. Agree(said \o tokens, w, f)
    BY <1>3 DEF Agree
  <2> QED BY <1>1, <2>1, <2>2, GrowsItself DEF d
<1>4. CASE tokens = <<>> /\ ~w.o.err
  <2>1. d.w = w /\ d.f = f
    BY <1>2, <1>4
  <2>2. said \o tokens = said
    BY <1>4 DEF Txt
  <2> QED BY <1>1, <2>1, <2>2, GrowsItself DEF d
<1>5. CASE tokens # <<>> /\ ~w.o.err
  <2>1. d.w = v /\ d.f = y
    BY <1>2, <1>5
  <2>2. /\ x \in Filters /\ x.found = h /\ Sound(h, x) /\ Held(said, x) /\ Waiting(x)
    BY <1>1, <1>5, Emptied
  <2> HIDE DEF x
  <2>3. Waits(h, said \o tokens, g)
    <3> HIDE DEF h
    <3> QED BY <1>1, <2>2, FeedIs DEF g
  <2>4. Sound(h, g) /\ Held(said \o tokens, g) /\ Waiting(g)
    BY <2>3 DEF Waits
  <2>5. /\ Orderly(h, g.out) /\ g.out \in Seq(Shows) /\ (g.found <=> h \/ Promise!HasCall(g.out))
        /\ g.found \in BOOLEAN
    BY <2>4 DEF Sound, Filters
  <2>6. /\ Grows(w, v)
        /\ Promise!HasCall(v.c.got) => Promise!HasCall(w.c.got) \/ Promise!HasCall(g.out)
        /\ Promise!HasCall(w.c.got) => Promise!HasCall(v.c.got)
        /\ ~v.o.err /\ ~w.o.done /\ Promise!HasCall(g.out) => Promise!HasCall(v.c.got)
    BY <1>1, <2>5, ShowAllGrows DEF v
  <2>7. Promise!CallsLast(v.c.got)
    <3> HIDE DEF h
    <3> QED BY <1>1, <2>5, CallsStayLast DEF v
  <2>8. /\ y.out = <<>> /\ y.found = g.found /\ Sound(g.found, y)
        /\ Held(said \o tokens, y) /\ Waiting(y)
    BY <1>1, <2>4, Emptied DEF y
  <2>9. v.o.done = w.o.done /\ (w.o.err => v.o.err) /\ InStep(v)
    BY <2>6 DEF Grows, Further
  <2>10. Agree(said \o tokens, v, y)
    <3> HIDE DEF h
    <3>1. y.found => h \/ Promise!HasCall(g.out)
      BY <2>5, <2>8
    <3>2. y.found /\ ~v.o.err /\ ~v.o.done => Promise!HasCall(v.c.got)
      BY <1>1, <2>6, <2>9, <3>1
    <3>3. Promise!HasCall(v.c.got) => y.found
      BY <1>1, <2>5, <2>6, <2>8
    <3>4. Sound(y.found, y)
      BY <2>8
    <3> QED BY <2>7, <2>8, <2>9, <3>2, <3>3, <3>4 DEF Agree
  <2> QED BY <2>1, <2>6, <2>10 DEF d
<1> QED BY <1>3, <1>4, <1>5

LEMMA NativeContent ==
    ASSUME ~script.fence, NEW tokens \in Txt, NEW w, InStep(w), NEW f
    PROVE  LET d == Content(w, f, tokens)
           IN  Grows(w, d.w) /\ d.f = f /\ (Promise!HasCall(d.w.c.got) <=> Promise!HasCall(w.c.got))
<1> DEFINE d == Content(w, f, tokens)
           v == ShowAll(w, Texts(tokens))
<1>1. d = CASE tokens = <<>> \/ w.o.err -> [w |-> w, f |-> f]
            [] OTHER -> [w |-> v, f |-> f]
  BY DEF Content
<1>2. Texts(tokens) \in Seq(Shows) /\ ~Promise!HasCall(Texts(tokens))
  BY TextsIs, OrderlyTexts
<1> HIDE DEF d
<1>3. Grows(w, v) /\ (Promise!HasCall(v.c.got) <=> Promise!HasCall(w.c.got))
  BY <1>2, ShowAllGrows
<1> HIDE DEF v
<1>4. CASE tokens = <<>> \/ w.o.err
  BY <1>1, <1>4, GrowsItself DEF d
<1>5. CASE ~(tokens = <<>> \/ w.o.err)
  BY <1>1, <1>3, <1>5 DEF d
<1> QED BY <1>4, <1>5

-----------------------------------------------------------------------------
(* What one step makes of the writer and its client *)

Advances(u, v) ==
    /\ InStep(v) /\ Longer(u.c.got, v.c.got)
    /\ u.c.phase # "open" =>
          v.c.got = u.c.got /\ v.c.phase = u.c.phase /\ v.c.reason = u.c.reason
    /\ u.c.phase = "open" /\ v.c.phase = "ended" =>
          (v.c.reason = "tool_calls" <=> Promise!HasCall(v.c.got))
    /\ v.c.phase # "ended" => v.c.reason = u.c.reason

LEMMA GrowsAdvances ==
    ASSUME NEW u, NEW v, InStep(u), Grows(u, v)
    PROVE  Advances(u, v) /\ (~u.o.done => v.c.fault = u.c.fault) /\ v.o.done = u.o.done
<1>1. u.c.phase # "open" => u.o.err \/ u.o.done
  BY DEF InStep
<1>2. /\ InStep(v) /\ Longer(u.c.got, v.c.got) /\ v.c.phase = u.c.phase /\ v.c.reason = u.c.reason
      /\ u.o.done => v.c.got = u.c.got
      /\ u.o.err => v.c = u.c
      /\ ~u.o.done => v.c.fault = u.c.fault
      /\ v.o.done = u.o.done
  BY DEF Grows, Further
<1> QED BY <1>1, <1>2 DEF Advances

LEMMA LongerTwice ==
    ASSUME NEW a \in Seq(Shows), NEW b \in Seq(Shows), NEW c \in Seq(Shows), Longer(a, b), Longer(b, c)
    PROVE  Longer(a, c)
<1>1. Len(a) \in Nat /\ Len(b) \in Nat /\ Len(c) \in Nat
  OBVIOUS
<1>2. \A i \in 1 .. Len(a) : i \in 1 .. Len(b)
  BY <1>1 DEF Longer
<1>3. Len(a) <= Len(c)
  BY <1>1 DEF Longer
<1> QED BY <1>2, <1>3 DEF Longer

LEMMA GrowsThenAdvances ==
    ASSUME NEW u, NEW w, NEW v, InStep(u), Grows(u, w), Advances(w, v)
    PROVE  Advances(u, v)
<1>1. u.c.got \in Seq(Shows) /\ w.c.got \in Seq(Shows) /\ v.c.got \in Seq(Shows)
  BY DEF InStep, Advances, Grows, Writers, Readers
<1>2. Longer(u.c.got, v.c.got)
  BY <1>1, LongerTwice DEF Grows, Advances
<1>3. u.c.phase # "open" => u.o.err \/ u.o.done
  BY DEF InStep
<1>4. /\ w.c.phase = u.c.phase /\ w.c.reason = u.c.reason
      /\ u.o.done => w.c.got = u.c.got
      /\ u.o.err => w.c = u.c
  BY DEF Grows, Further
<1> QED BY <1>2, <1>3, <1>4 DEF Advances

LEMMA GrowsTwice ==
    ASSUME NEW u, NEW w, NEW v, InStep(u), Grows(u, w), Grows(w, v)
    PROVE  Grows(u, v)
<1>1. u.c.got \in Seq(Shows) /\ w.c.got \in Seq(Shows) /\ v.c.got \in Seq(Shows)
  BY DEF InStep, Grows, Writers, Readers
<1>2. Longer(u.c.got, v.c.got)
  BY <1>1, LongerTwice DEF Grows
<1> QED BY <1>2 DEF Grows, Further

\* The reason of the end.
FinalReason(f) == f.found \/ up.stitch # <<>>

LEMMA SettleIs ==
    ASSUME NEW w, InStep(w), NEW f, f \in Filters, ~errored => ~w.o.done,
           up.finish \in {"stop", "length"},
           ~w.o.err /\ ~errored =>
             LET g == CloseFilter([f EXCEPT !.out = <<>>])
             IN  /\ g \in Filters
                 /\ FinalReason(g) <=> Promise!HasCall(w.c.got) \/ Promise!HasCall(g.out),
           Settle(w, f)
    PROVE  LET g == CloseFilter([f EXCEPT !.out = <<>>])
           IN  \E v : /\ Put(v) /\ Advances(w, v) /\ v.c.fault = w.c.fault
                      /\ v.c.got = w.c.got \/ (~w.o.err /\ v.c.got = ShowAll(w, g.out).c.got)
                      /\ flt' \in Filters /\ result' \in {"failed", "ok"}
<1> DEFINE g == CloseFilter([f EXCEPT !.out = <<>>])
           v1 == ShowAll(w, g.out)
<1>0. \A x \in Filters : [x EXCEPT !.out = <<>>] \in Filters
  <2> DEFINE none == <<>>
  <2>1. none \in Seq(Shows)
    OBVIOUS
  <2>2. \A x \in Filters : [x EXCEPT !.out = none] \in Filters
    <3> HIDE DEF none
    <3> QED BY <2>1 DEF Filters
  <2> QED BY <2>2
<1>1. CASE w.o.err \/ errored
  <2>1. Returned(w, f, "failed")
    BY <1>1 DEF Settle
  <2>2. Put(w) /\ flt' = [f EXCEPT !.out = <<>>] /\ result' = "failed"
    BY <2>1 DEF Returned
  <2>3. Advances(w, w)
    BY GrowsItself, GrowsAdvances
  <2> QED BY <1>0, <2>2, <2>3
<1>2. CASE ~(w.o.err \/ errored)
  <2>1. Shut(v1, g)
    BY <1>2 DEF Settle, ShutAfter
  <2>2. g \in Filters /\ (FinalReason(g) <=> Promise!HasCall(w.c.got) \/ Promise!HasCall(g.out))
    BY <1>2
  <2> HIDE DEF g, v1
  <2>3. g.out \in Seq(Shows) /\ g.found \in BOOLEAN
    BY <2>2 DEF Filters
  <2>4. /\ Grows(w, v1)
        /\ Promise!HasCall(v1.c.got) => Promise!HasCall(w.c.got) \/ Promise!HasCall(g.out)
        /\ Promise!HasCall(w.c.got) => Promise!HasCall(v1.c.got)
        /\ ~v1.o.err /\ ~w.o.done /\ Promise!HasCall(g.out) => Promise!HasCall(v1.c.got)
    BY <2>3, ShowAllGrows DEF v1
  <2>5. Advances(w, v1) /\ v1.c.fault = w.c.fault /\ v1.o.done = w.o.done /\ ~w.o.done
    BY <1>2, <2>4, GrowsAdvances
  <2>6. CASE v1.o.err
    <3>1. Put(v1) /\ flt' = [g EXCEPT !.out = <<>>] /\ result' = "failed"
      BY <2>1, <2>6 DEF Shut, Returned
    <3> QED BY <1>0, <1>2, <2>2, <2>5, <3>1 DEF g, v1
  <2>7. CASE ~v1.o.err
    <3> DEFINE fin == FinishOf(g)
               v == Finish(v1, fin)
    <3>1. Ended(v, g)
      BY <2>1, <2>7 DEF Shut
    <3>2. Put(v) /\ flt' = [g EXCEPT !.out = <<>>] /\ result' \in {"failed", "ok"}
      BY <3>1 DEF Ended, Returned
    <3>3. fin \in Reason /\ (fin = "tool_calls" <=> FinalReason(g))
      BY DEF FinishOf, Reason, FinalReason
    <3>4. InStep(v1)
      BY <2>4 DEF Grows
    <3> HIDE DEF fin
    <3>5. /\ InStep(v) /\ v.c.got = v1.c.got /\ v.c.fault = v1.c.fault
          /\ v.o.err => v.c = v1.c
          /\ ~v.o.err => v1.c.phase = "open" /\ v.c.phase = "ended" /\ v.c.reason = fin
      BY <2>5, <3>3, <3>4, FinishIs
    <3>6. v1.c.phase = "open" /\ w.c.phase = "open"
      <4>1. v1.c.phase = "open"
        BY <2>5, <2>7, <3>4 DEF InStep
      <4> QED BY <2>4, <4>1 DEF Grows, Further
    <3>7. fin = "tool_calls" <=> Promise!HasCall(v1.c.got)
      BY <2>2, <2>4, <2>5, <2>7, <3>3
    <3> HIDE DEF v
    <3>8. v1.c.reason = w.c.reason /\ Longer(w.c.got, v1.c.got)
      BY <2>4 DEF Grows, Further
    <3>9. Advances(w, v)
      BY <3>5, <3>6, <3>7, <3>8 DEF Advances
    <3> QED BY <1>0, <1>2, <2>2, <2>5, <3>2, <3>5, <3>9 DEF g, v1
  <2> QED BY <2>6, <2>7
<1> QED BY <1>1, <1>2

-----------------------------------------------------------------------------
(* The inductive invariant *)

Ups == [stitch : Stitches, deferred : Txt, finish : {"stop", "length"}, finishSent : BOOLEAN]

StreamTyped ==
    /\ proto \in Protocols /\ script \in Scripts /\ pos \in 0 .. Len(script.items)
    /\ up \in Ups /\ flt \in Filters /\ InStep(Writer)
    /\ errored \in BOOLEAN /\ gone \in BOOLEAN /\ result \in {"running", "failed", "ok"}

Faults == client.fault => proto = "chat" /\ errored
DoneIsError == Running /\ out.done => errored

FenceAgrees ==
    script.fence =>
        /\ up.stitch = <<>> /\ up.deferred = <<>>
        /\ Running => Agree(Said, Writer, flt)

NativeAgrees ==
    ~script.fence /\ Running =>
        /\ flt = Filter0
        /\ Promise!HasCall(client.got) => up.stitch # <<>>
        /\ up.finishSent /\ ~out.err /\ ~out.done /\ up.stitch # <<>> => Promise!HasCall(client.got)

StreamInv == StreamTyped /\ Faults /\ DoneIsError /\ FenceAgrees /\ NativeAgrees

\* The calls are text and none is left open.
Fenced == script.fence /\ ~LeftOpen(Said) /\ NoResult(Said)

Moved == \E v : Put(v) /\ Advances(Writer, v) /\ (Fenced => Promise!CallsLast(v.c.got))

-----------------------------------------------------------------------------

LEMMA ScriptIs ==
    ASSUME StreamTyped
    PROVE  /\ script.items \in Seq(Items) /\ script.fence \in BOOLEAN
           /\ Len(script.items) \in Nat /\ pos \in Nat /\ pos <= Len(script.items)
           /\ Said = SaidBy(script.items, pos) /\ Said \in Txt
           /\ script.fence => \A i \in DOMAIN script.items : script.items[i].kind \in {"text", "think"}
<1>1. script \in Scripts /\ pos \in 0 .. Len(script.items)
  BY DEF StreamTyped
<1>2. script.items \in Seq(Items) /\ script.fence \in BOOLEAN
      /\ (script.fence => \A i \in DOMAIN script.items : script.items[i].kind \in {"text", "think"})
  BY <1>1, ReplyAssumption
<1>3. Len(script.items) \in Nat
  BY <1>2, SeqFacts
<1>4. Said = SaidBy(script.items, pos)
  BY DEF Said, Came, SaidBy, Early
<1>5. Said \in Txt
  BY <1>1, <1>2, <1>4, SaidTyped
<1> QED BY <1>1, <1>2, <1>3, <1>4, <1>5

LEMMA WriterNext ==
    ASSUME NEW v, Put(v), InStep(v), proto' = proto, gone' = gone
    PROVE  Writer' = v /\ InStep(Writer)' /\ out' = v.o /\ client' = v.c
<1>1. v = [o |-> v.o, c |-> v.c]
  BY DEF InStep, Writers
<1>2. Writer' = v
  BY <1>1 DEF Writer, Put
<1> QED BY <1>2 DEF InStep, Put

LEMMA WriterSame ==
    ASSUME UNCHANGED <<out, client>>, StreamInv, Running
    PROVE  Moved /\ Put(Writer)
<1>1. Put(Writer) /\ InStep(Writer)
  BY DEF Put, Writer, StreamInv, StreamTyped
<1>2. Advances(Writer, Writer)
  BY <1>1, GrowsItself, GrowsAdvances
<1>3. Fenced => Promise!CallsLast(Writer.c.got)
  BY DEF StreamInv, FenceAgrees, Agree, Fenced
<1> QED BY <1>1, <1>2, <1>3 DEF Moved

LEMMA InvInit == Init => StreamInv /\ Promise!ContractInit
<1> SUFFICES ASSUME Init PROVE StreamInv /\ Promise!ContractInit
  OBVIOUS
<1>1. proto \in Protocols /\ script \in Scripts /\ pos = 0 /\ result = "running"
      /\ errored = FALSE /\ gone = FALSE /\ flt = Filter0
  BY DEF Init
<1>2. up \in Ups /\ up.stitch = <<>> /\ up.deferred = <<>>
  <2>1. <<>> \in Stitches /\ <<>> \in Txt
    BY DEF Stitches, Txt
  <2> QED BY <2>1 DEF Init, Ups
<1>3. Filter0 \in Filters /\ Filter0.out = <<>> /\ ~Filter0.inTool /\ ~Filter0.inPost /\ ~Filter0.found
      /\ Filter0.pending = <<>>
  <2>1. <<>> \in Txt /\ <<>> \in Seq(Shows)
    BY DEF Txt
  <2> QED BY <2>1 DEF Filter0, Filters
<1>4. /\ out \in Outs /\ ~out.err /\ ~out.done /\ ~out.started /\ out.open = "none"
  BY DEF Init, Outs, Block
<1>5. /\ client \in Readers /\ ~client.begun /\ client.phase = "open" /\ client.block = "none"
      /\ client.got = <<>> /\ ~client.fault /\ client.reason = ""
  <2>1. <<>> \in Seq(Shows)
    OBVIOUS
  <2> QED BY <2>1 DEF Init, Readers, Block, Reason
<1>6. InStep(Writer)
  <2>1. Writer.o = out /\ Writer.c = client
    BY DEF Writer
  <2>2. Writer \in Writers
    BY <1>4, <1>5 DEF Writer, Writers
  <2>3. out.started = client.begun /\ out.open = client.block /\ (out.done <=> client.phase # "open")
    <3>1. out.started = FALSE /\ client.begun = FALSE
      BY DEF Init
    <3> QED BY <1>4, <1>5, <3>1
  <2> HIDE DEF Writer
  <2> QED BY <1>4, <1>5, <2>1, <2>2, <2>3 DEF InStep
<1>7. Len(script.items) \in Nat
  <2>1. script.items \in Seq(Items)
    BY <1>1, ReplyAssumption
  <2> QED BY <2>1, SeqFacts
<1>8. StreamTyped
  <2>1. pos \in 0 .. Len(script.items)
    BY <1>1, <1>7
  <2>2. errored \in BOOLEAN /\ gone \in BOOLEAN /\ result \in {"running", "failed", "ok"}
    BY <1>1
  <2> QED BY <1>1, <1>2, <1>3, <1>6, <2>1, <2>2 DEF StreamTyped
<1>9. ~Promise!HasCall(client.got) /\ Promise!CallsLast(client.got)
  <2>1. ~Promise!HasCall(client.got)
    BY <1>5, OrderlyNone
  <2> QED BY <2>1 DEF Promise!HasCall, Promise!CallsLast
<1>10. Said \in Txt /\ Said = <<>>
  <2>1. Said \in Txt
    BY <1>8, ScriptIs
  <2>2. Came = <<>>
    BY <1>1 DEF Came
  <2>3. Tokens(<<>>) = <<>>
    BY DEF Tokens
  <2> QED BY <2>1, <2>2, <2>3, OfNone DEF Said
<1>11. Held(Said, flt)
  <2>1. From(Said, 1) = <<>> /\ Len(Said) = 0
    BY <1>10 DEF From
  <2>2. 1 \in 1 .. (Len(Said) + 1)
    BY <2>1
  <2> QED BY <1>1, <1>3, <2>1, <2>2 DEF Held
<1>12. Sound(FALSE, flt)
  <2>1. Orderly(FALSE, <<>>) /\ ~Promise!HasCall(<<>>)
    BY OrderlyNone
  <2> QED BY <1>1, <1>3, <2>1 DEF Sound
<1>13. Agree(Said, Writer, flt)
  <2>1. Writer.c = client /\ Writer.o = out
    BY DEF Writer
  <2>2. flt.found = FALSE
    BY <1>1 DEF Filter0
  <2> QED BY <1>1, <1>3, <1>6, <1>9, <1>11, <1>12, <2>1, <2>2 DEF Agree, Waiting
<1>14. FenceAgrees /\ NativeAgrees /\ Faults /\ DoneIsError
  BY <1>1, <1>2, <1>4, <1>5, <1>9, <1>13 DEF FenceAgrees, NativeAgrees, Faults, DoneIsError
<1> QED BY <1>5, <1>8, <1>14 DEF StreamInv, Promise!ContractInit

-----------------------------------------------------------------------------
(* One action at a time *)

\* An action that writes no more than some items, and keeps running.
LEMMA Wrote ==
    ASSUME StreamInv, Running, NEW v, Put(v), Grows(Writer, v),
           Fenced => Promise!CallsLast(v.c.got),
           UNCHANGED <<proto, gone, errored, result>>
    PROVE  Moved /\ Faults' /\ DoneIsError' /\ InStep(Writer)' /\ Writer' = v
<1>1. InStep(Writer) /\ InStep(v)
  BY DEF StreamInv, StreamTyped, Grows
<1>2. Advances(Writer, v) /\ (~out.done => v.c.fault = client.fault) /\ v.o.done = out.done
  <2>1. Writer.c = client /\ Writer.o = out
    BY DEF Writer
  <2> QED BY <1>1, <2>1, GrowsAdvances
<1>3. Moved
  BY <1>2 DEF Moved
<1>4. Writer' = v /\ InStep(Writer)' /\ out' = v.o /\ client' = v.c
  BY <1>1, WriterNext
<1>5. proto # "chat" => ~v.c.fault
  BY <1>1 DEF InStep
<1>6. out.done => errored
  BY DEF StreamInv, DoneIsError
<1>7. ~out.done => (v.c.fault => proto = "chat" /\ errored)
  BY <1>2 DEF StreamInv, Faults
<1>8. Faults'
  BY <1>4, <1>5, <1>6, <1>7 DEF Faults
<1>9. DoneIsError'
  BY <1>2, <1>4, <1>6 DEF DoneIsError, Running
<1> QED BY <1>3, <1>4, <1>8, <1>9

LEMMA TextFrameKeeps ==
    ASSUME StreamInv, NEW n \in 1 .. MaxPiece, TextFrame(n)
    PROVE  StreamInv' /\ Moved
<1> DEFINE piece == [i \in 1 .. n |-> script.items[pos + i].val]
           d == Content(Writer, flt, piece)
<1>1. /\ Running /\ ~up.finishSent /\ pos + n <= Len(script.items)
      /\ \A i \in 1 .. n : script.items[pos + i].kind = "text"
      /\ pos' = pos + n
      /\ UNCHANGED <<proto, script, errored, gone, result>>
      /\ IF up.stitch # <<>>
         THEN up' = [up EXCEPT !.deferred = @ \o piece] /\ UNCHANGED <<flt, out, client>>
         ELSE flt' = d.f /\ Put(d.w) /\ UNCHANGED up
  BY DEF TextFrame
<1>2. /\ script.items \in Seq(Items) /\ script.fence \in BOOLEAN
      /\ Len(script.items) \in Nat /\ pos \in Nat
      /\ Said = SaidBy(script.items, pos) /\ Said \in Txt
  BY ScriptIs DEF StreamInv
<1>3. n \in Nat /\ pos + n \in 0 .. Len(script.items)
  BY <1>1, <1>2, ReplyAssumption
<1>4. piece \in Txt /\ SaidBy(script.items, pos + n) = Said \o piece
  BY <1>1, <1>2, <1>3, SaidMore
<1>5. Said' = Said \o piece
  <2>1. Said' = SaidBy(script.items, pos + n)
    BY <1>1 DEF Said, Came, SaidBy, Early
  <2> QED BY <1>4, <2>1
<1> HIDE DEF piece, d
<1>6. StreamTyped /\ InStep(Writer) /\ up \in Ups /\ Writer.c = client /\ Writer.o = out
  BY DEF StreamInv, StreamTyped, Writer
<1>7. CASE up.stitch # <<>>
  <2>1. ~script.fence
    BY <1>7 DEF StreamInv, FenceAgrees
  <2>2. UNCHANGED <<flt, out, client>> /\ up' = [up EXCEPT !.deferred = @ \o piece]
    BY <1>1, <1>7
  <2>3. Moved /\ Put(Writer)
    BY <1>1, <2>2, WriterSame
  <2>4. up' \in Ups /\ up'.stitch = up.stitch /\ up'.finishSent = up.finishSent
    <3>1. up.deferred \in Txt
      BY <1>6 DEF Ups
    <3> DEFINE b == up.deferred \o piece
    <3>2. b \in Txt
      BY <1>4, <3>1, JoinedIs
    <3>3. up' = [up EXCEPT !.deferred = b]
      BY <2>2
    <3> HIDE DEF b
    <3> QED BY <1>6, <3>2, <3>3 DEF Ups
  <2>5. InStep(Writer)'
    BY <1>1, <1>6, <2>3, WriterNext
  <2>6. StreamTyped'
    BY <1>1, <1>3, <1>6, <2>2, <2>4, <2>5 DEF StreamTyped
  <2>7. Faults' /\ DoneIsError' /\ FenceAgrees' /\ NativeAgrees'
    BY <1>1, <2>1, <2>2, <2>4 DEF StreamInv, Faults, DoneIsError, FenceAgrees, NativeAgrees, Running
  <2> QED BY <2>3, <2>6, <2>7 DEF StreamInv
<1>8. CASE up.stitch = <<>>
  <2>1. flt' = d.f /\ Put(d.w) /\ UNCHANGED up
    BY <1>1, <1>8
  <2>2. CASE script.fence
    <3>1. Agree(Said, Writer, flt)
      BY <1>1, <2>2 DEF StreamInv, FenceAgrees
    <3>2. Grows(Writer, d.w) /\ Agree(Said \o piece, d.w, d.f)
      BY <1>2, <1>4, <2>2, <3>1, FencedContent DEF d
    <3>3. Promise!CallsLast(d.w.c.got) /\ d.f \in Filters
      BY <3>2 DEF Agree, Sound
    <3>4. Moved /\ Faults' /\ DoneIsError' /\ InStep(Writer)' /\ Writer' = d.w
      BY <1>1, <2>1, <3>2, <3>3, Wrote
    <3>5. StreamTyped'
      BY <1>1, <1>3, <1>6, <2>1, <3>3, <3>4 DEF StreamTyped
    <3>6. Agree(Said, Writer, flt)'
      <4>1. InStep(d.w) /\ InStep(Writer)'
        BY <3>2, <3>4 DEF Grows
      <4> QED BY <1>5, <2>1, <3>2, <3>4, <4>1 DEF Agree
    <3>7. FenceAgrees' /\ NativeAgrees'
      BY <1>1, <2>1, <2>2, <3>6 DEF StreamInv, FenceAgrees, NativeAgrees
    <3> QED BY <3>4, <3>5, <3>7 DEF StreamInv
  <2>3. CASE ~script.fence
    <3>1. Grows(Writer, d.w) /\ d.f = flt /\ (Promise!HasCall(d.w.c.got) <=> Promise!HasCall(client.got))
      BY <1>4, <1>6, <2>3, NativeContent DEF d
    <3>2. Moved /\ Faults' /\ DoneIsError' /\ InStep(Writer)' /\ Writer' = d.w
      BY <1>1, <2>1, <2>3, <3>1, Wrote DEF Fenced
    <3>3. StreamTyped'
      BY <1>1, <1>3, <1>6, <2>1, <3>1, <3>2 DEF StreamTyped
    <3>4. client' = d.w.c
      BY <2>1 DEF Put
    <3>5. FenceAgrees' /\ NativeAgrees'
      BY <1>1, <1>8, <2>1, <2>3, <3>1, <3>4 DEF StreamInv, FenceAgrees, NativeAgrees, Running
    <3> QED BY <3>2, <3>3, <3>5 DEF StreamInv
  <2> QED BY <1>2, <2>2, <2>3
<1> QED BY <1>7, <1>8

-----------------------------------------------------------------------------
(* The actions *)

LEMMA NextSaid ==
    ASSUME StreamTyped, pos < Len(script.items), pos' = pos + 1, UNCHANGED script
    PROVE  /\ Item \in Items /\ Item.val \in Val /\ pos + 1 \in 0 .. Len(script.items)
           /\ Item.kind # "text" => Said' = Said
           /\ script.fence => Item.kind \in {"text", "think"}
<1>1. /\ script.items \in Seq(Items) /\ Len(script.items) \in Nat /\ pos \in Nat
      /\ Said = SaidBy(script.items, pos)
      /\ script.fence => \A i \in DOMAIN script.items : script.items[i].kind \in {"text", "think"}
  BY ScriptIs
<1> DEFINE k == pos + 1
<1>2. k \in 1 .. Len(script.items) /\ k - 1 = pos
  BY <1>1
<1> HIDE DEF k
<1>3. /\ script.items[k] \in Items /\ script.items[k].val \in Val
      /\ SaidBy(script.items, k) = IF script.items[k].kind = "text"
                                   THEN Append(SaidBy(script.items, k - 1), script.items[k].val)
                                   ELSE SaidBy(script.items, k - 1)
  BY <1>1, <1>2, SaidByIs
<1>4. Said' = SaidBy(script.items, k)
  BY DEF Said, Came, SaidBy, Early, k
<1>5. Item = script.items[k]
  BY DEF Item, k
<1>6. k \in DOMAIN script.items /\ k \in 0 .. Len(script.items)
  BY <1>1, <1>2
<1> QED BY <1>1, <1>2, <1>3, <1>4, <1>5, <1>6 DEF k

LEMMA ShowOne ==
    ASSUME NEW w, InStep(w), NEW x \in Shows
    PROVE  ShowAll(w, <<x>>) = Show(w, x) /\ <<x>> \in Seq(Shows)
<1> DEFINE es == <<x>>
<1>1. es \in Seq(Shows) /\ Len(es) = 1 /\ es[1] = x
  OBVIOUS
<1>2. w \in Good
  BY DEF Good, InStep
<1> HIDE DEF es
<1>3. PICK F \in [0 .. Len(es) -> Good] :
         /\ F[0] = w /\ F[Len(es)] = ShowAll(w, es)
         /\ \A k \in 1 .. Len(es) : F[k] = Show(F[k - 1], es[k])
  BY <1>1, <1>2, ShowsAll
<1>4. F[1] = Show(F[1 - 1], es[1])
  BY <1>1, <1>3
<1> QED BY <1>1, <1>3, <1>4 DEF es

LEMMA ThinkFrameKeeps ==
    ASSUME StreamInv, ThinkFrame
    PROVE  StreamInv' /\ Moved
<1> DEFINE v == IF out.err THEN Writer ELSE Show(Writer, Item)
<1>1. /\ Running /\ ~up.finishSent /\ pos < Len(script.items) /\ Item.kind = "think"
      /\ pos' = pos + 1 /\ Put(v)
      /\ UNCHANGED <<proto, script, up, flt, errored, gone, result>>
  BY DEF ThinkFrame
<1>2. StreamTyped /\ InStep(Writer) /\ Writer.c = client /\ Writer.o = out
  BY DEF StreamInv, StreamTyped, Writer
<1>3. Item \in Items /\ Item.val \in Val /\ pos + 1 \in 0 .. Len(script.items) /\ Said' = Said
  BY <1>1, <1>2, NextSaid
<1>4. Item \in Shows
  BY <1>1, <1>3 DEF Items, Shows
<1>5. /\ Grows(Writer, v)
      /\ Promise!HasCall(v.c.got) <=> Promise!HasCall(client.got)
  <2>1. Grows(Writer, Writer)
    BY <1>2, GrowsItself
  <2> HIDE DEF Item
  <2>2. /\ Grows(Writer, Show(Writer, Item))
        /\ Promise!HasCall(Show(Writer, Item).c.got) <=> Promise!HasCall(Writer.c.got)
    BY <1>1, <1>2, <1>4, <2>1, ShowGrows
  <2> QED BY <1>2, <2>1, <2>2
<1>6. script.fence => Promise!CallsLast(v.c.got)
  <2> SUFFICES ASSUME script.fence PROVE Promise!CallsLast(v.c.got)
    OBVIOUS
  <2>1. Agree(Said, Writer, flt)
    BY <1>1 DEF StreamInv, FenceAgrees
  <2>2. /\ Promise!CallsLast(Writer.c.got) /\ (Promise!HasCall(Writer.c.got) => flt.found)
        /\ flt.found \in BOOLEAN
    BY <2>1 DEF Agree, Sound, Filters
  <2> HIDE DEF Item
  <2>3. ShowAll(Writer, <<Item>>) = Show(Writer, Item) /\ <<Item>> \in Seq(Shows)
    BY <1>2, <1>4, ShowOne
  <2>4. Orderly(flt.found, <<Item>>)
    BY <1>1 DEF Orderly
  <2>5. Promise!CallsLast(Show(Writer, Item).c.got)
    BY <1>2, <2>2, <2>3, <2>4, CallsStayLast
  <2> QED BY <1>2, <2>2, <2>5
<1> HIDE DEF v
<1>7. Moved /\ Faults' /\ DoneIsError' /\ InStep(Writer)' /\ Writer' = v
  BY <1>1, <1>5, <1>6, Wrote DEF Fenced
<1>8. StreamTyped'
  BY <1>1, <1>2, <1>3, <1>7 DEF StreamTyped
<1>9. client' = v.c /\ out' = v.o
  BY <1>1 DEF Put
<1>10. v.o.done = out.done /\ (out.err => v.o.err)
  BY <1>2, <1>5 DEF Grows, Further
<1>11. FenceAgrees'
  <2> SUFFICES ASSUME script.fence PROVE Agree(Said, Writer, flt)'
    BY <1>1 DEF StreamInv, FenceAgrees
  <2>1. Agree(Said, Writer, flt)
    BY <1>1 DEF StreamInv, FenceAgrees
  <2>2. InStep(v)
    BY <1>5 DEF Grows
  <2>3. Agree(Said, v, flt)
    BY <1>2, <1>5, <1>6, <1>10, <2>1, <2>2 DEF Agree
  <2> QED BY <1>1, <1>3, <1>7, <2>3 DEF Agree
<1>12. NativeAgrees'
  BY <1>1, <1>5, <1>9 DEF StreamInv, NativeAgrees, Running
<1> QED BY <1>7, <1>8, <1>11, <1>12 DEF StreamInv

LEMMA QuietKeeps ==
    ASSUME StreamInv, Running, UNCHANGED <<proto, script, flt, out, client, errored, result>>,
           gone' \in BOOLEAN, gone => gone',
           pos' \in 0 .. Len(script.items), up' \in Ups,
           script.fence => up'.stitch = up.stitch /\ up'.deferred = up.deferred /\ Said' = Said,
           up'.finishSent = up.finishSent, up.stitch = <<>> <=> up'.stitch = <<>>
    PROVE  StreamInv' /\ Moved
<1>1. Moved
  BY WriterSame
<1>2. InStep(Writer)' /\ Writer' = Writer
  BY DEF StreamInv, StreamTyped, InStep, Writer
<1>3. StreamTyped'
  BY <1>2 DEF StreamInv, StreamTyped
<1>4. Faults' /\ DoneIsError' /\ NativeAgrees'
  BY DEF StreamInv, Faults, DoneIsError, NativeAgrees, Running
<1>5. FenceAgrees'
  <2> SUFFICES ASSUME script.fence PROVE up'.stitch = <<>> /\ up'.deferred = <<>> /\ Agree(Said, Writer, flt)'
    BY DEF StreamInv, FenceAgrees
  <2>1. Agree(Said, Writer, flt)
    BY DEF StreamInv, FenceAgrees
  <2> QED BY <1>2, <2>1 DEF Agree, StreamInv, FenceAgrees
<1> QED BY <1>1, <1>3, <1>4, <1>5 DEF StreamInv

LEMMA CallFrameKeeps ==
    ASSUME StreamInv, CallFrame
    PROVE  StreamInv' /\ Moved
<1>1. /\ Running /\ pos < Len(script.items) /\ Item.kind \in {"head", "args"} /\ pos' = pos + 1
      /\ UNCHANGED <<proto, script, flt, out, client, errored, gone, result>>
      /\ up' = [up EXCEPT !.stitch =
                  IF Item.kind = "head"
                  THEN Append(@, [call |-> Item.val, whole |-> FALSE])
                  ELSE [i \in DOMAIN @ |-> IF @[i].call = Item.val
                                           THEN [@[i] EXCEPT !.whole = TRUE] ELSE @[i]]]
  BY DEF CallFrame
<1>2. StreamTyped /\ up \in Ups /\ gone \in BOOLEAN
  BY DEF StreamInv, StreamTyped
<1>3. Item \in Items /\ pos + 1 \in 0 .. Len(script.items) /\ ~script.fence
  BY <1>1, <1>2, NextSaid
<1> DEFINE X == [call : STRING, whole : BOOLEAN]
           s == up.stitch
           a == Append(s, [call |-> Item.val, whole |-> FALSE])
           b == [i \in DOMAIN s |-> IF s[i].call = Item.val
                                    THEN [s[i] EXCEPT !.whole = TRUE] ELSE s[i]]
           t == IF Item.kind = "head" THEN a ELSE b
<1>4. s \in Seq(X)
  BY <1>2 DEF Ups, Stitches
<1>5. Item.val \in STRING
  BY <1>3 DEF Items
<1> HIDE DEF Item
<1>6. a \in Seq(X) /\ a # <<>>
  <2>1. [call |-> Item.val, whole |-> FALSE] \in X
    BY <1>5
  <2> HIDE DEF X
  <2> QED BY <1>4, <2>1
<1>7. b \in Seq(X) /\ (b = <<>> <=> s = <<>>)
  <2>1. \A x \in X : [x EXCEPT !.whole = TRUE] \in X
    OBVIOUS
  <2> HIDE DEF X, s
  <2>2. \A i \in DOMAIN s : s[i] \in X
    BY <1>4
  <2>3. \A i \in DOMAIN s :
          (IF s[i].call = Item.val THEN [s[i] EXCEPT !.whole = TRUE] ELSE s[i]) \in X
    BY <2>1, <2>2
  <2>4. Len(s) \in Nat /\ DOMAIN s = 1 .. Len(s)
    BY <1>4
  <2>5. b \in [1 .. Len(s) -> X]
    BY <2>3, <2>4
  <2>6. b \in Seq(X)
    BY <2>4, <2>5
  <2>7. DOMAIN b = DOMAIN s
    OBVIOUS
  <2> HIDE DEF b
  <2>8. \A y \in Seq(X) : y = <<>> <=> DOMAIN y = {}
    OBVIOUS
  <2> QED BY <1>4, <2>6, <2>7, <2>8
<1>8. up' = [up EXCEPT !.stitch = t]
  BY <1>1
<1>9. t \in Stitches /\ (s = <<>> => (t = <<>> \/ Item.kind = "head")) /\ (s # <<>> => t # <<>>)
  <2> HIDE DEF a, b, X
  <2> QED BY <1>6, <1>7 DEF Stitches, X
<1> HIDE DEF t, a, b, X
<1>10. up' \in Ups /\ up'.finishSent = up.finishSent /\ up'.stitch = t
  BY <1>2, <1>8, <1>9 DEF Ups
<1>11. Moved
  BY <1>1, WriterSame
<1>12. InStep(Writer)'
  BY <1>1 DEF StreamInv, StreamTyped, InStep, Writer
<1>13. StreamTyped'
  BY <1>1, <1>2, <1>3, <1>10, <1>12 DEF StreamTyped
<1>14. Faults' /\ DoneIsError' /\ FenceAgrees'
  BY <1>1, <1>3 DEF StreamInv, Faults, DoneIsError, FenceAgrees, Running
<1>15. NativeAgrees'
  BY <1>1, <1>9, <1>10 DEF StreamInv, NativeAgrees, Running, CallFrame
<1> QED BY <1>11, <1>13, <1>14, <1>15 DEF StreamInv

-----------------------------------------------------------------------------
(* The end, and the theorems *)

LEMMA FinishReasonKeeps ==
    ASSUME StreamInv, FinishReason
    PROVE  StreamInv' /\ Moved
<1>1. /\ Running /\ up' = [up EXCEPT !.finish = "length"]
      /\ UNCHANGED <<proto, script, pos, flt, out, client, errored, gone, result>>
  BY DEF FinishReason
<1>2. up \in Ups /\ gone \in BOOLEAN /\ pos \in 0 .. Len(script.items)
  BY DEF StreamInv, StreamTyped
<1>3. /\ up' \in Ups /\ up'.stitch = up.stitch /\ up'.deferred = up.deferred
      /\ up'.finishSent = up.finishSent
  BY <1>1, <1>2 DEF Ups
<1>4. Said' = Said
  BY <1>1 DEF Said, Came
<1> QED BY <1>1, <1>2, <1>3, <1>4, QuietKeeps

LEMMA LeaveKeeps ==
    ASSUME StreamInv, Leave
    PROVE  StreamInv' /\ Moved
<1>1. /\ Running /\ gone' = TRUE
      /\ UNCHANGED <<proto, script, pos, up, flt, out, client, errored, result>>
  BY DEF Leave
<1>2. up \in Ups /\ gone \in BOOLEAN /\ pos \in 0 .. Len(script.items)
  BY DEF StreamInv, StreamTyped
<1>3. Said' = Said
  BY <1>1 DEF Said, Came
<1> QED BY <1>1, <1>2, <1>3, QuietKeeps

LEMMA CutKeeps ==
    ASSUME StreamInv, Cut
    PROVE  StreamInv' /\ Moved
<1>1. /\ Running /\ result' = "failed"
      /\ UNCHANGED <<proto, script, pos, up, flt, out, client, errored, gone>>
  BY DEF Cut
<1>2. Moved
  BY <1>1, WriterSame
<1>3. InStep(Writer)'
  BY <1>1 DEF StreamInv, StreamTyped, InStep, Writer
<1>4. StreamTyped'
  BY <1>1, <1>3 DEF StreamInv, StreamTyped
<1> QED BY <1>1, <1>2, <1>4
        DEF StreamInv, Faults, DoneIsError, FenceAgrees, NativeAgrees, Running

LEMMA ErrorFrameKeeps ==
    ASSUME StreamInv, ErrorFrame
    PROVE  StreamInv' /\ Moved
<1> DEFINE v == IF out.err THEN Writer ELSE ShowError(Writer)
<1>1. /\ Running /\ ~errored /\ errored' = TRUE
      /\ Put(v)
      /\ result' = IF gone THEN "failed" ELSE result
      /\ UNCHANGED <<proto, script, pos, up, flt, gone>>
  BY DEF ErrorFrame, Put, Writer
<1>2. StreamTyped /\ InStep(Writer) /\ Writer.c = client /\ Writer.o = out
  BY DEF StreamInv, StreamTyped, Writer
<1>3. /\ InStep(v) /\ v.c.got = client.got /\ v.c.reason = client.reason
      /\ v.c.phase = client.phase \/ (client.phase = "open" /\ v.c.phase = "failed")
      /\ v.o.err \/ v.o.done
      /\ out.err => v.o.err
  <2>1. CASE out.err
    BY <1>2, <2>1
  <2>2. CASE ~out.err
    <3>1. v = ShowError(Writer)
      BY <2>2
    <3> HIDE DEF v
    <3> QED BY <1>2, <2>2, <3>1, ShowErrorIs
  <2> QED BY <2>1, <2>2
<1> HIDE DEF v
<1>4. Advances(Writer, v)
  <2>1. Longer(client.got, client.got)
    BY DEF Longer
  <2>2. client.phase = "ended" => v.c.phase = "ended"
    BY <1>3
  <2> QED BY <1>2, <1>3, <2>1, <2>2 DEF Advances
<1>5. Writer' = v /\ InStep(Writer)' /\ out' = v.o /\ client' = v.c
  BY <1>1, <1>3, WriterNext
<1>6. script.fence => Promise!CallsLast(v.c.got)
  BY <1>1, <1>2, <1>3 DEF StreamInv, FenceAgrees, Agree
<1>7. Moved
  BY <1>1, <1>4, <1>6 DEF Moved, Fenced
<1>8. StreamTyped'
  BY <1>1, <1>2, <1>5 DEF StreamTyped
<1>9. Faults' /\ DoneIsError'
  <2>1. proto # "chat" => ~v.c.fault
    BY <1>3 DEF InStep
  <2> QED BY <1>1, <1>5, <2>1 DEF Faults, DoneIsError
<1>10. FenceAgrees'
  <2> SUFFICES ASSUME script.fence PROVE Agree(Said, Writer, flt)'
    BY <1>1 DEF StreamInv, FenceAgrees
  <2>1. Agree(Said, Writer, flt)
    BY <1>1 DEF StreamInv, FenceAgrees
  <2>2. Agree(Said, v, flt)
    BY <1>2, <1>3, <2>1 DEF Agree
  <2>3. Said' = Said
    BY <1>1 DEF Said, Came
  <2> QED BY <1>1, <1>5, <2>2, <2>3 DEF Agree
<1>11. NativeAgrees'
  BY <1>1, <1>3, <1>5 DEF StreamInv, NativeAgrees, Running
<1> QED BY <1>7, <1>8, <1>9, <1>10, <1>11 DEF StreamInv

\* The calls, then the text that waited for them.
LEMMA FlushedIs ==
    ASSUME StreamInv, Running
    PROVE  LET d == Content(FlushTools(Writer), flt, up.deferred)
           IN  /\ Grows(Writer, d.w)
               /\ script.fence => Agree(Said, d.w, d.f)
               /\ ~script.fence => d.f = Filter0
               /\ ~script.fence =>
                     /\ Promise!HasCall(d.w.c.got) => up.stitch # <<>>
                     /\ ~d.w.o.err /\ ~d.w.o.done /\ up.stitch # <<>> => Promise!HasCall(d.w.c.got)
<1> DEFINE w == FlushTools(Writer)
           d == Content(w, flt, up.deferred)
<1>1. StreamTyped /\ InStep(Writer) /\ up.stitch \in Stitches /\ up.deferred \in Txt
      /\ Writer.c = client /\ Writer.o = out
  BY DEF StreamInv, StreamTyped, Ups, Writer
<1>2. /\ Grows(Writer, w)
      /\ up.stitch = <<>> => w = Writer
      /\ Promise!HasCall(w.c.got) => Promise!HasCall(client.got) \/ up.stitch # <<>>
      /\ ~w.o.err /\ ~out.done /\ up.stitch # <<>> => Promise!HasCall(w.c.got)
  BY <1>1, FlushIs
<1> HIDE DEF w
<1>3. InStep(w)
  BY <1>2 DEF Grows
<1>4. CASE script.fence
  <2>1. w = Writer /\ up.deferred = <<>> /\ Agree(Said, Writer, flt)
    BY <1>2, <1>4 DEF StreamInv, FenceAgrees
  <2>2. Said \in Txt /\ Said \o <<>> = Said
    <3>1. Said \in Txt
      BY <1>1, ScriptIs
    <3> QED BY <3>1 DEF Txt
  <2>3. Grows(w, d.w) /\ Agree(Said \o up.deferred, d.w, d.f)
    BY <1>1, <1>4, <2>1, <2>2, FencedContent
  <2> HIDE DEF d
  <2> QED BY <1>4, <2>1, <2>2, <2>3 DEF d, w
<1>5. CASE ~script.fence
  <2>1. Grows(w, d.w) /\ d.f = flt /\ (Promise!HasCall(d.w.c.got) <=> Promise!HasCall(w.c.got))
    BY <1>1, <1>3, <1>5, NativeContent
  <2> HIDE DEF d
  <2>2. Grows(Writer, d.w)
    BY <1>1, <1>2, <2>1, GrowsTwice
  <2>3. flt = Filter0 /\ (Promise!HasCall(client.got) => up.stitch # <<>>)
    BY <1>5 DEF StreamInv, NativeAgrees
  <2>4. d.w.o.done = w.o.done /\ w.o.done = out.done /\ (w.o.err => d.w.o.err)
    BY <1>1, <1>2, <2>1 DEF Grows, Further
  <2> QED BY <1>2, <1>5, <2>1, <2>2, <2>3, <2>4 DEF d, w
<1> QED BY <1>1, <1>4, <1>5, ScriptIs

LEMMA DoneEventKeeps ==
    ASSUME StreamInv, DoneEvent
    PROVE  StreamInv' /\ Moved
<1> DEFINE d == Content(FlushTools(Writer), flt, up.deferred)
<1>1. /\ Running /\ flt' = d.f /\ Put(d.w)
      /\ up' = [up EXCEPT !.finishSent = TRUE, !.finish = "stop", !.deferred = <<>>]
      /\ UNCHANGED <<proto, script, pos, errored, gone, result>>
  BY DEF DoneEvent
<1>2. /\ Grows(Writer, d.w)
      /\ script.fence => Agree(Said, d.w, d.f)
      /\ ~script.fence => d.f = Filter0
      /\ ~script.fence =>
            /\ Promise!HasCall(d.w.c.got) => up.stitch # <<>>
            /\ ~d.w.o.err /\ ~d.w.o.done /\ up.stitch # <<>> => Promise!HasCall(d.w.c.got)
  BY <1>1, FlushedIs
<1> HIDE DEF d
<1>3. /\ up' \in Ups /\ up'.stitch = up.stitch /\ up'.deferred = <<>> /\ up'.finishSent
  <2> DEFINE none == <<>>
  <2>1. none \in Txt
    BY DEF Txt
  <2>2. up \in Ups
    BY DEF StreamInv, StreamTyped
  <2>3. up' = [up EXCEPT !.finishSent = TRUE, !.finish = "stop", !.deferred = none]
    BY <1>1
  <2> HIDE DEF none
  <2>4. /\ up' \in Ups /\ up'.stitch = up.stitch /\ up'.deferred = none /\ up'.finishSent
    BY <2>1, <2>2, <2>3 DEF Ups
  <2> QED BY <2>4 DEF none
<1>4. script.fence => Promise!CallsLast(d.w.c.got)
  BY <1>2 DEF Agree
<1>5. Moved /\ Faults' /\ DoneIsError' /\ InStep(Writer)' /\ Writer' = d.w
  BY <1>1, <1>2, <1>4, Wrote DEF Fenced
<1>6. flt' \in Filters
  <2>1. StreamTyped /\ script.fence \in BOOLEAN
    BY ScriptIs DEF StreamInv
  <2>2. script.fence => d.f \in Filters
    BY <1>2 DEF Agree, Sound
  <2>3. ~script.fence => d.f \in Filters
    <3>1. ~script.fence => flt = Filter0 /\ flt \in Filters
      BY <1>1 DEF StreamInv, NativeAgrees, StreamTyped
    <3> QED BY <1>2, <3>1
  <2> QED BY <1>1, <2>1, <2>2, <2>3
<1>7. StreamTyped'
  BY <1>1, <1>3, <1>5, <1>6 DEF StreamInv, StreamTyped
<1>8. FenceAgrees'
  <2> SUFFICES ASSUME script.fence PROVE up.stitch = <<>> /\ Agree(Said, Writer, flt)'
    BY <1>1, <1>3 DEF FenceAgrees
  <2>1. Agree(Said, d.w, d.f) /\ Said' = Said
    BY <1>1, <1>2 DEF Said, Came
  <2> QED BY <1>1, <1>5, <2>1 DEF Agree, StreamInv, FenceAgrees
<1>9. NativeAgrees'
  <2>1. client' = d.w.c /\ out' = d.w.o
    BY <1>1 DEF Put
  <2> QED BY <1>1, <1>2, <1>3, <2>1 DEF NativeAgrees
<1> QED BY <1>5, <1>7, <1>8, <1>9 DEF StreamInv

\* The rest of a reply whose calls are native: the filter holds nothing.
LEMMA NothingToClose ==
    LET g == CloseFilter([Filter0 EXCEPT !.out = <<>>])
    IN  g \in Filters /\ g.out = <<>> /\ ~g.found
<1> DEFINE none == <<>>
           f == [Filter0 EXCEPT !.out = <<>>]
           g == CloseFilter(f)
<1>1. none \in Txt /\ none \in Seq(Shows)
  BY DEF Txt
<1>2. f = Filter0
  BY DEF Filter0
<1>3. Filter0 \in Filters /\ ~Filter0.inTool /\ ~Filter0.inPost /\ ~Filter0.found
      /\ Filter0.toolBuf = <<>> /\ Filter0.pending = <<>> /\ Filter0.out = <<>>
  BY <1>1 DEF Filter0, Filters
<1>4. LastText(Filter0) = <<>>
  <2>1. Texts(<<>>) = <<>>
    BY DEF Texts
  <2> QED BY <1>3, <2>1 DEF LastText
<1>5. g = [Emit(Filter0, <<>>) EXCEPT !.toolBuf = <<>>]
  BY <1>2, <1>3, <1>4 DEF CloseFilter, ShowRest
<1>6. Emit(Filter0, <<>>) = [Filter0 EXCEPT !.out = none]
  BY <1>3 DEF Emit
<1>7. g = [[Filter0 EXCEPT !.out = none] EXCEPT !.toolBuf = none]
  BY <1>5, <1>6
<1> HIDE DEF none, g, f
<1>8. g \in Filters /\ g.out = none /\ g.found = Filter0.found
  BY <1>1, <1>3, <1>7 DEF Filters
<1> QED BY <1>3, <1>8 DEF g, f, none

\* The end, from the writer and the filter as they are before it.
LEMMA SettleMoves ==
    ASSUME StreamInv, Running, NEW w, NEW f, Grows(Writer, w), Settle(w, f),
           script.fence => Agree(Said, w, f),
           ~script.fence => f = Filter0,
           ~script.fence /\ ~w.o.err /\ ~w.o.done => (Promise!HasCall(w.c.got) <=> up.stitch # <<>>)
    PROVE  \E v : /\ Put(v) /\ Advances(Writer, v) /\ v.c.fault = w.c.fault
                  /\ Fenced => Promise!CallsLast(v.c.got)
                  /\ flt' \in Filters /\ result' \in {"failed", "ok"}
<1> DEFINE x == [f EXCEPT !.out = <<>>]
           g == CloseFilter(x)
           h == f.found
<1>1. /\ StreamTyped /\ script.fence \in BOOLEAN /\ InStep(Writer) /\ InStep(w)
      /\ Writer.o = out /\ up.finish \in {"stop", "length"} /\ Said \in Txt
  BY ScriptIs DEF StreamInv, StreamTyped, Grows, Ups, Writer
<1>2. ~errored => ~w.o.done
  <2>1. w.o.done = out.done
    BY <1>1 DEF Grows, Further
  <2> QED BY <2>1 DEF StreamInv, DoneIsError
<1>3. script.fence =>
        /\ f \in Filters /\ h \in BOOLEAN
        /\ Promise!CallsLast(w.c.got) /\ (Promise!HasCall(w.c.got) => h)
        /\ h /\ ~w.o.err /\ ~w.o.done => Promise!HasCall(w.c.got)
        /\ up.stitch = <<>>
  BY DEF Agree, Sound, Filters, StreamInv, FenceAgrees
<1>4. script.fence /\ ~w.o.err =>
        /\ g \in Filters
        /\ g.found <=> h \/ Promise!HasCall(g.out)
        /\ NoResult(Said) /\ ~LeftOpen(Said) => Orderly(h, g.out)
  <2> SUFFICES ASSUME script.fence, ~w.o.err
               PROVE  /\ g \in Filters
                      /\ g.found <=> h \/ Promise!HasCall(g.out)
                      /\ NoResult(Said) /\ ~LeftOpen(Said) => Orderly(h, g.out)
    OBVIOUS
  <2>1. Sound(h, f) /\ Held(Said, f) /\ Waiting(f)
    BY DEF Agree
  <2>2. Sound(h, x) /\ Held(Said, x) /\ Waiting(x)
    <3> HIDE DEF h
    <3> QED BY <1>3, <2>1, Emptied DEF h
  <2> HIDE DEF x, h
  <2> QED BY <1>1, <1>3, <2>2, CloseIs
<1>5. ~script.fence => g \in Filters /\ g.out = <<>> /\ ~g.found /\ f \in Filters
  <2>1. ~script.fence => g = CloseFilter([Filter0 EXCEPT !.out = <<>>])
    OBVIOUS
  <2>2. ~script.fence => flt = Filter0 /\ flt \in Filters
    BY <1>1 DEF StreamInv, NativeAgrees, StreamTyped
  <2> HIDE DEF g
  <2> QED BY <2>1, <2>2, NothingToClose
<1> HIDE DEF g
<1>6. ~w.o.err /\ ~errored =>
        g \in Filters /\ (FinalReason(g) <=> Promise!HasCall(w.c.got) \/ Promise!HasCall(g.out))
  <2> SUFFICES ASSUME ~w.o.err, ~errored
               PROVE  g \in Filters /\ (FinalReason(g) <=> Promise!HasCall(w.c.got) \/ Promise!HasCall(g.out))
    OBVIOUS
  <2>1. ~Promise!HasCall(<<>>)
    BY OrderlyNone
  <2>2. CASE script.fence
    BY <1>2, <1>3, <1>4, <2>2 DEF FinalReason
  <2>3. CASE ~script.fence
    <3>1. g.out = <<>> /\ ~g.found /\ (Promise!HasCall(w.c.got) <=> up.stitch # <<>>)
      BY <1>2, <1>5, <2>3
    <3> QED BY <1>5, <2>1, <2>3, <3>1 DEF FinalReason
  <2> QED BY <1>1, <2>2, <2>3
<1>7. PICK v : /\ Put(v) /\ Advances(w, v) /\ v.c.fault = w.c.fault
               /\ v.c.got = w.c.got \/ (~w.o.err /\ v.c.got = ShowAll(w, g.out).c.got)
               /\ flt' \in Filters /\ result' \in {"failed", "ok"}
  <2>1. f \in Filters
    BY <1>1, <1>3, <1>5
  <2> QED BY <1>1, <1>2, <1>6, <2>1, SettleIs DEF g
<1>8. Advances(Writer, v)
  BY <1>1, <1>7, GrowsThenAdvances
<1>9. Fenced => Promise!CallsLast(v.c.got)
  <2> SUFFICES ASSUME Fenced PROVE Promise!CallsLast(v.c.got)
    OBVIOUS
  <2>1. CASE v.c.got = w.c.got
    BY <1>3, <2>1 DEF Fenced
  <2>2. CASE ~w.o.err /\ v.c.got = ShowAll(w, g.out).c.got
    <3>1. Orderly(h, g.out) /\ g.out \in Seq(Shows)
      BY <1>4, <2>2 DEF Fenced, Filters
    <3> HIDE DEF h
    <3>2. Promise!CallsLast(ShowAll(w, g.out).c.got)
      BY <1>1, <1>3, <3>1, CallsStayLast DEF Fenced
    <3> QED BY <2>2, <3>2
  <2> QED BY <1>7, <2>1, <2>2
<1> QED BY <1>7, <1>8, <1>9

LEMMA EofKeeps ==
    ASSUME StreamInv, Eof
    PROVE  StreamInv' /\ Moved
<1> DEFINE d == Content(FlushTools(Writer), flt, up.deferred)
<1>1. /\ Running
      /\ IF up.finishSent \/ out.err THEN Settle(Writer, flt) ELSE Settle(d.w, d.f)
      /\ UNCHANGED <<proto, script, pos, up, errored, gone>>
  BY DEF Eof
<1>2. /\ Grows(Writer, d.w)
      /\ script.fence => Agree(Said, d.w, d.f)
      /\ ~script.fence => d.f = Filter0
      /\ ~script.fence =>
            /\ Promise!HasCall(d.w.c.got) => up.stitch # <<>>
            /\ ~d.w.o.err /\ ~d.w.o.done /\ up.stitch # <<>> => Promise!HasCall(d.w.c.got)
  BY <1>1, FlushedIs
<1> HIDE DEF d
<1>3. Writer.o = out /\ Writer.c = client /\ InStep(Writer)
  BY DEF Writer, StreamInv, StreamTyped
<1>4. PICK w : /\ Grows(Writer, w)
               /\ \E v : /\ Put(v) /\ Advances(Writer, v) /\ v.c.fault = w.c.fault
                         /\ Fenced => Promise!CallsLast(v.c.got)
                         /\ flt' \in Filters /\ result' \in {"failed", "ok"}
  <2>1. CASE up.finishSent \/ out.err
    <3>1. Settle(Writer, flt) /\ Grows(Writer, Writer)
      BY <1>1, <1>3, <2>1, GrowsItself
    <3>2. script.fence => Agree(Said, Writer, flt)
      BY <1>1 DEF StreamInv, FenceAgrees
    <3>3. /\ ~script.fence => flt = Filter0
          /\ ~script.fence /\ ~out.err /\ ~out.done =>
                (Promise!HasCall(client.got) <=> up.stitch # <<>>)
      BY <1>1, <2>1 DEF StreamInv, NativeAgrees
    <3> QED BY <1>1, <1>3, <3>1, <3>2, <3>3, SettleMoves
  <2>2. CASE ~(up.finishSent \/ out.err)
    <3>1. Settle(d.w, d.f)
      BY <1>1, <2>2
    <3> QED BY <1>1, <1>2, <3>1, SettleMoves
  <2> QED BY <2>1, <2>2
<1>5. PICK v : /\ Put(v) /\ Advances(Writer, v) /\ v.c.fault = w.c.fault
               /\ Fenced => Promise!CallsLast(v.c.got)
               /\ flt' \in Filters /\ result' \in {"failed", "ok"}
  BY <1>4
<1>6. Moved
  BY <1>5 DEF Moved
<1>7. InStep(v)
  BY <1>5 DEF Advances
<1>8. Writer' = v /\ InStep(Writer)' /\ client' = v.c
  BY <1>1, <1>5, <1>7, WriterNext
<1>9. StreamTyped'
  BY <1>1, <1>5, <1>8 DEF StreamInv, StreamTyped
<1>10. ~Running'
  BY <1>5 DEF Running
<1>11. Faults'
  <2>1. ~out.done => w.c.fault = client.fault
    BY <1>3, <1>4 DEF Grows, Further
  <2>2. out.done => errored
    BY <1>1 DEF StreamInv, DoneIsError
  <2>3. proto # "chat" => ~v.c.fault
    BY <1>7 DEF InStep
  <2> QED BY <1>1, <1>5, <1>8, <2>1, <2>2, <2>3 DEF StreamInv, Faults
<1>12. DoneIsError' /\ FenceAgrees' /\ NativeAgrees'
  BY <1>1, <1>10 DEF StreamInv, DoneIsError, FenceAgrees, NativeAgrees
<1> QED BY <1>6, <1>9, <1>11, <1>12 DEF StreamInv

-----------------------------------------------------------------------------

LEMMA StepKeeps ==
    ASSUME StreamInv, Next
    PROVE  StreamInv' /\ Moved
<1>1. ASSUME NEW n \in 1 .. MaxPiece, TextFrame(n) PROVE StreamInv' /\ Moved
  BY <1>1, TextFrameKeeps
<1> QED BY <1>1, ThinkFrameKeeps, CallFrameKeeps, FinishReasonKeeps, DoneEventKeeps,
           ErrorFrameKeeps, EofKeeps, CutKeeps, LeaveKeeps DEF Next

LEMMA UnchangedKeeps == StreamInv /\ UNCHANGED vars => StreamInv'
<1> SUFFICES ASSUME StreamInv, UNCHANGED vars PROVE StreamInv'
  OBVIOUS
<1>1. UNCHANGED <<proto, script, pos, up, flt, out, client, errored, gone, result>>
  BY DEF vars
<1>2. InStep(Writer)' /\ Writer' = Writer
  BY <1>1 DEF StreamInv, StreamTyped, InStep, Writer
<1>3. StreamTyped' /\ Faults' /\ DoneIsError' /\ NativeAgrees'
  BY <1>1, <1>2 DEF StreamInv, StreamTyped, Faults, DoneIsError, NativeAgrees, Running
<1>4. FenceAgrees'
  <2> SUFFICES ASSUME script.fence, Running
               PROVE  up.stitch = <<>> /\ up.deferred = <<>> /\ Agree(Said, Writer, flt)'
    BY <1>1 DEF StreamInv, FenceAgrees, Running
  <2>1. Agree(Said, Writer, flt) /\ Said' = Said
    BY <1>1 DEF StreamInv, FenceAgrees, Said, Came
  <2> QED BY <1>1, <1>2, <2>1 DEF Agree, StreamInv, FenceAgrees
<1> QED BY <1>3, <1>4 DEF StreamInv

LEMMA InvStays == Spec => []StreamInv
<1>1. StreamInv /\ [Next]_vars => StreamInv'
  BY UnchangedKeeps, StepKeeps
<1>2. Init => StreamInv
  BY InvInit
<1> QED BY <1>1, <1>2, PTL DEF Spec

THEOREM StreamIsWellFormed == Spec => []StreamWellFormed
<1>1. StreamInv => StreamWellFormed
  BY DEF StreamInv, Faults, StreamWellFormed
<1> QED BY <1>1, InvStays, PTL

LEMMA MovedGrows ==
    ASSUME StreamInv, Moved
    PROVE  [Promise!Grow]_<<client.got, client.phase, client.reason>>
<1>1. PICK v : Put(v) /\ Advances(Writer, v) /\ (Fenced => Promise!CallsLast(v.c.got))
  BY DEF Moved
<1>2. client' = v.c /\ Writer.c = client /\ InStep(Writer) /\ InStep(v)
  BY <1>1 DEF Put, Writer, StreamInv, StreamTyped, Advances
<1>3. CASE client.phase # "open"
  BY <1>1, <1>2, <1>3 DEF Advances
<1>4. CASE client.phase = "open"
  <2>1. client.got \in Seq(Shows) /\ v.c.got \in Seq(Shows) /\ v.c.phase \in {"open", "ended", "failed"}
    BY <1>2 DEF InStep, Writers, Readers
  <2>2. IsPrefix(client.got, client'.got)
    <3>1. Longer(client.got, v.c.got)
      BY <1>1, <1>2 DEF Advances
    <3> QED BY <1>2, <2>1, <3>1, LongerIs
  <2>3. /\ client'.phase = "ended" => (client'.reason = "tool_calls" <=> Promise!HasCall(client'.got))
        /\ client'.phase # "ended" => client'.reason = client.reason
    BY <1>1, <1>2, <1>4 DEF Advances
  <2>4. script.fence /\ ~LeftOpen(Said) /\ "result" \notin Range(Said) => Promise!CallsLast(client'.got)
    <3>1. Said \in Txt
      BY ScriptIs DEF StreamInv
    <3>2. "result" \notin Range(Said) => NoResult(Said)
      BY <3>1 DEF Txt, NoResult, Range
    <3> QED BY <1>1, <1>2, <3>2 DEF Fenced
  <2>6. Promise!IsPrefix(client.got, client'.got)
    BY <2>2 DEF IsPrefix, Promise!IsPrefix
  <2>5. Promise!Grow
    BY <1>2, <1>4, <2>1, <2>6, <2>3, <2>4 DEF Promise!Grow
  <2> QED BY <2>5
<1> QED BY <1>3, <1>4

THEOREM PromiseKept == Spec => Promised
<1>1. Init => Promise!ContractInit
  BY InvInit
<1>2. StreamInv /\ [Next]_vars => [Promise!Grow]_<<client.got, client.phase, client.reason>>
  <2> SUFFICES ASSUME StreamInv, [Next]_vars
               PROVE  [Promise!Grow]_<<client.got, client.phase, client.reason>>
    OBVIOUS
  <2>1. CASE Next
    BY <2>1, StepKeeps, MovedGrows
  <2>2. CASE UNCHANGED vars
    BY <2>2 DEF vars
  <2> QED BY <2>1, <2>2
<1> QED BY <1>1, <1>2, InvStays, PTL DEF Spec, Promised, Promise!Contract

-----------------------------------------------------------------------------
(* Text and calls, as the client sees them *)

Seen(c) == Of(c.got, {"text", "call"})

\* The Anthropic writer leaves out the text that comes.
Late(w) == proto = "anthropic" /\ w.o.open = "call"

LEMMA ShowSeen ==
    ASSUME NEW w, InStep(w), ~w.o.done, NEW x \in Shows, ~Show(w, x).o.err
    PROVE  LET v == Show(w, x)
           IN  /\ x.kind = "think" => Seen(v.c) = Seen(w.c) /\ (Late(v) <=> Late(w))
               /\ x.kind = "call" => Seen(v.c) = Append(Seen(w.c), x) /\ (proto = "anthropic" => Late(v))
               /\ x.kind = "text" /\ ~Late(w) => Seen(v.c) = Append(Seen(w.c), x) /\ ~Late(v)
               /\ x.kind = "text" /\ Late(w) => Seen(v.c) = Seen(w.c) /\ Late(v)
<1> DEFINE v == Show(w, x)
           K == {"text", "call"}
<1>1. /\ InStep(v) /\ Further(w, v) /\ ~v.o.err
      /\ LeftOut(w, x) => v.c.got = w.c.got
      /\ ~LeftOut(w, x) => v.c.got = Append(w.c.got, x)
      /\ ~w.o.err /\ proto # "chat" => v.o.open = IF LeftOut(w, x) THEN w.o.open ELSE x.kind
  BY ShowIs
<1>2. ~w.o.err
  BY <1>1 DEF Further
<1>3. w.c.got \in Seq(Shows)
  BY DEF InStep, Writers, Readers
<1> HIDE DEF v, K
<1>4. Of(Append(w.c.got, x), K) = IF x.kind \in K THEN Append(Of(w.c.got, K), x) ELSE Of(w.c.got, K)
  <2> DEFINE g == w.c.got
             r == Of(g, K)
             t == Append(g, x)
  <2>1. g \in Seq(Shows)
    BY <1>3
  <2> HIDE DEF g
  <2>2. Of(t, K) = IF x.kind \in K THEN Append(r, x) ELSE r
    BY <2>1, OfAppend
  <2> QED BY <2>2 DEF g
<1>5. x.kind \in {"text", "think", "call"}
  BY DEF Shows
<1>6. CASE x.kind = "think"
  <2>1. x.kind \notin K
    BY <1>6 DEF K
  <2>2. Of(v.c.got, K) = Of(w.c.got, K)
    BY <1>1, <1>4, <2>1
  <2>3. proto = "anthropic" => LeftOut(w, x)
    BY <1>6 DEF LeftOut
  <2> QED BY <1>1, <1>2, <1>6, <2>2, <2>3 DEF Seen, Late, v, K
<1>7. CASE x.kind = "call"
  <2>1. x.kind \in K /\ ~LeftOut(w, x)
    BY <1>2, <1>7 DEF K, LeftOut
  <2>2. Of(v.c.got, K) = Append(Of(w.c.got, K), x)
    BY <1>1, <1>4, <2>1
  <2> QED BY <1>1, <1>2, <1>7, <2>1, <2>2 DEF Seen, Late, v, K
<1>8. CASE x.kind = "text" /\ ~Late(w)
  <2>1. x.kind \in K /\ ~LeftOut(w, x)
    BY <1>2, <1>8 DEF K, LeftOut, Late
  <2>2. Of(v.c.got, K) = Append(Of(w.c.got, K), x)
    BY <1>1, <1>4, <2>1
  <2> QED BY <1>1, <1>2, <1>8, <2>1, <2>2 DEF Seen, Late, v, K
<1>9. CASE x.kind = "text" /\ Late(w)
  <2>1. LeftOut(w, x)
    BY <1>9 DEF LeftOut, Late
  <2> QED BY <1>1, <1>2, <1>9, <2>1 DEF Seen, Late, v, K
<1> QED BY <1>5, <1>6, <1>7, <1>8, <1>9 DEF v

LEMMA AppendAfter ==
    ASSUME NEW X, NEW a \in Seq(X), NEW s \in Seq(X), NEW k \in 1 .. Len(s)
    PROVE  /\ a \o Early(s, k) = Append(a \o Early(s, k - 1), s[k])
           /\ a \o Early(s, 0) = a /\ a \o Early(s, Len(s)) = a \o s
<1> DEFINE b == Early(s, k - 1)
           x == s[k]
<1>1. Early(s, k) = Append(b, x) /\ b \in Seq(X) /\ x \in X
  BY FrontMore
<1>2. Early(s, 0) = <<>> /\ Early(s, Len(s)) = s
  BY DEF Early
<1> HIDE DEF b, x
<1>3. a \o Append(b, x) = Append(a \o b, x)
  BY <1>1
<1> QED BY <1>1, <1>2, <1>3 DEF b, x

LEMMA EndsAre ==
    ASSUME NEW X, NEW a \in Seq(X), NEW s \in Seq(X)
    PROVE  a \o Early(s, 0) = a /\ a \o Early(s, Len(s)) = a \o s
<1>2. Early(s, 0) = <<>> /\ Early(s, Len(s)) = s
  BY DEF Early
<1> QED BY <1>2

\* Some texts are shown, or all left out.
LEMMA TextsSeen ==
    ASSUME NEW w, InStep(w), ~w.o.done, NEW s \in Txt, ~ShowAll(w, Texts(s)).o.err
    PROVE  LET v == ShowAll(w, Texts(s))
           IN  /\ ~Late(w) => Seen(v.c) = Seen(w.c) \o Texts(s) /\ ~Late(v)
               /\ Late(w) => Seen(v.c) = Seen(w.c) /\ Late(v)
<1> DEFINE items == Texts(s)
           n == Len(items)
           a == Seen(w.c)
<1>1. w \in Good /\ items \in Seq(Shows) /\ n \in Nat /\ \A i \in 1 .. n : items[i].kind = "text"
  BY TextsIs DEF Good, InStep
<1>2. a \in Seq(Shows)
  <2>1. w.c.got \in Seq(Shows)
    BY DEF InStep, Writers, Readers
  <2>2. \E x : x \in Shows
    <3>1. [kind |-> "text", val |-> ""] \in Shows
      BY DEF Shows, Val
    <3> QED BY <3>1
  <2> QED BY <2>1, <2>2, OfAppend DEF Seen
<1> HIDE DEF items
<1>3. PICK F \in [0 .. n -> Good] :
        /\ F[0] = w /\ F[n] = ShowAll(w, items)
        /\ \A k \in 1 .. n : F[k] = Show(F[k - 1], items[k])
  BY <1>1, ShowsAll
<1> HIDE DEF n, a
<1> DEFINE P(k) == /\ ~F[k].o.done
                   /\ ~F[k].o.err =>
                        /\ ~Late(w) => Seen(F[k].c) = a \o Early(items, k) /\ ~Late(F[k])
                        /\ Late(w) => Seen(F[k].c) = a /\ Late(F[k])
           T == {k \in 0 .. n : P(k)}
<1>4. 0 \in T
  <2>1. a \o Early(items, 0) = a
    BY <1>1, <1>2, EndsAre
  <2>2. P(0)
    BY <1>3, <2>1 DEF a
  <2> QED BY <1>1, <2>2
<1>5. ASSUME NEW k \in 1 .. n, k - 1 \in T PROVE k \in T
  <2> DEFINE u == F[k - 1]
             v == F[k]
             x == items[k]
  <2>1. k - 1 \in 0 .. n /\ k \in 0 .. n /\ k \in 1 .. Len(items)
    BY <1>1 DEF n
  <2>2. v = Show(u, x) /\ u \in Good /\ InStep(u) /\ x \in Shows /\ x.kind = "text" /\ P(k - 1)
    BY <1>1, <1>3, <1>5, <2>1 DEF Good
  <2>3. a \o Early(items, k) = Append(a \o Early(items, k - 1), x)
    BY <1>1, <1>2, <2>1, AppendAfter
  <2> HIDE DEF u, v, x
  <2>4. Further(u, v)
    BY <2>2, ShowIs
  <2>5. ~v.o.err => ~u.o.err
    BY <2>4 DEF Further
  <2>6. ~v.o.done /\ ~u.o.done
    BY <2>2, <2>4 DEF Further, u
  <2>7. ~v.o.err =>
          /\ ~Late(u) => Seen(v.c) = Append(Seen(u.c), x) /\ ~Late(v)
          /\ Late(u) => Seen(v.c) = Seen(u.c) /\ Late(v)
    BY <2>2, <2>6, ShowSeen
  <2>8. ~v.o.err =>
          /\ ~Late(w) => Seen(v.c) = a \o Early(items, k) /\ ~Late(v)
          /\ Late(w) => Seen(v.c) = a /\ Late(v)
    BY <2>2, <2>3, <2>5, <2>7 DEF u
  <2> QED BY <2>1, <2>6, <2>8 DEF v
<1>6. 0 .. n \subseteq T
  <2> HIDE DEF T
  <2> QED BY <1>1, <1>4, <1>5, UpTo DEF n
<1>7. P(n)
  BY <1>1, <1>6 DEF n
<1>8. a \o Early(items, n) = a \o items
  BY <1>1, <1>2, EndsAre DEF n
<1> QED BY <1>3, <1>7, <1>8 DEF a, items

-----------------------------------------------------------------------------
(* The stitched calls, and the text behind the first of them *)

Stitched == [i \in DOMAIN up.stitch |-> Call(up.stitch[i].call)]

LEMMA StitchedIs ==
    ASSUME up.stitch \in Stitches
    PROVE  /\ Stitched \in Seq(Shows) /\ Len(Stitched) = Len(up.stitch) /\ Len(up.stitch) \in Nat
           /\ \A i \in 1 .. Len(up.stitch) :
                 Stitched[i] = Call(up.stitch[i].call) /\ Stitched[i].kind = "call"
<1> DEFINE s == up.stitch
           n == Len(s)
<1>1. n \in Nat /\ DOMAIN s = 1 .. n
  BY SeqFacts DEF Stitches
<1>2. \A i \in 1 .. n : Call(s[i].call) \in Shows /\ Call(s[i].call).kind = "call"
  BY <1>1, StitchIs
<1>3. Stitched = [i \in 1 .. n |-> Call(s[i].call)]
  BY <1>1 DEF Stitched
<1> HIDE DEF s, n
<1>4. Stitched \in Seq(Shows) /\ Len(Stitched) = n
  BY <1>1, <1>2, <1>3
<1> QED BY <1>1, <1>2, <1>3, <1>4 DEF n, s

LEMMA SeenTyped ==
    ASSUME NEW w, InStep(w)
    PROVE  Seen(w.c) \in Seq(Shows)
<1>1. w.c.got \in Seq(Shows)
  BY DEF InStep, Writers, Readers
<1>2. [kind |-> "text", val |-> ""] \in Shows
  BY DEF Shows, Val
<1> QED BY <1>1, <1>2, OfAppend DEF Seen

\* The stitched calls are shown.
LEMMA FlushSeen ==
    ASSUME NEW w, InStep(w), ~w.o.done, up.stitch \in Stitches, ~FlushTools(w).o.err
    PROVE  LET v == FlushTools(w)
           IN  /\ Seen(v.c) = Seen(w.c) \o Stitched
               /\ up.stitch = <<>> => v = w
               /\ up.stitch # <<>> /\ proto = "anthropic" => Late(v)
<1> DEFINE n == Len(up.stitch)
           a == Seen(w.c)
           items == Stitched
<1>1. /\ w \in Good /\ items \in Seq(Shows) /\ n \in Nat /\ Len(items) = n
      /\ \A i \in 1 .. n : items[i] = Call(up.stitch[i].call) /\ items[i].kind = "call"
  BY StitchedIs DEF Good, InStep
<1>2. a \in Seq(Shows)
  BY SeenTyped
<1>3. PICK F \in [0 .. n -> Good] :
        /\ F[0] = w /\ F[n] = FlushTools(w)
        /\ \A k \in 1 .. n : F[k] = FlushStep(F[k - 1], up.stitch[k])
  BY <1>1, FlushSteps DEF Flushes
<1>9. up.stitch = <<>> <=> n = 0
  <2>1. up.stitch \in Seq([call : STRING, whole : BOOLEAN])
    BY DEF Stitches
  <2> QED BY <2>1
<1> HIDE DEF n, a, items
<1> DEFINE P(k) == /\ ~F[k].o.done
                   /\ ~F[k].o.err =>
                        /\ Seen(F[k].c) = a \o Early(items, k)
                        /\ k > 0 /\ proto = "anthropic" => Late(F[k])
           T == {k \in 0 .. n : P(k)}
<1>4. 0 \in T
  <2>1. a \o Early(items, 0) = a
    BY <1>1, <1>2, EndsAre
  <2>2. P(0)
    BY <1>3, <2>1 DEF a
  <2> QED BY <1>1, <2>2
<1>5. ASSUME NEW k \in 1 .. n, k - 1 \in T PROVE k \in T
  <2> DEFINE u == F[k - 1]
             v == F[k]
             x == items[k]
  <2>1. k - 1 \in 0 .. n /\ k \in 0 .. n /\ k \in 1 .. Len(items) /\ k > 0
    BY <1>1
  <2>2. /\ v = IF u.o.err THEN u ELSE Show(u, x)
        /\ u \in Good /\ InStep(u) /\ x \in Shows /\ x.kind = "call" /\ P(k - 1)
    <3>1. x = Call(up.stitch[k].call) /\ x.kind = "call" /\ x \in Shows
      BY <1>1, <2>1
    <3>2. u \in Good /\ InStep(u)
      BY <1>3, <2>1 DEF Good
    <3>3. v = FlushStep(u, up.stitch[k])
      BY <1>3
    <3>4. P(k - 1)
      BY <1>5
    <3> HIDE DEF u, v, x, P
    <3> QED BY <3>1, <3>2, <3>3, <3>4 DEF FlushStep
  <2>3. a \o Early(items, k) = Append(a \o Early(items, k - 1), x)
    BY <1>1, <1>2, <2>1, AppendAfter
  <2> HIDE DEF u, v, x
  <2>4. CASE u.o.err
    <3>1. v = u
      BY <2>2, <2>4
    <3>2. P(k)
      BY <2>2, <2>4, <3>1 DEF u, v
    <3> QED BY <2>1, <3>2
  <2>5. CASE ~u.o.err
    <3>1. v = Show(u, x) /\ ~u.o.done
      BY <2>2, <2>5 DEF u
    <3>2. ~v.o.done
      BY <2>2, <3>1, ShowIs DEF Further
    <3>3. ~v.o.err => Seen(v.c) = Append(Seen(u.c), x) /\ (proto = "anthropic" => Late(v))
      BY <2>2, <3>1, ShowSeen
    <3>4. Seen(u.c) = a \o Early(items, k - 1)
      BY <2>2, <2>5 DEF u
    <3>5. P(k)
      BY <2>3, <3>2, <3>3, <3>4 DEF v
    <3> QED BY <2>1, <3>5
  <2> QED BY <2>4, <2>5
<1>6. 0 .. n \subseteq T
  <2> HIDE DEF T
  <2> QED BY <1>1, <1>4, <1>5, UpTo
<1>7. P(n)
  BY <1>1, <1>6
<1>8. a \o Early(items, n) = a \o items
  BY <1>1, <1>2, EndsAre
<1>10. up.stitch = <<>> => FlushTools(w) = w
  BY <1>3, <1>9
<1>11. up.stitch # <<>> => n > 0
  BY <1>1, <1>9
<1> QED BY <1>3, <1>7, <1>8, <1>10, <1>11 DEF a, items

-----------------------------------------------------------------------------

Rest(items, m) == SubSeq(items, m + 1, Len(items))

\* The text of a native reply behind its first m items, up to the k-th.
Behind(items, m, k) == SaidBy(Rest(items, m), k - m)

LEMMA DropIs ==
    ASSUME NEW X, NEW s \in Seq(X), NEW m \in 0 .. Len(s)
    PROVE  /\ Rest(s, m) \in Seq(X) /\ Len(Rest(s, m)) = Len(s) - m
           /\ \A i \in 1 .. (Len(s) - m) : Rest(s, m)[i] = s[m + i]
BY DEF Rest

LEMMA BehindIs ==
    ASSUME NEW s \in Seq(Items), NEW m \in Nat, NEW k \in Nat, m <= k, k <= Len(s)
    PROVE  /\ Rest(s, m) \in Seq(Items) /\ Len(Rest(s, m)) = Len(s) - m
           /\ k - m \in 0 .. Len(Rest(s, m))
           /\ Behind(s, m, k) \in Txt
           /\ \A i \in 1 .. (Len(s) - m) : Rest(s, m)[i] = s[m + i]
           /\ SubSeq(SubSeq(s, 1, k), m + 1, k) = Early(Rest(s, m), k - m)
<1>1. Len(s) \in Nat /\ DOMAIN s = 1 .. Len(s)
  OBVIOUS
<1> DEFINE t == Rest(s, m)
<1>2. /\ t \in Seq(Items) /\ Len(t) = Len(s) - m
      /\ \A i \in 1 .. (Len(s) - m) : t[i] = s[m + i]
  <2>1. m \in 0 .. Len(s)
    BY <1>1
  <2> QED BY <2>1, DropIs
<1> HIDE DEF t
<1>3. k - m \in 0 .. Len(t)
  BY <1>1, <1>2
<1>4. SaidBy(t, k - m) \in Txt
  BY <1>2, <1>3, SaidTyped
<1>5. SubSeq(SubSeq(s, 1, k), m + 1, k) = SubSeq(t, 1, k - m)
  <2> DEFINE a == SubSeq(SubSeq(s, 1, k), m + 1, k)
             b == SubSeq(t, 1, k - m)
             c == SubSeq(s, 1, k)
  <2>1. c \in Seq(Items) /\ Len(c) = k /\ \A i \in 1 .. k : c[i] = s[i]
    BY <1>1
  <2>2. a \in Seq(Items) /\ Len(a) = k - m /\ \A i \in 1 .. (k - m) : a[i] = c[m + i]
    <3> HIDE DEF c
    <3> QED BY <2>1 DEF c
  <2>3. b \in Seq(Items) /\ Len(b) = k - m /\ \A i \in 1 .. (k - m) : b[i] = t[i]
    BY <1>2, <1>3
  <2> HIDE DEF a, b, c
  <2>4. \A i \in 1 .. (k - m) : m + i \in 1 .. k /\ i \in 1 .. (Len(s) - m)
    BY <1>1
  <2>5. \A i \in 1 .. (k - m) : a[i] = b[i]
    BY <1>2, <2>1, <2>2, <2>3, <2>4
  <2>6. a = b
    BY <2>2, <2>3, <2>5
  <2> QED BY <2>6 DEF a, b
<1> QED BY <1>2, <1>3, <1>4, <1>5 DEF Behind, Early, t

LEMMA BehindNone ==
    ASSUME NEW s, NEW m \in Nat
    PROVE  Behind(s, m, m) = <<>>
<1>1. Early(Rest(s, m), 0) = <<>>
  BY DEF Early
<1>2. Tokens(<<>>) = <<>>
  BY DEF Tokens
<1> QED BY <1>1, <1>2, OfNone DEF Behind, SaidBy

LEMMA BehindMore ==
    ASSUME NEW s \in Seq(Items), NEW m \in Nat, NEW k \in Nat, m <= k, k < Len(s)
    PROVE  s[k + 1].kind # "text" => Behind(s, m, k + 1) = Behind(s, m, k)
<1> DEFINE t == Rest(s, m)
           j == k + 1 - m
<1>1. Len(s) \in Nat
  OBVIOUS
<1>2. /\ t \in Seq(Items) /\ Len(t) = Len(s) - m
      /\ \A i \in 1 .. (Len(s) - m) : t[i] = s[m + i]
  <2>1. m \in 0 .. Len(s)
    BY <1>1
  <2> QED BY <2>1, DropIs
<1> HIDE DEF t
<1>3. j \in 1 .. Len(t) /\ j \in 1 .. (Len(s) - m) /\ j - 1 = k - m /\ m + j = k + 1
  BY <1>1, <1>2
<1> HIDE DEF j
<1>4. SaidBy(t, j) = IF t[j].kind = "text" THEN Append(SaidBy(t, j - 1), t[j].val)
                     ELSE SaidBy(t, j - 1)
  BY <1>2, <1>3, SaidByIs
<1>5. t[j] = s[k + 1]
  BY <1>2, <1>3
<1> QED BY <1>3, <1>4, <1>5 DEF Behind, t, j

LEMMA BehindFrame ==
    ASSUME NEW s \in Seq(Items), NEW m \in Nat, NEW k \in Nat, m <= k, NEW n \in Nat, k + n <= Len(s),
           \A i \in 1 .. n : s[k + i].kind = "text"
    PROVE  Behind(s, m, k + n) = Behind(s, m, k) \o [i \in 1 .. n |-> s[k + i].val]
<1> DEFINE t == Rest(s, m)
           j == k - m
           j2 == k + n - m
<1>1. Len(s) \in Nat
  OBVIOUS
<1>2. /\ t \in Seq(Items) /\ Len(t) = Len(s) - m
      /\ \A i \in 1 .. (Len(s) - m) : t[i] = s[m + i]
  <2>1. m \in 0 .. Len(s)
    BY <1>1
  <2> QED BY <2>1, DropIs
<1> HIDE DEF t
<1>3. /\ j \in Nat /\ j + n <= Len(t) /\ j + n = j2
      /\ \A i \in 1 .. n : j + i \in 1 .. (Len(s) - m) /\ m + (j + i) = k + i
  BY <1>1, <1>2
<1> HIDE DEF j, j2
<1>4. \A i \in 1 .. n : t[j + i] = s[k + i]
  BY <1>2, <1>3
<1>5. \A i \in 1 .. n : t[j + i].kind = "text"
  BY <1>4
<1>6. SaidBy(t, j + n) = SaidBy(t, j) \o [i \in 1 .. n |-> t[j + i].val]
  BY <1>2, <1>3, <1>5, SaidMore
<1>7. [i \in 1 .. n |-> t[j + i].val] = [i \in 1 .. n |-> s[k + i].val]
  BY <1>4
<1>8. SaidBy(t, j2) = SaidBy(t, j) \o [i \in 1 .. n |-> s[k + i].val]
  BY <1>3, <1>6, <1>7
<1>9. Behind(s, m, k + n) = SaidBy(t, j2) /\ Behind(s, m, k) = SaidBy(t, j)
  BY DEF Behind, t, j, j2
<1> QED BY <1>8, <1>9

-----------------------------------------------------------------------------
(* The order in which native calls and text come through *)

LEMMA BothIs ==
    ASSUME NEW s \in Seq(Shows), NEW t \in Seq(Shows)
    PROVE  /\ s \o t \in Seq(Shows) /\ Len(s) \in Nat /\ Len(t) \in Nat /\ Len(s \o t) = Len(s) + Len(t)
           /\ \A j \in 1 .. Len(s) : (s \o t)[j] = s[j]
           /\ \A j \in 1 .. Len(t) : (s \o t)[Len(s) + j] = t[j]
OBVIOUS

LEMMA TextsJoined ==
    ASSUME NEW a \in Txt, NEW b \in Txt
    PROVE  Texts(a \o b) = Texts(a) \o Texts(b)
<1> DEFINE n == Len(a)
           k == Len(b)
           u == Texts(a)
           v == Texts(b)
           t == Texts(a \o b)
<1>1. /\ n \in Nat /\ k \in Nat /\ a \o b \in Txt /\ Len(a \o b) = n + k
      /\ \A i \in 1 .. n : (a \o b)[i] = a[i]
      /\ \A i \in 1 .. k : (a \o b)[n + i] = b[i]
  BY DEF Txt
<1>2. u \in Seq(Shows) /\ Len(u) = n /\ \A i \in 1 .. n : u[i] = Text(a[i])
  BY TextsIs
<1>3. v \in Seq(Shows) /\ Len(v) = k /\ \A i \in 1 .. k : v[i] = Text(b[i])
  BY TextsIs
<1>4. t \in Seq(Shows) /\ Len(t) = n + k /\ \A i \in 1 .. (n + k) : t[i] = Text((a \o b)[i])
  BY <1>1, TextsIs
<1> HIDE DEF n, k, u, v, t
<1>5. /\ u \o v \in Seq(Shows) /\ Len(u \o v) = n + k
      /\ \A i \in 1 .. n : (u \o v)[i] = u[i]
      /\ \A i \in 1 .. k : (u \o v)[n + i] = v[i]
  <2>1. Len(u) = n /\ Len(v) = k /\ u \in Seq(Shows) /\ v \in Seq(Shows)
    BY <1>2, <1>3
  <2>2. /\ u \o v \in Seq(Shows) /\ Len(u \o v) = Len(u) + Len(v)
        /\ \A i \in 1 .. Len(u) : (u \o v)[i] = u[i]
        /\ \A i \in 1 .. Len(v) : (u \o v)[Len(u) + i] = v[i]
    BY <2>1, BothIs
  <2> QED BY <2>1, <2>2
<1>6. \A i \in 1 .. (n + k) : i \in 1 .. n \/ (i - n \in 1 .. k /\ n + (i - n) = i)
  BY <1>1
<1>7. \A i \in 1 .. (n + k) : t[i] = (u \o v)[i]
  <2> SUFFICES ASSUME NEW i \in 1 .. (n + k) PROVE t[i] = (u \o v)[i]
    OBVIOUS
  <2>1. t[i] = Text((a \o b)[i])
    BY <1>4
  <2>2. CASE i \in 1 .. n
    <3>1. (a \o b)[i] = a[i] /\ (u \o v)[i] = u[i] /\ u[i] = Text(a[i])
      BY <1>1, <1>2, <1>5, <2>2
    <3> QED BY <2>1, <3>1
  <2>3. CASE i \notin 1 .. n
    <3> DEFINE j == i - n
    <3>1. j \in 1 .. k /\ n + j = i
      BY <1>6, <2>3
    <3> HIDE DEF j
    <3>2. (a \o b)[n + j] = b[j] /\ (u \o v)[n + j] = v[j] /\ v[j] = Text(b[j])
      BY <1>1, <1>3, <1>5, <3>1
    <3> QED BY <2>1, <3>1, <3>2
  <2> QED BY <2>2, <2>3
<1>8. t = u \o v
  <2> DEFINE both == u \o v
             X == Shows
  <2>1. both \in Seq(X) /\ Len(both) = n + k /\ t \in Seq(X) /\ Len(t) = n + k
        /\ \A i \in 1 .. (n + k) : t[i] = both[i]
    BY <1>4, <1>5, <1>7
  <2> HIDE DEF both, X
  <2>2. t = both
    BY <2>1
  <2> QED BY <2>2 DEF both
<1> QED BY <1>8 DEF t, u, v

LEMMA ContentSeen ==
    ASSUME ~script.fence, NEW w, InStep(w), ~w.o.done, NEW f, NEW tokens \in Txt,
           ~Content(w, f, tokens).w.o.err
    PROVE  LET d == Content(w, f, tokens)
           IN  /\ ~w.o.err
               /\ ~Late(w) => Seen(d.w.c) = Seen(w.c) \o Texts(tokens) /\ ~Late(d.w)
               /\ Late(w) => Seen(d.w.c) = Seen(w.c)
<1> DEFINE d == Content(w, f, tokens)
           v == ShowAll(w, Texts(tokens))
<1>1. d = CASE tokens = <<>> \/ w.o.err -> [w |-> w, f |-> f]
            [] OTHER -> [w |-> v, f |-> f]
  BY DEF Content
<1>2. Grows(w, d.w)
  BY NativeContent
<1> HIDE DEF d, v
<1>3. ~w.o.err
  BY <1>2 DEF Grows, Further, d
<1>4. CASE tokens = <<>>
  <2>1. d.w = w
    BY <1>1, <1>4
  <2>2. Texts(tokens) = <<>>
    BY <1>4 DEF Texts
  <2>3. Seen(w.c) \in Seq(Shows)
    BY SeenTyped
  <2>4. Seen(w.c) \o <<>> = Seen(w.c)
    BY <2>3
  <2> QED BY <1>3, <2>1, <2>2, <2>4 DEF d
<1>5. CASE tokens # <<>>
  <2>1. d.w = v
    BY <1>1, <1>3, <1>5
  <2> QED BY <1>3, <2>1, TextsSeen DEF d, v
<1> QED BY <1>4, <1>5

-----------------------------------------------------------------------------

\* The first m items that have come are those before the first call.
FirstHead(m) ==
    /\ \A i \in 1 .. m : script.items[i].kind # "head"
    /\ m < pos => script.items[m + 1].kind = "head"
    /\ up.stitch = <<>> <=> m = pos

TextBefore(m) == Texts(SaidBy(script.items, m))
TextAfter(m) == Behind(script.items, m, pos)

\* The calls have not been passed on.
Unflushed(m) == up.deferred = TextAfter(m) /\ Seen(client) = TextBefore(m) /\ ~Late(Writer)

\* They have.
InOrder(m) ==
    Seen(client) = TextBefore(m) \o Stitched \o (IF proto = "anthropic" /\ m < pos THEN <<>> ELSE Texts(TextAfter(m)))

\* Native calls and text have come through so far.
Sails == Running /\ ~errored /\ ~out.err

NativeOrder ==
    ~script.fence /\ (Ok \/ Sails) =>
        \E m \in 0 .. pos : FirstHead(m) /\ IF Ok \/ up.finishSent THEN InOrder(m) ELSE Unflushed(m)

LEMMA OrderRead ==
    ASSUME StreamTyped, NativeOrder
    PROVE  OrderKept
<1> SUFFICES ASSUME Ok, ~script.fence PROVE OrderKept
  BY DEF OrderKept
<1>1. PICK m \in 0 .. pos : FirstHead(m) /\ InOrder(m)
  BY DEF NativeOrder
<1> DEFINE s == script.items
           heads == {i \in DOMAIN Came : Came[i].kind = "head"}
           first == IF heads = {} THEN pos + 1 ELSE Min(heads)
<1>2. s \in Seq(Items) /\ Len(s) \in Nat /\ pos \in Nat /\ pos <= Len(s) /\ m \in Nat /\ m <= pos
  BY ScriptIs
<1>3. Came \in Seq(Items) /\ DOMAIN Came = 1 .. pos /\ \A i \in 1 .. pos : Came[i] = s[i]
  BY <1>2 DEF Came
<1>4. first = m + 1 /\ (heads # {} <=> m < pos)
  <2>1. CASE m = pos
    <3>1. heads = {}
      BY <1>1, <1>3, <2>1 DEF FirstHead
    <3> QED BY <1>2, <2>1, <3>1
  <2>2. CASE m < pos
    <3>1. m + 1 \in heads
      BY <1>1, <1>2, <1>3, <2>2 DEF FirstHead
    <3>2. \A i \in heads : i \in Nat /\ m + 1 <= i
      BY <1>1, <1>2, <1>3 DEF FirstHead
    <3> HIDE DEF heads
    <3>3. Min(heads) = m + 1
      BY <1>2, <3>1, <3>2 DEF Min
    <3> QED BY <2>2, <3>1, <3>3
  <2> QED BY <1>2, <2>1, <2>2
<1>5. SubSeq(Came, m + 1, pos) = Early(Rest(s, m), pos - m)
  BY <1>2, BehindIs DEF Came
<1>6. SubSeq(Came, 1, m) = Early(s, m)
  <2> DEFINE a == SubSeq(Came, 1, m)
             b == SubSeq(s, 1, m)
  <2>1. a \in Seq(Items) /\ Len(a) = m /\ \A i \in 1 .. m : a[i] = Came[i]
    BY <1>2, <1>3
  <2>2. b \in Seq(Items) /\ Len(b) = m /\ \A i \in 1 .. m : b[i] = s[i]
    BY <1>2
  <2>3. \A i \in 1 .. m : a[i] = b[i]
    BY <1>2, <1>3, <2>1, <2>2
  <2> HIDE DEF a, b
  <2>4. a = b
    BY <2>1, <2>2, <2>3
  <2> QED BY <2>4 DEF a, b, Early
<1>7. m + 1 - 1 = m
  BY <1>2
<1> DEFINE early == Texts(Tokens(Of(SubSeq(Came, 1, first - 1), {"text"})))
           late == Texts(Tokens(Of(SubSeq(Came, first, pos), {"text"})))
<1>8. early = TextBefore(m)
  <2> HIDE DEF first, s
  <2>2. first - 1 = m
    BY <1>4, <1>7
  <2>1. SubSeq(Came, 1, first - 1) = Early(s, m)
    BY <1>6, <2>2
  <2> QED BY <2>1 DEF TextBefore, SaidBy, s
<1>9. late = Texts(TextAfter(m))
  <2>1. SubSeq(Came, first, pos) = Early(Rest(s, m), pos - m)
    BY <1>4, <1>5
  <2> HIDE DEF first, s
  <2> QED BY <2>1 DEF TextAfter, Behind, SaidBy, s
<1> HIDE DEF early, late
<1>10. Of(client.got, {"text", "call"})
         = early \o Stitched \o (IF proto = "anthropic" /\ heads # {} THEN <<>> ELSE late)
  BY <1>1, <1>4, <1>8, <1>9 DEF InOrder, Seen
<1> QED BY <1>10 DEF OrderKept, Stitched, early, late

-----------------------------------------------------------------------------
(* The calls and the text behind them are passed on *)

LEMMA NothingMore == \A s \in Seq(Shows) : s \o <<>> = s
OBVIOUS

LEMMA Sailing ==
    ASSUME StreamInv, Sails
    PROVE  /\ StreamTyped /\ InStep(Writer) /\ Writer.o = out /\ Writer.c = client
           /\ ~Writer.o.done /\ ~Writer.o.err /\ up.stitch \in Stitches /\ up.deferred \in Txt
           /\ script.items \in Seq(Items) /\ Len(script.items) \in Nat
           /\ pos \in Nat /\ pos <= Len(script.items)
<1>1. StreamTyped /\ up \in Ups /\ InStep(Writer) /\ ~out.done
  BY DEF StreamInv, StreamTyped, DoneIsError, Sails
<1>2. Writer.o = out /\ Writer.c = client
  BY DEF Writer
<1>3. up.stitch \in Stitches /\ up.deferred \in Txt
  BY <1>1 DEF Ups
<1> QED BY <1>1, <1>2, <1>3, ScriptIs DEF Sails

\* The calls and the text behind them are passed on.
LEMMA FlushedSeen ==
    ASSUME StreamInv, Sails, ~script.fence, NEW m \in 0 .. pos, FirstHead(m), Unflushed(m), NEW f,
           ~Content(FlushTools(Writer), f, up.deferred).w.o.err
    PROVE  Seen(Content(FlushTools(Writer), f, up.deferred).w.c)
             = TextBefore(m) \o Stitched \o (IF proto = "anthropic" /\ m < pos THEN <<>> ELSE Texts(TextAfter(m)))
<1> DEFINE u == FlushTools(Writer)
           d == Content(u, f, up.deferred)
           a == TextBefore(m)
           b == Stitched
           t == Texts(up.deferred)
<1>1. /\ InStep(Writer) /\ Writer.o = out /\ Writer.c = client /\ ~Writer.o.done
      /\ up.stitch \in Stitches /\ up.deferred \in Txt /\ pos \in Nat
  BY Sailing
<1>2. Grows(Writer, u)
  BY <1>1, FlushIs
<1>3. InStep(u) /\ ~u.o.done
  BY <1>1, <1>2 DEF Grows, Further
<1>4. up.deferred = TextAfter(m) /\ Seen(Writer.c) = a /\ ~Late(Writer)
  BY <1>1 DEF Unflushed
<1>5. a \in Seq(Shows) /\ b \in Seq(Shows)
  BY <1>1, <1>4, SeenTyped, StitchedIs
<1>6. t \in Seq(Shows)
  BY <1>1, TextsIs
<1>7. /\ ~u.o.err
      /\ ~Late(u) => Seen(d.w.c) = Seen(u.c) \o t
      /\ Late(u) => Seen(d.w.c) = Seen(u.c)
  <2> HIDE DEF u
  <2> QED BY <1>1, <1>3, ContentSeen DEF u
<1>8. /\ Seen(u.c) = a \o b
      /\ up.stitch = <<>> => u = Writer
      /\ up.stitch # <<>> /\ proto = "anthropic" => Late(u)
  BY <1>1, <1>4, <1>7, FlushSeen
<1>9. up.stitch = <<>> <=> m = pos
  BY DEF FirstHead
<1>10. t = Texts(TextAfter(m))
  BY <1>4
<1> HIDE DEF u, d, a, b, t
<1>11. CASE proto = "anthropic" /\ m < pos
  <2>1. up.stitch # <<>>
    BY <1>1, <1>9, <1>11
  <2>2. Seen(d.w.c) = a \o b
    BY <1>7, <1>8, <1>11, <2>1
  <2>3. a \o b \in Seq(Shows)
    BY <1>5, BothIs
  <2>4. (a \o b) \o <<>> = a \o b
    BY <2>3, NothingMore
  <2> QED BY <1>11, <2>2, <2>4 DEF a, b, d, u
<1>12. CASE ~(proto = "anthropic" /\ m < pos)
  <2>1. proto # "anthropic" \/ up.stitch = <<>>
    BY <1>1, <1>9, <1>12
  <2>2. ~Late(u)
    BY <1>4, <1>8, <2>1 DEF Late
  <2>3. Seen(d.w.c) = (a \o b) \o t
    BY <1>7, <1>8, <2>2
  <2> QED BY <1>10, <1>12, <2>3 DEF a, b, d, u
<1> QED BY <1>11, <1>12

LEMMA ShowNone ==
    ASSUME NEW w, InStep(w)
    PROVE  ShowAll(w, <<>>) = w
<1> DEFINE es == <<>>
<1>1. es \in Seq(Shows) /\ Len(es) = 0
  OBVIOUS
<1>2. w \in Good
  BY DEF Good, InStep
<1> HIDE DEF es
<1>3. PICK F \in [0 .. Len(es) -> Good] : F[0] = w /\ F[Len(es)] = ShowAll(w, es)
  BY <1>1, <1>2, ShowsAll
<1> QED BY <1>1, <1>3 DEF es

\* The end of a reply whose calls are native writes no more text.
LEMMA NativeSettle ==
    ASSUME NEW w, InStep(w), Settle(w, Filter0), result' = "ok", up.finish \in {"stop", "length"}
    PROVE  ~w.o.err /\ ~errored /\ client'.got = w.c.got
<1> DEFINE g == CloseFilter([Filter0 EXCEPT !.out = <<>>])
           v1 == ShowAll(w, g.out)
           fin == FinishOf(g)
           v == Finish(v1, fin)
<1>1. ~w.o.err /\ ~errored
  BY DEF Settle, Returned
<1>2. g.out = <<>> /\ ~g.found
  BY NothingToClose
<1>3. Shut(v1, g)
  BY <1>1 DEF Settle, ShutAfter
<1> HIDE DEF g
<1>4. v1.c.got = w.c.got /\ InStep(v1)
  <2>1. v1 = w
    BY <1>2, ShowNone
  <2> QED BY <2>1
<1> HIDE DEF v1
<1>5. Ended(v, g)
  BY <1>3 DEF Shut, Returned
<1>6. client' = v.c
  BY <1>5 DEF Ended, Returned, Put
<1>7. v.c.got = v1.c.got
  <2>1. fin \in Reason
    BY DEF FinishOf, Reason
  <2> HIDE DEF fin
  <2> QED BY <1>4, <2>1, FinishIs
<1> QED BY <1>1, <1>4, <1>6, <1>7

-----------------------------------------------------------------------------
(* The order, action by action *)

LEMMA OrderHere ==
    ASSUME NativeOrder, ~script.fence, Sails
    PROVE  \E m \in 0 .. pos : FirstHead(m) /\ IF up.finishSent THEN InOrder(m) ELSE Unflushed(m)
BY DEF NativeOrder, Sails, Running, Ok

\* What is to be shown of the next state while the calls have not been
\* passed on.
LEMMA OrderNext ==
    ASSUME UNCHANGED script, NEW m, m \in 0 .. pos',
           \A i \in 1 .. m : script.items[i].kind # "head",
           m < pos' => script.items[m + 1].kind = "head",
           up'.stitch = <<>> <=> m = pos',
           up'.deferred = Behind(script.items, m, pos'),
           Seen(client') = Texts(SaidBy(script.items, m)),
           ~(proto' = "anthropic" /\ out'.open = "call"),
           result' # "ok", ~up'.finishSent
    PROVE  NativeOrder'
<1>1. FirstHead(m)'
  BY DEF FirstHead
<1>2. up'.deferred = TextAfter(m)'
  BY DEF TextAfter
<1>3. Seen(client)' = TextBefore(m)'
  BY DEF Seen, TextBefore
<1>4. ~Late(Writer)'
  BY DEF Late, Writer
<1>5. Unflushed(m)'
  BY <1>2, <1>3, <1>4 DEF Unflushed
<1>6. ~Ok'
  BY DEF Ok
<1> QED BY <1>1, <1>5, <1>6 DEF NativeOrder

\* A step that writes nothing and reads nothing.
LEMMA OrderStill ==
    ASSUME NativeOrder, UNCHANGED <<proto, script, pos, out, client, errored, result>>,
           up'.stitch = up.stitch, up'.deferred = up.deferred, up'.finishSent = up.finishSent
    PROVE  NativeOrder'
<1> SUFFICES ASSUME ~script.fence, (Ok \/ Sails)' PROVE NativeOrder'
  BY DEF NativeOrder
<1>1. (Ok \/ Sails) /\ Ok' = Ok
  BY DEF Sails, Running, Ok
<1>2. PICK m \in 0 .. pos : FirstHead(m) /\ IF Ok \/ up.finishSent THEN InOrder(m) ELSE Unflushed(m)
  BY <1>1 DEF NativeOrder
<1>3. FirstHead(m)'
  BY <1>2 DEF FirstHead
<1>4. TextBefore(m)' = TextBefore(m) /\ TextAfter(m)' = TextAfter(m) /\ Seen(client)' = Seen(client)
      /\ Stitched' = Stitched /\ Late(Writer)' = Late(Writer)
  BY DEF TextBefore, TextAfter, Seen, Stitched, Late, Writer
<1>5. CASE Ok \/ up.finishSent
  <2>1. InOrder(m)'
    BY <1>2, <1>4, <1>5 DEF InOrder
  <2> QED BY <1>1, <1>2, <1>3, <1>5, <2>1 DEF NativeOrder
<1>6. CASE ~(Ok \/ up.finishSent)
  <2>1. Unflushed(m)'
    BY <1>2, <1>4, <1>6 DEF Unflushed
  <2> QED BY <1>1, <1>2, <1>3, <1>6, <2>1 DEF NativeOrder
<1> QED BY <1>5, <1>6

LEMMA FinishReasonOrder == ASSUME StreamInv, NativeOrder, FinishReason PROVE NativeOrder'
<1>1. UNCHANGED <<proto, script, pos, out, client, errored, result>>
      /\ up' = [up EXCEPT !.finish = "length"]
  BY DEF FinishReason
<1>2. up \in Ups
  BY DEF StreamInv, StreamTyped
<1>3. up'.stitch = up.stitch /\ up'.deferred = up.deferred /\ up'.finishSent = up.finishSent
  BY <1>1, <1>2 DEF Ups
<1> QED BY <1>1, <1>3, OrderStill

LEMMA LeaveOrder == ASSUME NativeOrder, Leave PROVE NativeOrder'
<1>1. UNCHANGED <<proto, script, pos, out, client, errored, result>> /\ up' = up
  BY DEF Leave
<1> QED BY <1>1, OrderStill

LEMMA CutOrder == ASSUME Cut PROVE NativeOrder'
BY DEF Cut, NativeOrder, Ok, Sails, Running

LEMMA ErrorFrameOrder == ASSUME ErrorFrame PROVE NativeOrder'
<1>1. errored' /\ result' # "ok"
  BY DEF ErrorFrame, Running
<1> QED BY <1>1 DEF NativeOrder, Ok, Sails

LEMMA TextFrameOrder ==
    ASSUME StreamInv, NativeOrder, NEW n \in 1 .. MaxPiece, TextFrame(n)
    PROVE  NativeOrder'
<1> SUFFICES ASSUME ~script.fence, (Ok \/ Sails)' PROVE NativeOrder'
  BY DEF NativeOrder, TextFrame
<1> DEFINE piece == [i \in 1 .. n |-> script.items[pos + i].val]
           d == Content(Writer, flt, piece)
           s == script.items
<1>1. /\ Running /\ ~up.finishSent /\ pos + n <= Len(s)
      /\ \A i \in 1 .. n : s[pos + i].kind = "text"
      /\ pos' = pos + n
      /\ UNCHANGED <<proto, script, errored, gone, result>>
      /\ IF up.stitch # <<>>
         THEN up' = [up EXCEPT !.deferred = @ \o piece] /\ UNCHANGED <<flt, out, client>>
         ELSE flt' = d.f /\ Put(d.w) /\ UNCHANGED up
  BY DEF TextFrame
<1>2. StreamTyped /\ s \in Seq(Items) /\ Len(s) \in Nat /\ pos \in Nat /\ pos <= Len(s)
      /\ InStep(Writer) /\ Writer.o = out /\ Writer.c = client /\ up \in Ups
  BY ScriptIs DEF StreamInv, StreamTyped, Writer
<1>3. n \in Nat /\ n >= 1
  BY ReplyAssumption
<1>4. piece \in Txt /\ SaidBy(s, pos + n) = SaidBy(s, pos) \o piece
  BY <1>1, <1>2, <1>3, SaidMore
<1> HIDE DEF piece, d, s
<1>5. ~out.err
  <2>1. CASE up.stitch # <<>>
    BY <1>1, <2>1 DEF Sails, Ok, Running
  <2>2. CASE up.stitch = <<>>
    <3>1. Grows(Writer, d.w)
      BY <1>2, <1>4, NativeContent DEF d
    <3>2. out' = d.w.o
      BY <1>1, <2>2 DEF Put
    <3> QED BY <1>1, <1>2, <3>1, <3>2 DEF Grows, Further, Sails, Ok, Running
  <2> QED BY <2>1, <2>2
<1>6. Sails
  BY <1>1, <1>5 DEF Sails, Ok, Running
<1>7. PICK m \in 0 .. pos : FirstHead(m) /\ Unflushed(m)
  BY <1>1, <1>6, OrderHere
<1>8. m \in Nat /\ m <= pos /\ result' # "ok"
  BY <1>1, <1>2 DEF Running
<1>9. /\ \A i \in 1 .. m : s[i].kind # "head"
      /\ m < pos => s[m + 1].kind = "head"
      /\ up.stitch = <<>> <=> m = pos
  BY <1>7 DEF FirstHead, s
<1>10. /\ up.deferred = Behind(s, m, pos) /\ Seen(client) = Texts(SaidBy(s, m))
       /\ ~Late(Writer)
  BY <1>7 DEF Unflushed, TextAfter, TextBefore, s
<1>11. CASE up.stitch # <<>>
  <2>1. m < pos /\ m \in 0 .. pos' /\ m < pos' /\ m # pos'
    BY <1>1, <1>2, <1>3, <1>8, <1>9, <1>11
  <2>2. /\ up' = [up EXCEPT !.deferred = up.deferred \o piece] /\ client' = client /\ out' = out
        /\ proto' = proto /\ script' = script
    BY <1>1, <1>11
  <2>3. up'.stitch = up.stitch /\ up'.deferred = up.deferred \o piece /\ ~up'.finishSent
    BY <1>1, <1>2, <2>2 DEF Ups
  <2>4. Behind(s, m, pos + n) = Behind(s, m, pos) \o piece
    <3>1. Behind(s, m, pos + n) = Behind(s, m, pos) \o [i \in 1 .. n |-> s[pos + i].val]
      BY <1>1, <1>2, <1>3, <1>8, BehindFrame
    <3> QED BY <3>1 DEF piece, s
  <2>5. up'.deferred = Behind(s, m, pos')
    BY <1>1, <1>10, <2>3, <2>4
  <2>6. ~(proto' = "anthropic" /\ out'.open = "call")
    BY <1>2, <1>10, <2>2 DEF Late
  <2> QED BY <1>8, <1>9, <1>10, <1>11, <2>1, <2>2, <2>3, <2>5, <2>6, OrderNext DEF s
<1>12. CASE up.stitch = <<>>
  <2> DEFINE k == pos + n
  <2>1. m = pos /\ k \in 0 .. pos' /\ k = pos'
    BY <1>1, <1>2, <1>3, <1>9, <1>12
  <2>2. client' = d.w.c /\ out' = d.w.o /\ up' = up /\ proto' = proto /\ script' = script
    BY <1>1, <1>12 DEF Put
  <2>3. ~d.w.o.err
    BY <2>2, <1>1 DEF Sails, Ok, Running
  <2>4. ~Writer.o.done
    BY <1>6, Sailing
  <2>5. Seen(d.w.c) = Seen(client) \o Texts(piece) /\ ~Late(d.w)
    <3>1. /\ ~Late(Writer) => Seen(d.w.c) = Seen(Writer.c) \o Texts(piece) /\ ~Late(d.w)
      BY <1>2, <1>4, <2>3, <2>4, ContentSeen DEF d
    <3> QED BY <1>2, <1>10, <3>1
  <2>6. Texts(SaidBy(s, k)) = Texts(SaidBy(s, pos)) \o Texts(piece)
    <3> DEFINE a == SaidBy(s, pos)
    <3>1. a \in Txt
      BY <1>2, SaidTyped
    <3> HIDE DEF a
    <3>2. Texts(a \o piece) = Texts(a) \o Texts(piece)
      BY <1>4, <3>1, TextsJoined
    <3> QED BY <1>4, <3>2 DEF a
  <2>7. Seen(client') = Texts(SaidBy(s, k))
    BY <1>10, <2>1, <2>2, <2>5, <2>6
  <2>8. \A i \in 1 .. k : s[i].kind # "head"
    <3> SUFFICES ASSUME NEW i \in 1 .. k PROVE s[i].kind # "head"
      OBVIOUS
    <3>1. CASE i <= m
      BY <1>8, <1>9, <3>1
    <3>2. CASE i > m
      <4> DEFINE j == i - pos
      <4>1. j \in 1 .. n /\ pos + j = i
        BY <1>2, <1>3, <2>1, <3>2
      <4> HIDE DEF j
      <4>2. s[pos + j].kind = "text"
        BY <1>1, <4>1
      <4> QED BY <4>1, <4>2
    <3> QED BY <1>8, <3>1, <3>2
  <2>9. up'.deferred = Behind(s, k, pos')
    <3>1. Behind(s, pos, pos) = <<>>
      BY <1>2, BehindNone
    <3>2. k \in Nat
      BY <1>2, <1>3
    <3> HIDE DEF k
    <3>3. Behind(s, k, k) = <<>>
      BY <3>2, BehindNone
    <3> QED BY <1>10, <2>1, <2>2, <3>1, <3>3
  <2>10. ~(proto' = "anthropic" /\ out'.open = "call")
    BY <2>2, <2>5 DEF Late
  <2>11. ~(k < pos') /\ (up'.stitch = <<>> <=> k = pos') /\ ~up'.finishSent
    BY <1>1, <1>2, <1>3, <1>12, <2>1, <2>2
  <2> HIDE DEF k
  <2> QED BY <1>8, <2>1, <2>2, <2>7, <2>8, <2>9, <2>10, <2>11, OrderNext DEF s
<1> QED BY <1>11, <1>12

-----------------------------------------------------------------------------
(* The order, past calls and to the end *)

\* A step past an item that is not text.
LEMMA OrderPast ==
    ASSUME StreamInv, NativeOrder, Sails, ~script.fence, ~up.finishSent,
           pos < Len(script.items), pos' = pos + 1, Item.kind # "text", UNCHANGED <<proto, script>>,
           up'.deferred = up.deferred, ~up'.finishSent, result' # "ok",
           up'.stitch = <<>> <=> up.stitch = <<>> /\ Item.kind # "head",
           Seen(client') = Seen(client),
           proto = "anthropic" /\ out'.open = "call" => out.open = "call"
    PROVE  NativeOrder'
<1> DEFINE s == script.items
           k == pos + 1
<1>1. /\ s \in Seq(Items) /\ Len(s) \in Nat /\ pos \in Nat /\ Writer.o = out
  BY Sailing
<1>2. PICK m \in 0 .. pos : FirstHead(m) /\ Unflushed(m)
  BY OrderHere
<1>3. m \in Nat /\ m <= pos /\ k \in Nat /\ k \in 1 .. Len(s) /\ k - 1 = pos /\ pos < k /\ pos' = k
  BY <1>1, <1>2
<1>4. Item = s[k]
  BY DEF Item
<1> HIDE DEF s, k
<1>5. /\ \A i \in 1 .. m : s[i].kind # "head"
      /\ m < pos => s[m + 1].kind = "head"
      /\ up.stitch = <<>> <=> m = pos
  BY <1>2 DEF FirstHead, s
<1>6. /\ up.deferred = Behind(s, m, pos) /\ Seen(client) = Texts(SaidBy(s, m))
      /\ ~Late(Writer)
  BY <1>2 DEF Unflushed, TextAfter, TextBefore, s
<1>7. ~(proto' = "anthropic" /\ out'.open = "call")
  BY <1>1, <1>6 DEF Late
<1>8. Behind(s, m, k) = Behind(s, m, pos)
  <2>1. pos < Len(s) /\ s[pos + 1].kind # "text" /\ k = pos + 1
    BY <1>4 DEF s, k
  <2> QED BY <1>1, <1>3, <2>1, BehindMore
<1>9. CASE m < pos \/ Item.kind = "head"
  <2>1. m < pos' /\ m \in 0 .. pos' /\ m # pos'
    BY <1>1, <1>3
  <2>2. s[m + 1].kind = "head"
    <3>1. CASE m < pos
      BY <1>5, <3>1
    <3>2. CASE m = pos
      <4>1. m + 1 = k /\ Item.kind = "head"
        BY <1>9, <3>2 DEF k
      <4> QED BY <1>4, <4>1
    <3> QED BY <1>1, <1>3, <3>1, <3>2
  <2>3. up'.stitch # <<>>
    BY <1>1, <1>3, <1>5, <1>9
  <2>4. up'.deferred = Behind(s, m, pos')
    BY <1>3, <1>6, <1>8
  <2>5. Seen(client') = Texts(SaidBy(s, m))
    BY <1>6
  <2> QED BY <1>5, <1>7, <2>1, <2>2, <2>3, <2>4, <2>5, OrderNext DEF s
<1>10. CASE m = pos /\ Item.kind # "head"
  <2>1. k \in 0 .. pos' /\ k = pos' /\ ~(k < pos')
    BY <1>3
  <2>2. up'.stitch = <<>>
    BY <1>5, <1>10
  <2>3. SaidBy(s, k) = SaidBy(s, pos)
    BY <1>1, <1>3, <1>4, SaidByIs
  <2>4. Seen(client') = Texts(SaidBy(s, k))
    BY <1>6, <1>10, <2>3
  <2>5. \A i \in 1 .. k : s[i].kind # "head"
    <3> SUFFICES ASSUME NEW i \in 1 .. k PROVE s[i].kind # "head"
      OBVIOUS
    <3>1. i \in 1 .. m \/ i = k
      BY <1>3, <1>10
    <3> QED BY <1>4, <1>5, <1>10, <3>1
  <2>6. up'.deferred = Behind(s, k, pos')
    <3>1. Behind(s, pos, pos) = <<>> /\ Behind(s, k, k) = <<>>
      BY <1>1, <1>3, BehindNone
    <3> QED BY <1>6, <1>10, <2>1, <3>1
  <2> QED BY <1>7, <2>1, <2>2, <2>4, <2>5, <2>6, OrderNext DEF s
<1> QED BY <1>1, <1>3, <1>9, <1>10

LEMMA ThinkFrameOrder == ASSUME StreamInv, NativeOrder, ThinkFrame PROVE NativeOrder'
<1> SUFFICES ASSUME ~script.fence, (Ok \/ Sails)' PROVE NativeOrder'
  BY DEF NativeOrder, ThinkFrame
<1> DEFINE v == IF out.err THEN Writer ELSE Show(Writer, Item)
<1>1. /\ Running /\ ~up.finishSent /\ pos < Len(script.items) /\ Item.kind = "think"
      /\ pos' = pos + 1 /\ Put(v)
      /\ UNCHANGED <<proto, script, up, flt, errored, gone, result>>
  BY DEF ThinkFrame
<1>2. StreamTyped /\ InStep(Writer) /\ Writer.c = client /\ Writer.o = out
  BY DEF StreamInv, StreamTyped, Writer
<1>3. Item \in Shows
  <2>1. Item \in Items /\ Item.val \in Val
    BY <1>1, <1>2, NextSaid
  <2> QED BY <1>1, <2>1 DEF Items, Shows
<1>4. ~v.o.err /\ ~errored
  BY <1>1 DEF Put, Sails, Ok, Running
<1>5. ~out.err
  BY <1>2, <1>4
<1>6. Sails
  BY <1>1, <1>4, <1>5 DEF Sails
<1>7. ~Writer.o.done
  BY <1>6, Sailing
<1>8. v = Show(Writer, Item)
  BY <1>5
<1> HIDE DEF v
<1>9. Seen(v.c) = Seen(Writer.c) /\ (Late(v) <=> Late(Writer))
  <2> HIDE DEF Item
  <2> QED BY <1>1, <1>2, <1>3, <1>4, <1>7, <1>8, ShowSeen
<1>10. client' = v.c /\ out' = v.o
  BY <1>1 DEF Put
<1>11. Seen(client') = Seen(client) /\ (proto = "anthropic" /\ out'.open = "call" => out.open = "call")
  BY <1>2, <1>9, <1>10 DEF Late
<1>12. Item.kind # "text" /\ Item.kind # "head" /\ result' # "ok" /\ up' = up
  BY <1>1 DEF Running
<1> QED BY <1>1, <1>6, <1>11, <1>12, OrderPast

LEMMA CallFrameOrder == ASSUME StreamInv, NativeOrder, CallFrame PROVE NativeOrder'
<1> SUFFICES ASSUME ~script.fence, (Ok \/ Sails)' PROVE NativeOrder'
  BY DEF NativeOrder, CallFrame
<1> DEFINE s == up.stitch
           a == Append(s, [call |-> Item.val, whole |-> FALSE])
           b == [i \in DOMAIN s |-> IF s[i].call = Item.val
                                    THEN [s[i] EXCEPT !.whole = TRUE] ELSE s[i]]
           t == IF Item.kind = "head" THEN a ELSE b
<1>1. /\ Running /\ ~up.finishSent /\ pos < Len(script.items) /\ Item.kind \in {"head", "args"}
      /\ pos' = pos + 1 /\ up' = [up EXCEPT !.stitch = t]
      /\ UNCHANGED <<proto, script, flt, out, client, errored, gone, result>>
  BY DEF CallFrame
<1>2. up \in Ups
  BY DEF StreamInv, StreamTyped
<1>3. Sails
  BY <1>1 DEF Sails, Ok, Running
<1> DEFINE X == [call : STRING, whole : BOOLEAN]
<1>4. s \in Seq(X)
  BY <1>2 DEF Ups, Stitches
<1>5. a # <<>>
  <2>1. Len(a) = Len(s) + 1 /\ Len(s) \in Nat
    BY <1>4
  <2> HIDE DEF a
  <2>2. Len(<<>>) = 0
    OBVIOUS
  <2> QED BY <2>1, <2>2
<1>6. b = <<>> <=> s = <<>>
  <2>1. DOMAIN b = DOMAIN s
    OBVIOUS
  <2>2. s = <<>> <=> DOMAIN s = {}
    <3> HIDE DEF X, s
    <3> QED BY <1>4
  <2>3. s = <<>> => b = <<>>
    BY <2>2
  <2> QED BY <2>1, <2>2, <2>3
<1> HIDE DEF a, b, s, X
<1>7. t = <<>> <=> s = <<>> /\ Item.kind # "head"
  BY <1>1, <1>5, <1>6
<1> HIDE DEF t
<1>8. up'.stitch = t /\ up'.deferred = up.deferred /\ up'.finishSent = up.finishSent
  BY <1>1, <1>2 DEF Ups
<1>9. Seen(client') = Seen(client) /\ out'.open = out.open /\ result' # "ok" /\ Item.kind # "text"
  BY <1>1 DEF Running
<1> QED BY <1>1, <1>3, <1>7, <1>8, <1>9, OrderPast DEF s

LEMMA DoneEventOrder == ASSUME StreamInv, NativeOrder, DoneEvent PROVE NativeOrder'
<1> SUFFICES ASSUME ~script.fence, (Ok \/ Sails)' PROVE NativeOrder'
  BY DEF NativeOrder, DoneEvent
<1> DEFINE d == Content(FlushTools(Writer), flt, up.deferred)
<1>1. /\ Running /\ ~up.finishSent /\ flt' = d.f /\ Put(d.w)
      /\ up' = [up EXCEPT !.finishSent = TRUE, !.finish = "stop", !.deferred = <<>>]
      /\ UNCHANGED <<proto, script, pos, errored, gone, result>>
  BY DEF DoneEvent
<1>2. Grows(Writer, d.w) /\ Writer.o = out /\ up \in Ups
  BY <1>1, FlushedIs DEF Writer, StreamInv, StreamTyped
<1>3. client' = d.w.c /\ out' = d.w.o
  BY <1>1 DEF Put
<1>4. ~d.w.o.err /\ ~errored
  BY <1>1, <1>3 DEF Sails, Ok, Running
<1>5. Sails
  BY <1>1, <1>2, <1>4 DEF Sails, Grows, Further
<1>6. PICK m \in 0 .. pos : FirstHead(m) /\ Unflushed(m)
  BY <1>1, <1>5, OrderHere
<1>7. Seen(d.w.c) = TextBefore(m) \o Stitched
                      \o (IF proto = "anthropic" /\ m < pos THEN <<>> ELSE Texts(TextAfter(m)))
  BY <1>4, <1>5, <1>6, FlushedSeen
<1> HIDE DEF d
<1>8. up'.stitch = up.stitch /\ up'.finishSent
  BY <1>1, <1>2 DEF Ups
<1>9. FirstHead(m)'
  BY <1>1, <1>6, <1>8 DEF FirstHead
<1>10. TextBefore(m)' = TextBefore(m) /\ TextAfter(m)' = TextAfter(m) /\ Stitched' = Stitched
       /\ Seen(client)' = Seen(d.w.c)
  BY <1>1, <1>3, <1>8 DEF TextBefore, TextAfter, Stitched, Seen
<1>11. InOrder(m)'
  BY <1>1, <1>7, <1>10 DEF InOrder
<1> QED BY <1>1, <1>6, <1>8, <1>9, <1>11 DEF NativeOrder

LEMMA EofOrder == ASSUME StreamInv, NativeOrder, Eof PROVE NativeOrder'
<1> SUFFICES ASSUME ~script.fence, (Ok \/ Sails)' PROVE NativeOrder'
  BY DEF NativeOrder, Eof
<1> DEFINE d == Content(FlushTools(Writer), flt, up.deferred)
<1>1. /\ Running
      /\ IF up.finishSent \/ out.err THEN Settle(Writer, flt) ELSE Settle(d.w, d.f)
      /\ UNCHANGED <<proto, script, pos, up, errored, gone>>
  BY DEF Eof
<1>2. Grows(Writer, d.w) /\ d.f = Filter0
  BY <1>1, FlushedIs
<1>3. /\ InStep(Writer) /\ Writer.o = out /\ Writer.c = client
      /\ up.finish \in {"stop", "length"} /\ flt = Filter0
  BY <1>1 DEF Writer, StreamInv, StreamTyped, NativeAgrees, Ups
<1> HIDE DEF d
<1>4. Ok'
  <2>1. result' # "running"
    BY <1>1 DEF Settle, ShutAfter, Shut, Ended, Returned
  <2> QED BY <2>1 DEF Ok, Sails, Running
<1>5. result' = "ok"
  BY <1>4 DEF Ok
<1>6. CASE up.finishSent \/ out.err
  <2>1. Settle(Writer, Filter0)
    BY <1>1, <1>3, <1>6
  <2>2. ~out.err /\ ~errored /\ client'.got = client.got
    BY <1>3, <1>5, <2>1, NativeSettle
  <2>3. Sails /\ up.finishSent
    BY <1>1, <1>6, <2>2 DEF Sails
  <2>4. PICK m \in 0 .. pos : FirstHead(m) /\ InOrder(m)
    BY <2>3, OrderHere
  <2>5. FirstHead(m)'
    BY <1>1, <2>4 DEF FirstHead
  <2>6. TextBefore(m)' = TextBefore(m) /\ TextAfter(m)' = TextAfter(m) /\ Stitched' = Stitched
        /\ Seen(client)' = Seen(client)
    BY <1>1, <2>2 DEF TextBefore, TextAfter, Stitched, Seen
  <2>7. InOrder(m)'
    BY <1>1, <2>4, <2>6 DEF InOrder
  <2> QED BY <1>1, <1>4, <2>4, <2>5, <2>7 DEF NativeOrder
<1>7. CASE ~(up.finishSent \/ out.err)
  <2>1. Settle(d.w, Filter0)
    BY <1>1, <1>2, <1>7
  <2>2. InStep(d.w)
    BY <1>2 DEF Grows
  <2>3. ~d.w.o.err /\ ~errored /\ client'.got = d.w.c.got
    BY <1>3, <1>5, <2>1, <2>2, NativeSettle
  <2>4. Sails
    BY <1>1, <1>7, <2>3 DEF Sails
  <2>5. PICK m \in 0 .. pos : FirstHead(m) /\ Unflushed(m)
    BY <1>7, <2>4, OrderHere
  <2>6. Seen(d.w.c) = TextBefore(m) \o Stitched
                        \o (IF proto = "anthropic" /\ m < pos THEN <<>> ELSE Texts(TextAfter(m)))
    BY <2>3, <2>4, <2>5, FlushedSeen DEF d
  <2>7. FirstHead(m)'
    BY <1>1, <2>5 DEF FirstHead
  <2>8. TextBefore(m)' = TextBefore(m) /\ TextAfter(m)' = TextAfter(m) /\ Stitched' = Stitched
        /\ Seen(client)' = Seen(d.w.c)
    BY <1>1, <2>3 DEF TextBefore, TextAfter, Stitched, Seen
  <2>9. InOrder(m)'
    BY <1>1, <2>6, <2>8 DEF InOrder
  <2> QED BY <1>1, <1>4, <2>5, <2>7, <2>9 DEF NativeOrder
<1> QED BY <1>6, <1>7

-----------------------------------------------------------------------------

OrderInv == StreamInv /\ NativeOrder

LEMMA OrderInit == Init => NativeOrder
<1> SUFFICES ASSUME Init PROVE NativeOrder
  OBVIOUS
<1>1. /\ pos = 0 /\ up.stitch = <<>> /\ up.deferred = <<>> /\ ~up.finishSent
      /\ client.got = <<>> /\ out.open = "none" /\ result = "running"
  BY DEF Init
<1>2. FirstHead(0)
  BY <1>1 DEF FirstHead
<1>3. Behind(script.items, 0, 0) = <<>>
  BY BehindNone
<1>4. SaidBy(script.items, 0) = <<>>
  <2>1. Early(script.items, 0) = <<>>
    BY DEF Early
  <2>2. Tokens(<<>>) = <<>>
    BY DEF Tokens
  <2> QED BY <2>1, <2>2, OfNone DEF SaidBy
<1>5. Texts(<<>>) = <<>>
  BY DEF Texts
<1>6. Seen(client) = <<>>
  BY <1>1, OfNone DEF Seen
<1>7. Unflushed(0)
  BY <1>1, <1>3, <1>4, <1>5, <1>6 DEF Unflushed, TextAfter, TextBefore, Late, Writer
<1>8. ~Ok /\ 0 \in 0 .. pos
  BY <1>1 DEF Ok
<1> QED BY <1>1, <1>2, <1>7, <1>8 DEF NativeOrder

LEMMA OrderStays == Spec => []OrderInv
<1>1. Init => OrderInv
  BY InvInit, OrderInit DEF OrderInv
<1>2. ASSUME OrderInv, Next PROVE OrderInv'
  <2>1. StreamInv /\ NativeOrder
    BY <1>2 DEF OrderInv
  <2>2. StreamInv'
    BY <1>2, <2>1, StepKeeps
  <2>3. ASSUME NEW n \in 1 .. MaxPiece, TextFrame(n) PROVE NativeOrder'
    BY <2>1, <2>3, TextFrameOrder
  <2>4. NativeOrder'
    BY <1>2, <2>1, <2>3, ThinkFrameOrder, CallFrameOrder, FinishReasonOrder, DoneEventOrder,
       ErrorFrameOrder, EofOrder, CutOrder, LeaveOrder DEF Next
  <2> QED BY <2>2, <2>4 DEF OrderInv
<1>3. NativeOrder /\ UNCHANGED vars => NativeOrder'
  BY OrderStill DEF vars
<1>4. OrderInv /\ [Next]_vars => OrderInv'
  <2>1. OrderInv /\ UNCHANGED vars => StreamInv'
    BY UnchangedKeeps DEF OrderInv
  <2> QED BY <1>2, <1>3, <2>1 DEF OrderInv
<1> QED BY <1>1, <1>4, PTL DEF Spec

\* On every channel with native tools, a reply that is settled has reached its
\* client in the upstream's order: the text before the first call, the calls by
\* their index, the text behind them, of which the Anthropic writer shows none.
THEOREM OrderAlwaysKept == Spec => []OrderKept
<1>1. OrderInv => OrderKept
  <2> SUFFICES ASSUME StreamInv, NativeOrder PROVE OrderKept
    BY DEF OrderInv
  <2>1. StreamTyped
    BY DEF StreamInv
  <2> QED BY <2>1, OrderRead
<1> QED BY <1>1, OrderStays, PTL

-----------------------------------------------------------------------------
(* A text without its blanks *)

\* One token at a time.
Unspacing(s) ==
    \E F \in [0 .. Len(s) -> Txt] :
        /\ F[0] = <<>> /\ F[Len(s)] = Unspaced(s)
        /\ \A k \in 1 .. Len(s) : F[k] = IF s[k] = "sp" THEN F[k - 1] ELSE Append(F[k - 1], s[k])

LEMMA UnspacedSteps ==
    ASSUME NEW s \in Txt
    PROVE  Unspacing(s)
<1> DEFINE n == Len(s)
           A == Txt
           c == <<>>
           g == [x \in A \X (1 .. n) |-> IF s[x[2]] = "sp" THEN x[1] ELSE Append(x[1], s[x[2]])]
           Is(h) == h = [S \in SUBSET DOMAIN s |->
                           IF S = {} THEN c
                           ELSE IF s[Max(S)] = "sp" THEN h[S \ {Max(S)}]
                                ELSE Append(h[S \ {Max(S)}], s[Max(S)])]
           p == CHOOSE h : Is(h)
<1>0. n \in Nat /\ DOMAIN s = 1 .. n
  BY DEF Txt
<1>1. c \in A /\ \A a \in A, k \in 1 .. n :
         (IF s[k] = "sp" THEN a ELSE Append(a, s[k])) \in A
  BY DEF Txt
<1> HIDE DEF n
<1>2. /\ g \in [A \X (1 .. n) -> A]
      /\ \A a \in A, k \in 1 .. n :
            g[<<a, k>>] = IF s[k] = "sp" THEN a ELSE Append(a, s[k])
  <2> HIDE DEF A
  <2> QED BY <1>1
<1> HIDE DEF g, c, A
<1>3. PICK h \in [SUBSET (1 .. n) -> A] : Stepped(n, c, g, h)
  BY <1>0, <1>1, <1>2, FoldExists
<1>4. \A S \in SUBSET (1 .. n) : S # {} => Max(S) \in 1 .. n /\ S \ {Max(S)} \in SUBSET (1 .. n)
  BY <1>0, MaxIs
<1>5. Is(h)
  BY <1>0, <1>2, <1>3, <1>4 DEF Stepped
<1>6. Is(p)
  BY <1>5
<1> HIDE DEF p
<1>7. p[{}] = c
  BY <1>6
<1>8. Follows(n, A, g, p)
  BY <1>0, <1>2, <1>4, <1>6 DEF Follows
<1>9. Unspaced(s) = p[1 .. n]
  <2>1. Unspaced(s) = p[DOMAIN s]
    BY DEF Unspaced, FoldLeft, MapThenFoldSet, p, c
  <2> QED BY <1>0, <2>1
<1> HIDE DEF Is
<1>10. Passes(n, A, c, g, p[1 .. n])
  BY <1>0, <1>1, <1>2, <1>7, <1>8, StepsOfFold
<1>11. PICK F \in [0 .. n -> A] :
         F[0] = c /\ F[n] = p[1 .. n] /\ \A k \in 1 .. n : F[k] = g[<<F[k - 1], k>>]
  BY <1>10 DEF Passes
<1>12. \A k \in 1 .. n : F[k] = IF s[k] = "sp" THEN F[k - 1] ELSE Append(F[k - 1], s[k])
  <2>1. \A k \in 1 .. n : k - 1 \in 0 .. n
    BY <1>0
  <2> QED BY <1>2, <1>11, <2>1
<1> QED BY <1>0, <1>9, <1>11, <1>12 DEF c, A, n, Unspacing

LEMMA UnspacedAppend ==
    ASSUME NEW s \in Txt, NEW x \in Val
    PROVE  /\ Append(s, x) \in Txt /\ Unspaced(s) \in Txt
           /\ Unspaced(Append(s, x)) = IF x = "sp" THEN Unspaced(s) ELSE Append(Unspaced(s), x)
<1> DEFINE n == Len(s)
           t == Append(s, x)
<1>1. /\ n \in Nat /\ t \in Txt /\ Len(t) = n + 1 /\ t[n + 1] = x
      /\ \A k \in 1 .. n : t[k] = s[k]
  BY DEF Txt
<1> HIDE DEF t
<1>2. PICK F \in [0 .. n -> Txt] :
         /\ F[0] = <<>> /\ F[n] = Unspaced(s)
         /\ \A k \in 1 .. n : F[k] = IF s[k] = "sp" THEN F[k - 1] ELSE Append(F[k - 1], s[k])
  <2>1. Unspacing(s)
    BY UnspacedSteps
  <2> QED BY <2>1 DEF Unspacing
<1>3. PICK G \in [0 .. Len(t) -> Txt] :
         /\ G[0] = <<>> /\ G[Len(t)] = Unspaced(t)
         /\ \A k \in 1 .. Len(t) : G[k] = IF t[k] = "sp" THEN G[k - 1] ELSE Append(G[k - 1], t[k])
  <2>1. Unspacing(t)
    BY <1>1, UnspacedSteps
  <2> QED BY <2>1 DEF Unspacing
<1> HIDE DEF n
<1> DEFINE T == {k \in 0 .. n : G[k] = F[k]}
<1>4. 0 \in T
  BY <1>1, <1>2, <1>3
<1>5. ASSUME NEW k \in 1 .. n, k - 1 \in T PROVE k \in T
  <2>1. k \in 1 .. Len(t) /\ k \in 0 .. n /\ t[k] = s[k] /\ G[k - 1] = F[k - 1]
    BY <1>1, <1>5
  <2>2. G[k] = F[k]
    BY <1>2, <1>3, <2>1
  <2> QED BY <2>1, <2>2
<1>6. n \in T
  <2> HIDE DEF T
  <2>1. 0 .. n \subseteq T
    BY <1>1, <1>4, <1>5, UpTo
  <2> QED BY <1>1, <2>1
<1>7. G[n + 1] = IF x = "sp" THEN G[n] ELSE Append(G[n], x)
  <2>1. n + 1 \in 1 .. Len(t) /\ (n + 1) - 1 = n
    BY <1>1
  <2> QED BY <1>1, <1>3, <2>1
<1>8. Unspaced(s) \in Txt
  BY <1>1, <1>2
<1>9. G[n] = Unspaced(s) /\ G[n + 1] = Unspaced(t)
  BY <1>1, <1>2, <1>3, <1>6
<1> QED BY <1>1, <1>7, <1>8, <1>9 DEF t

LEMMA UnspacedNone == Unspaced(<<>>) = <<>>
<1> DEFINE e == <<>>
<1>1. e \in Txt /\ Len(e) = 0
  BY DEF Txt
<1> HIDE DEF e
<1>2. PICK F \in [0 .. Len(e) -> Txt] : F[0] = <<>> /\ F[Len(e)] = Unspaced(e)
  <2>1. Unspacing(e)
    BY <1>1, UnspacedSteps
  <2> QED BY <2>1 DEF Unspacing
<1> QED BY <1>1, <1>2 DEF e

LEMMA UnspacedJoined ==
    ASSUME NEW a \in Txt, NEW b \in Txt
    PROVE  Unspaced(a) \in Txt /\ Unspaced(b) \in Txt /\ Unspaced(a \o b) = Unspaced(a) \o Unspaced(b)
<1> DEFINE n == Len(b)
           P(k) == Unspaced(a \o Early(b, k)) = Unspaced(a) \o Unspaced(Early(b, k))
           T == {k \in 0 .. n : P(k)}
<1>1. \A s \in Txt : Unspaced(s) \in Txt
  <2> SUFFICES ASSUME NEW s \in Txt PROVE Unspaced(s) \in Txt
    OBVIOUS
  <2>1. PICK F \in [0 .. Len(s) -> Txt] : F[Len(s)] = Unspaced(s)
    BY UnspacedSteps DEF Unspacing
  <2>2. Len(s) \in 0 .. Len(s)
    BY DEF Txt
  <2> QED BY <2>1, <2>2
<1>2. n \in Nat
  BY DEF Txt
<1>3. 0 \in T
  <2>1. Early(b, 0) = <<>> /\ a \o <<>> = a
    BY DEF Early, Txt
  <2> DEFINE u == Unspaced(a)
  <2>2. u \o <<>> = u
    <3>1. u \in Txt
      BY <1>1
    <3> HIDE DEF u
    <3> QED BY <3>1 DEF Txt
  <2> HIDE DEF u
  <2>3. u = Unspaced(a)
    BY DEF u
  <2>4. P(0)
    BY <2>1, <2>2, <2>3, UnspacedNone
  <2>5. 0 \in 0 .. n
    BY <1>2
  <2> HIDE DEF P
  <2> QED BY <2>4, <2>5
<1>4. ASSUME NEW k \in 1 .. n, k - 1 \in T PROVE k \in T
  <2> DEFINE c == Early(b, k - 1)
             x == b[k]
  <2>1. Early(b, k) = Append(c, x) /\ c \in Txt /\ x \in Val
    BY FrontMore DEF Txt
  <2>2. Unspaced(a \o c) = Unspaced(a) \o Unspaced(c)
    BY <1>4
  <2> HIDE DEF c, x
  <2>3. a \o Append(c, x) = Append(a \o c, x) /\ a \o c \in Txt
    BY <2>1, AppendJoined, JoinedIs
  <2>4. /\ Unspaced(Append(c, x)) = IF x = "sp" THEN Unspaced(c) ELSE Append(Unspaced(c), x)
        /\ Unspaced(Append(a \o c, x)) = IF x = "sp" THEN Unspaced(a \o c) ELSE Append(Unspaced(a \o c), x)
    BY <2>1, <2>3, UnspacedAppend
  <2>5. Unspaced(a) \in Txt /\ Unspaced(c) \in Txt
    BY <1>1, <2>1
  <2>6. Append(Unspaced(a) \o Unspaced(c), x) = Unspaced(a) \o Append(Unspaced(c), x)
    BY <2>1, <2>5, AppendJoined
  <2>7. Unspaced(a \o Append(c, x)) = Unspaced(a) \o Unspaced(Append(c, x))
    BY <2>2, <2>3, <2>4, <2>6
  <2>8. k \in 0 .. n
    BY <1>2
  <2> QED BY <2>1, <2>7, <2>8
<1>5. 0 .. n \subseteq T
  <2> HIDE DEF T, n
  <2> QED BY <1>2, <1>3, <1>4, UpTo
<1>6. Early(b, n) = b
  BY DEF Early, Txt
<1>7. P(n)
  BY <1>2, <1>5
<1> QED BY <1>1, <1>6, <1>7

\* The same but for blanks.
Level(a, b) == Unspaced(a) = Unspaced(b)

LEMMA LevelJoined ==
    ASSUME NEW a \in Txt, NEW b \in Txt, NEW c \in Txt, NEW d \in Txt, Level(a, b), Level(c, d)
    PROVE  Level(a \o c, b \o d)
<1>1. Unspaced(a \o c) = Unspaced(a) \o Unspaced(c) /\ Unspaced(b \o d) = Unspaced(b) \o Unspaced(d)
  BY UnspacedJoined
<1>2. Unspaced(a) = Unspaced(b) /\ Unspaced(c) = Unspaced(d)
  BY DEF Level
<1>3. Unspaced(a \o c) = Unspaced(b \o d)
  BY <1>1, <1>2
<1> QED BY <1>3 DEF Level

-----------------------------------------------------------------------------
(* A text up to one of its positions *)

LEMMA UptoMore ==
    ASSUME NEW s \in Txt, NEW k \in 1 .. Len(s)
    PROVE  /\ Upto(s, k + 1) = Append(Upto(s, k), s[k]) /\ Upto(s, k) \in Txt /\ s[k] \in Val
<1>1. Len(s) \in Nat /\ k \in Nat /\ k + 1 - 1 = k
  BY DEF Txt
<1>2. Upto(s, k + 1) = Early(s, k) /\ Upto(s, k) = Early(s, k - 1)
  BY <1>1 DEF Upto, Early
<1>3. s \in Seq(Val)
  BY DEF Txt
<1>4. /\ Early(s, k) = Append(Early(s, k - 1), s[k])
      /\ Early(s, k - 1) \in Seq(Val) /\ s[k] \in Val
  BY <1>3, FrontMore
<1> QED BY <1>2, <1>4 DEF Txt

LEMMA UptoFrom ==
    ASSUME NEW s \in Txt, NEW k \in 1 .. (Len(s) + 1), NEW j \in 1 .. (Len(From(s, k)) + 1)
    PROVE  /\ k + j - 1 \in 1 .. (Len(s) + 1)
           /\ Upto(s, k) \o Upto(From(s, k), j) = Upto(s, k + j - 1)
           /\ Upto(s, k) \o From(s, k) = s
<1> DEFINE p == From(s, k)
           u == Upto(s, k)
           m == k + j - 1
<1>1. p \in Txt /\ Len(p) = Len(s) + 1 - k /\ \A i \in 1 .. Len(p) : p[i] = s[k + i - 1]
  BY FromIs
<1>2. u \in Txt /\ Len(u) = k - 1 /\ \A i \in 1 .. (k - 1) : u[i] = s[i]
  BY UptoIs
<1>3. Len(s) \in Nat /\ k \in Nat /\ j \in Nat /\ k >= 1 /\ j >= 1 /\ k <= Len(s) + 1 /\ j <= Len(p) + 1
  BY <1>1 DEF Txt
<1>4. m \in 1 .. (Len(s) + 1)
  BY <1>1, <1>3
<1> DEFINE q == Upto(p, j)
           w == Upto(s, m)
<1>5. q \in Txt /\ Len(q) = j - 1 /\ \A i \in 1 .. (j - 1) : q[i] = p[i]
  BY <1>1, UptoIs
<1>6. w \in Txt /\ Len(w) = m - 1 /\ \A i \in 1 .. (m - 1) : w[i] = s[i]
  BY <1>4, UptoIs
<1> HIDE DEF p, u, q, w
<1>7. u \o q = w
  <2>1. /\ u \o q \in Txt /\ Len(u \o q) = Len(u) + Len(q)
        /\ \A i \in 1 .. Len(u) : (u \o q)[i] = u[i]
        /\ \A i \in 1 .. Len(q) : (u \o q)[Len(u) + i] = q[i]
    BY <1>2, <1>5, JoinedIs
  <2>2. Len(u \o q) = m - 1
    BY <1>2, <1>3, <1>5, <2>1
  <2>3. ASSUME NEW i \in 1 .. (m - 1) PROVE (u \o q)[i] = w[i]
    <3>1. CASE i <= k - 1
      BY <1>2, <1>3, <1>6, <2>1, <3>1
    <3>2. CASE i > k - 1
      <4> DEFINE l == i - (k - 1)
      <4>1. l \in 1 .. (j - 1) /\ Len(u) + l = i /\ k + l - 1 = i /\ l \in 1 .. Len(p) /\ l \in 1 .. Len(q)
        BY <1>2, <1>3, <1>5, <3>2
      <4> HIDE DEF l
      <4>2. (u \o q)[Len(u) + l] = q[l] /\ q[l] = p[l] /\ p[l] = s[k + l - 1]
        BY <1>1, <1>5, <2>1, <4>1
      <4> QED BY <1>6, <4>1, <4>2
    <3>3. i <= k - 1 \/ i > k - 1
      BY <1>3
    <3> QED BY <3>1, <3>2, <3>3
  <2> DEFINE v == u \o q
  <2>4. v \in Txt /\ Len(v) = m - 1 /\ \A i \in 1 .. (m - 1) : v[i] = w[i]
    BY <2>1, <2>2, <2>3
  <2> HIDE DEF v, m
  <2>5. v = w
    BY <1>6, <2>4 DEF Txt
  <2> QED BY <2>5 DEF v
<1>8. u \o p = s
  <2>1. /\ u \o p \in Txt /\ Len(u \o p) = Len(u) + Len(p)
        /\ \A i \in 1 .. Len(u) : (u \o p)[i] = u[i]
        /\ \A i \in 1 .. Len(p) : (u \o p)[Len(u) + i] = p[i]
    BY <1>1, <1>2, JoinedIs
  <2>2. Len(u \o p) = Len(s)
    BY <1>1, <1>2, <1>3, <2>1
  <2>3. ASSUME NEW i \in 1 .. Len(s) PROVE (u \o p)[i] = s[i]
    <3>1. CASE i <= k - 1
      BY <1>2, <1>3, <2>1, <3>1
    <3>2. CASE i > k - 1
      <4> DEFINE l == i - (k - 1)
      <4>1. l \in 1 .. Len(p) /\ Len(u) + l = i /\ k + l - 1 = i
        BY <1>1, <1>2, <1>3, <3>2
      <4> HIDE DEF l
      <4>2. (u \o p)[Len(u) + l] = p[l] /\ p[l] = s[k + l - 1]
        BY <1>1, <2>1, <4>1
      <4> QED BY <4>1, <4>2
    <3>3. i <= k - 1 \/ i > k - 1
      BY <1>3
    <3> QED BY <3>1, <3>2, <3>3
  <2> DEFINE v == u \o p
  <2>4. v \in Txt /\ Len(v) = Len(s) /\ \A i \in 1 .. Len(s) : v[i] = s[i]
    BY <2>1, <2>2, <2>3
  <2> HIDE DEF v
  <2>5. v = s
    BY <2>4 DEF Txt
  <2> QED BY <2>5 DEF v
<1> QED BY <1>4, <1>7, <1>8 DEF p, u, q, w

\* An opening, blanks aside.
LEMMA OpeningLevel ==
    ASSUME NEW s \in Txt, NEW i \in DOMAIN s, s[i] = "fence", Fence(s, i).opens
    PROVE  LET k == Fence(s, i).after
           IN  /\ k \in 1 .. (Len(s) + 1) /\ s[k - 1] = "tool" /\ i \in 1 .. Len(s)
               /\ Upto(s, k) \in Txt /\ Upto(s, i) \in Txt
               /\ Level(Upto(s, i) \o <<"fence", "tool">>, Upto(s, k))
<1> DEFINE k == Fence(s, i).after
           u == Unspaced(Upto(s, i))
<1>1. i \in 1 .. Len(s) /\ Len(s) \in Nat
  BY DEF Txt
<1>2. k \in (i + 1) .. (Len(s) + 1) /\ Opens(s, i, k - 1)
  BY FenceIs
<1> HIDE DEF k
<1>3. k \in Nat /\ k - 1 \in (i + 1) .. Len(s) /\ s[k - 1] = "tool"
      /\ \A j \in (i + 1) .. (k - 2) : s[j] = "sp"
  <2>1. k - 1 - 1 = k - 2
    BY <1>1, <1>2
  <2> QED BY <1>1, <1>2, <2>1 DEF Opens
<1>4. Upto(s, i) \in Txt /\ Upto(s, k) \in Txt /\ u \in Txt
  <2>1. i \in 1 .. (Len(s) + 1) /\ k \in 1 .. (Len(s) + 1)
    BY <1>1, <1>2
  <2>2. Upto(s, i) \in Txt /\ Upto(s, k) \in Txt
    BY <2>1, UptoIs
  <2> QED BY <2>2, UnspacedJoined
<1> DEFINE v == Append(u, "fence")
           n == k - 1 - (i + 1)
           T == {m \in 0 .. n : Unspaced(Upto(s, i + 1 + m)) = v}
<1>5. "fence" \in Val /\ "tool" \in Val /\ "fence" # "sp" /\ "tool" # "sp"
  BY DEF Val
<1>6. n \in Nat /\ i + 1 + n = k - 1
  BY <1>1, <1>3
<1>7. 0 \in T
  <2>1. Upto(s, i + 1) = Append(Upto(s, i), "fence")
    BY <1>1, UptoMore
  <2>2. Unspaced(Upto(s, i + 1)) = v
    BY <1>4, <1>5, <2>1, UnspacedAppend
  <2>3. i + 1 + 0 = i + 1
    BY <1>1
  <2> HIDE DEF v
  <2> QED BY <1>6, <2>2, <2>3
<1>8. ASSUME NEW m \in 1 .. n, m - 1 \in T PROVE m \in T
  <2> DEFINE j == i + 1 + (m - 1)
  <2>1. j \in 1 .. Len(s) /\ j \in (i + 1) .. (k - 2) /\ j + 1 = i + 1 + m /\ m \in 0 .. n
    <3> HIDE DEF T, v
    <3>1. m \in Nat /\ 1 <= m /\ m <= n
      BY <1>6
    <3>2. i \in Nat /\ 1 <= i /\ i + 1 <= k - 1 /\ k - 1 <= Len(s) /\ k \in Nat
      BY <1>1, <1>3
    <3> QED BY <1>1, <3>1, <3>2
  <2>2. Unspaced(Upto(s, j)) = v
    BY <1>8
  <2> HIDE DEF j
  <2>3. s[j] = "sp"
    BY <1>3, <2>1
  <2>4. Upto(s, j + 1) = Append(Upto(s, j), s[j]) /\ Upto(s, j) \in Txt /\ s[j] \in Val
    BY <2>1, UptoMore
  <2>5. Unspaced(Upto(s, j + 1)) = Unspaced(Upto(s, j))
    BY <2>3, <2>4, UnspacedAppend
  <2> HIDE DEF v
  <2> QED BY <2>1, <2>2, <2>5
<1>9. 0 .. n \subseteq T
  <2> HIDE DEF T, n
  <2> QED BY <1>6, <1>7, <1>8, UpTo
<1>10. Unspaced(Upto(s, k - 1)) = v
  <2>1. n \in T
    BY <1>6, <1>9
  <2> HIDE DEF v
  <2> QED BY <1>6, <2>1
<1>11. Unspaced(Upto(s, k)) = Append(v, "tool")
  <2>1. k - 1 \in 1 .. Len(s) /\ k - 1 + 1 = k
    BY <1>1, <1>3
  <2>2. Upto(s, k) = Append(Upto(s, k - 1), "tool") /\ Upto(s, k - 1) \in Txt
    BY <1>3, <2>1, UptoMore
  <2> HIDE DEF v
  <2> QED BY <1>5, <1>10, <2>2, UnspacedAppend
<1>12. Unspaced(Upto(s, i) \o <<"fence", "tool">>) = Append(v, "tool")
  <2> DEFINE a == Upto(s, i)
  <2>1. a \o <<"fence", "tool">> = Append(Append(a, "fence"), "tool")
    <3>1. a \in Txt
      BY <1>4
    <3> HIDE DEF a
    <3> QED BY <1>5, <3>1 DEF Txt
  <2>2. Append(a, "fence") \in Txt /\ Unspaced(Append(a, "fence")) = v
    BY <1>4, <1>5, UnspacedAppend
  <2> HIDE DEF a, v
  <2>3. Unspaced(Append(Append(a, "fence"), "tool")) = Append(v, "tool")
    BY <1>5, <2>2, UnspacedAppend
  <2> QED BY <2>1, <2>3 DEF a
<1>13. k \in 1 .. (Len(s) + 1)
  BY <1>1, <1>3
<1> QED BY <1>1, <1>3, <1>4, <1>11, <1>12, <1>13 DEF Level, k

-----------------------------------------------------------------------------
(* What the filter has shown, and what it keeps *)

\* Nothing of the text is left out or runs into the body of a fence.
Plain(said) == NoResult(said) /\ ~Muddled(said)

\* x: the text shown.  What the filter keeps is what has been said and not
\* shown, but for the opening of the fence it is in.
Kept(x, said, f) ==
    IF f.inTool
    THEN /\ f.pending = <<>>
         /\ \E i \in DOMAIN said :
              /\ said[i] = "fence" /\ Fence(said, i).opens
              /\ f.toolBuf = From(said, Fence(said, i).after) /\ Level(x, Upto(said, i))
    ELSE /\ f.toolBuf = <<>>
         /\ \E k \in 1 .. (Len(said) + 1) : f.pending = From(said, k) /\ Level(x, Upto(said, k))

\* x: the text shown before what f has put out.
Conserved(x, said, f) ==
    ~f.found => \E y \in Txt : f.out = Texts(y) /\ Kept(x \o y, said, f)

\* What comes before a position of a text comes before it in a longer one.
LEMMA UptoJoined ==
    ASSUME NEW s \in Txt, NEW t \in Txt, NEW k \in 1 .. (Len(s) + 1)
    PROVE  Upto(s \o t, k) = Upto(s, k)
<1> DEFINE b == s \o t
           p == Upto(b, k)
           q == Upto(s, k)
<1>1. /\ b \in Txt /\ Len(s) \in Nat /\ Len(t) \in Nat /\ Len(b) = Len(s) + Len(t)
      /\ \A j \in 1 .. Len(s) : b[j] = s[j]
  BY JoinedIs
<1> HIDE DEF b
<1>2. k \in 1 .. (Len(b) + 1) /\ k \in Nat /\ 1 <= k
  BY <1>1
<1>3. p \in Txt /\ Len(p) = k - 1 /\ \A i \in 1 .. (k - 1) : p[i] = b[i]
  BY <1>1, <1>2, UptoIs
<1>4. q \in Txt /\ Len(q) = k - 1 /\ \A i \in 1 .. (k - 1) : q[i] = s[i]
  BY UptoIs
<1>5. \A i \in 1 .. (k - 1) : i \in 1 .. Len(s)
  BY <1>1, <1>2
<1> HIDE DEF p, q
<1>6. \A i \in 1 .. (k - 1) : p[i] = q[i]
  BY <1>1, <1>3, <1>4, <1>5
<1>7. p = q
  <2> DEFINE l == k - 1
  <2> HIDE DEF l
  <2>1. p \in Seq(Val) /\ q \in Seq(Val) /\ Len(p) = l /\ Len(q) = l
        /\ \A i \in 1 .. l : p[i] = q[i]
    BY <1>3, <1>4, <1>6 DEF Txt, l
  <2> QED BY <2>1
<1> QED BY <1>7 DEF p, q, b

LEMMA MuddledMore ==
    ASSUME NEW s \in Txt, NEW t \in Txt, Plain(s \o t)
    PROVE  Plain(s)
<1> DEFINE b == s \o t
<1>1. /\ b \in Txt /\ Len(s) \in Nat /\ Len(t) \in Nat /\ Len(b) = Len(s) + Len(t)
      /\ \A j \in 1 .. Len(s) : b[j] = s[j]
  BY JoinedIs
<1>2. NoResult(b) /\ ~Muddled(b)
  BY DEF Plain
<1>3. NoResult(s)
  <2> HIDE DEF b
  <2>1. \A j \in 1 .. Len(s) : j \in 1 .. Len(b)
    BY <1>1
  <2> QED BY <1>1, <1>2, <2>1 DEF NoResult
<1>4. ASSUME Muddled(s) PROVE FALSE
  <2>1. PICK i \in DOMAIN s :
          LET body == Fence(s, i).after
              next == NextFence(s, body)
          IN  /\ s[i] = "fence" /\ Fence(s, i).opens
              /\ next.opens /\ ~IsCallBlock(SubSeq(s, body, next.at - 1))
    BY <1>4 DEF Muddled
  <2> DEFINE k == Fence(s, i).after
             n == NextFence(s, k)
  <2>2. i \in DOMAIN b /\ b[i] = s[i] /\ Fence(b, i) = Fence(s, i)
    BY <2>1, OpensMore
  <2>3. k \in (i + 1) .. (Len(s) + 1) /\ i \in Nat /\ 1 <= i
    BY FenceIs DEF Txt
  <2>4. s[i] = "fence" /\ Fence(s, i).opens /\ n.opens /\ ~IsCallBlock(SubSeq(s, k, n.at - 1))
    BY <2>1
  <2> HIDE DEF k
  <2>5. k \in 1 .. (Len(s) + 1) /\ k \in Nat /\ 1 <= k
    BY <1>1, <2>3
  <2>6. /\ n.at \in k .. Len(s) /\ s[n.at] = "fence" /\ n = Fence(s, n.at)
        /\ \A j \in k .. (n.at - 1) : s[j] # "fence"
    <3>1. \/ n = NoFence
          \/ /\ n.at \in k .. Len(s) /\ s[n.at] = "fence" /\ n = Fence(s, n.at)
             /\ \A j \in k .. (n.at - 1) : s[j] # "fence"
      BY <2>5, NextFenceIs
    <3> HIDE DEF n
    <3> QED BY <2>4, <3>1 DEF NoFence
  <2> DEFINE at == n.at
             m == NextFence(b, k)
  <2>7. at \in DOMAIN s /\ Fence(s, at).opens
    <3>1. at \in 1 .. Len(s)
      BY <1>1, <2>5, <2>6
    <3>2. Fence(s, at) = n
      BY <2>6
    <3> HIDE DEF at, n
    <3> QED BY <2>4, <3>1, <3>2 DEF Txt
  <2>8. at \in DOMAIN b /\ b[at] = s[at] /\ Fence(b, at) = Fence(s, at)
    <3> HIDE DEF at
    <3> QED BY <2>7, OpensMore
  <2>9. \/ m = NoFence /\ \A j \in k .. Len(b) : b[j] # "fence"
        \/ /\ m.at \in k .. Len(b) /\ b[m.at] = "fence" /\ m = Fence(b, m.at)
           /\ \A j \in k .. (m.at - 1) : b[j] # "fence"
    <3>1. k \in 1 .. (Len(b) + 1)
      <4> HIDE DEF b
      <4> QED BY <1>1, <2>5
    <3> HIDE DEF b
    <3> QED BY <1>1, <3>1, NextFenceIs
  <2>10. at \in k .. Len(b) /\ b[at] = "fence" /\ at \in 1 .. Len(s)
    <3>1. at \in k .. Len(s) /\ s[at] = "fence"
      BY <2>6
    <3> HIDE DEF at, b
    <3> QED BY <1>1, <2>5, <2>8, <3>1
  <2>11. \A j \in k .. (at - 1) : b[j] # "fence"
    <3>1. \A j \in k .. (at - 1) : s[j] # "fence"
      BY <2>6
    <3> HIDE DEF at, b
    <3>2. \A j \in k .. (at - 1) : j \in 1 .. Len(s)
      BY <1>1, <2>5, <2>10
    <3> QED BY <1>1, <3>1, <3>2
  <2> HIDE DEF m
  <2>12. m.at = at /\ m = Fence(b, m.at)
    <3> HIDE DEF at, b
    <3>1. m.at \in k .. Len(b) /\ b[m.at] = "fence" /\ m = Fence(b, m.at)
          /\ \A j \in k .. (m.at - 1) : b[j] # "fence"
      BY <2>9, <2>10
    <3> DEFINE c == m.at
    <3> HIDE DEF c
    <3>2. c \in k .. Len(b) /\ b[c] = "fence" /\ \A j \in k .. (c - 1) : b[j] # "fence"
      BY <3>1 DEF c
    <3>3. ~(c < at) /\ ~(at < c)
      BY <1>1, <2>5, <2>10, <2>11, <3>2
    <3>4. c = at
      BY <1>1, <2>5, <2>10, <3>2, <3>3
    <3> QED BY <3>1, <3>4 DEF c
  <2>13. m.opens
    <3>1. m = Fence(s, at)
      BY <2>8, <2>12
    <3> HIDE DEF at
    <3> QED BY <2>7, <3>1
  <2>14. SubSeq(b, k, m.at - 1) = SubSeq(s, k, at - 1)
    <3> HIDE DEF at
    <3>1. m.at = at
      BY <2>12
    <3> DEFINE p == SubSeq(b, k, at - 1)
               q == SubSeq(s, k, at - 1)
    <3>2. at \in Nat /\ at - 1 \in Nat /\ at - 1 <= Len(s) /\ at >= k /\ at - 1 - k + 1 = at - k
          /\ at - k \in Nat
      BY <1>1, <2>5, <2>10
    <3>3. q \in Txt /\ Len(q) = at - k /\ \A j \in 1 .. (at - k) : q[j] = s[k + j - 1]
      BY <1>1, <2>5, <3>2 DEF Txt
    <3>4. p \in Txt /\ Len(p) = at - k /\ \A j \in 1 .. (at - k) : p[j] = b[k + j - 1]
      <4> HIDE DEF b
      <4> QED BY <1>1, <2>5, <3>2 DEF Txt
    <3>5. \A j \in 1 .. (at - k) : k + j - 1 \in 1 .. Len(s)
      BY <1>1, <2>5, <3>2
    <3> HIDE DEF p, q, b
    <3>6. \A j \in 1 .. (at - k) : p[j] = q[j]
      BY <1>1, <3>3, <3>4, <3>5
    <3>7. p = q
      <4> DEFINE l == at - k
      <4> HIDE DEF l
      <4>1. p \in Seq(Val) /\ q \in Seq(Val) /\ Len(p) = l /\ Len(q) = l
            /\ \A j \in 1 .. l : p[j] = q[j]
        BY <3>3, <3>4, <3>6 DEF Txt, l
      <4> QED BY <4>1
    <3> QED BY <3>1, <3>7 DEF p, q, b
  <2>15. Muddled(b)
    <3>1. Fence(b, i).after = k /\ Fence(b, i).opens /\ b[i] = "fence"
      BY <2>2, <2>4 DEF k
    <3>2. NextFence(b, k).opens /\ ~IsCallBlock(SubSeq(b, k, NextFence(b, k).at - 1))
      BY <2>4, <2>13, <2>14 DEF m, at
    <3> HIDE DEF b
    <3> QED BY <2>2, <3>1, <3>2 DEF Muddled
  <2> QED BY <1>2, <2>15
<1> QED BY <1>3, <1>4 DEF Plain

\* An opening in the body of a fence ends a call.
LEMMA NotMuddled ==
    ASSUME NEW said \in Txt, ~Muddled(said), NEW i \in DOMAIN said,
           said[i] = "fence", Fence(said, i).opens,
           NEW buf, buf = From(said, Fence(said, i).after),
           NextFence(buf, 1).at # 0, NextFence(buf, 1).opens
    PROVE  IsCallBlock(Upto(buf, NextFence(buf, 1).at))
<1> DEFINE m == Fence(said, i).after
           seen == NextFence(buf, 1)
           at == seen.at
           n == m + at - 1
           ns == NextFence(said, m)
<1>1. Len(said) \in Nat /\ m \in 1 .. (Len(said) + 1) /\ m \in Nat
  <2>1. m \in (i + 1) .. (Len(said) + 1) /\ i \in Nat /\ Len(said) \in Nat
    BY FenceIs DEF Txt
  <2> HIDE DEF m
  <2> QED BY <2>1
<1>2. buf = From(said, m)
  OBVIOUS
<1> HIDE DEF m
<1>3. /\ buf \in Txt /\ Len(buf) = Len(said) + 1 - m /\ Len(buf) \in Nat
      /\ \A j \in 1 .. Len(buf) : buf[j] = said[m + j - 1]
  <2>1. /\ buf \in Txt /\ Len(buf) = Len(said) + 1 - m
        /\ \A j \in 1 .. Len(buf) : buf[j] = said[m + j - 1]
    BY <1>1, <1>2, FromIs
  <2>2. Len(buf) \in Nat
    BY <2>1 DEF Txt
  <2> QED BY <2>1, <2>2
<1>4. /\ at \in 1 .. Len(buf) /\ buf[at] = "fence" /\ Fence(buf, at).opens
      /\ \A j \in 1 .. (at - 1) : buf[j] # "fence"
  <2>1. 1 \in 1 .. (Len(buf) + 1)
    BY <1>3
  <2>2. \/ seen = NoFence
        \/ /\ seen.at \in 1 .. Len(buf) /\ buf[seen.at] = "fence" /\ seen = Fence(buf, seen.at)
           /\ \A j \in 1 .. (seen.at - 1) : buf[j] # "fence"
    BY <1>3, <2>1, NextFenceIs
  <2>3. seen.at # 0 /\ seen.opens
    OBVIOUS
  <2> HIDE DEF seen
  <2> QED BY <2>2, <2>3 DEF NoFence
<1> HIDE DEF at
<1>5. /\ n \in DOMAIN said /\ Fence(said, n).opens /\ Fence(said, n).at = n
      /\ said[n] = "fence" /\ n \in m .. Len(said)
  <2>1. at \in 1 .. Len(From(said, m)) /\ Fence(From(said, m), at).opens
    BY <1>2, <1>4
  <2>2. n \in DOMAIN said /\ Fence(said, n) = [at |-> n, opens |-> TRUE,
                                 after |-> m + Fence(From(said, m), at).after - 1]
    BY <1>1, <2>1, FenceFrom
  <2>3. said[n] = "fence"
    BY <1>3, <1>4
  <2>4. n \in m .. Len(said)
    BY <1>1, <1>3, <1>4
  <2> QED BY <2>2, <2>3, <2>4
<1>6. \A j \in m .. (n - 1) : said[j] # "fence"
  <2> SUFFICES ASSUME NEW j \in m .. (n - 1) PROVE said[j] # "fence"
    OBVIOUS
  <2> DEFINE l == j - m + 1
  <2>1. l \in 1 .. (at - 1) /\ l \in 1 .. Len(buf) /\ m + l - 1 = j
    BY <1>1, <1>3, <1>4
  <2> HIDE DEF l
  <2> QED BY <1>3, <1>4, <2>1
<1>7. ns.at = n /\ ns = Fence(said, ns.at)
  <2>1. \/ ns = NoFence /\ \A j \in m .. Len(said) : said[j] # "fence"
        \/ /\ ns.at \in m .. Len(said) /\ said[ns.at] = "fence" /\ ns = Fence(said, ns.at)
           /\ \A j \in m .. (ns.at - 1) : said[j] # "fence"
    BY <1>1, NextFenceIs
  <2> HIDE DEF ns, n
  <2>2. /\ ns.at \in m .. Len(said) /\ said[ns.at] = "fence" /\ ns = Fence(said, ns.at)
        /\ \A j \in m .. (ns.at - 1) : said[j] # "fence"
    BY <1>5, <2>1
  <2> DEFINE c == ns.at
  <2> HIDE DEF c
  <2>3. c \in m .. Len(said) /\ said[c] = "fence" /\ \A j \in m .. (c - 1) : said[j] # "fence"
    BY <2>2 DEF c
  <2>4. c = n
    BY <1>1, <1>5, <1>6, <2>3
  <2> QED BY <2>2, <2>4 DEF c
<1>8. SubSeq(said, m, n - 1) = Upto(buf, at)
  <2> DEFINE p == SubSeq(said, m, n - 1)
             q == Upto(buf, at)
  <2>1. at \in 1 .. (Len(buf) + 1)
    BY <1>3, <1>4
  <2>2. q \in Txt /\ Len(q) = at - 1 /\ \A j \in 1 .. (at - 1) : q[j] = buf[j]
    BY <1>3, <2>1, UptoIs
  <2>3. m \in Nat /\ 1 <= m /\ at \in Nat /\ 1 <= at /\ n - 1 <= Len(said) /\ n - 1 = m + (at - 1) - 1
    BY <1>1, <1>3, <1>4, <1>5
  <2>4. p \in Txt /\ Len(p) = at - 1 /\ \A j \in 1 .. (at - 1) : p[j] = said[m + j - 1]
    BY <1>1, <2>3 DEF Txt
  <2>5. \A j \in 1 .. (at - 1) : j \in 1 .. Len(buf)
    BY <1>3, <1>4
  <2> HIDE DEF p, q, n
  <2>6. \A j \in 1 .. (at - 1) : p[j] = q[j]
    BY <1>3, <2>2, <2>4, <2>5
  <2>7. p = q
    <3> DEFINE l == at - 1
    <3> HIDE DEF l
    <3>1. p \in Seq(Val) /\ q \in Seq(Val) /\ Len(p) = l /\ Len(q) = l
          /\ \A j \in 1 .. l : p[j] = q[j]
      BY <2>2, <2>4, <2>6 DEF Txt, l
    <3> QED BY <3>1
  <2> QED BY <2>7 DEF p, q
<1>9. ns.opens
  BY <1>5, <1>7
<1>10. ASSUME ~IsCallBlock(SubSeq(said, m, ns.at - 1)) PROVE FALSE
  <2>1. Muddled(said)
    BY <1>9, <1>10 DEF Muddled, m
  <2> QED BY <2>1
<1>11. ns.at - 1 = n - 1
  BY <1>7
<1> QED BY <1>8, <1>10, <1>11 DEF at

-----------------------------------------------------------------------------
(* Nothing is lost, round by round *)

LEMMA JoinedTwice ==
    ASSUME NEW a \in Txt, NEW b \in Txt, NEW c \in Txt
    PROVE  (a \o b) \o c = a \o (b \o c) /\ a \o b \in Txt /\ b \o c \in Txt
BY DEF Txt

\* More is shown, as much as the filter gives up.
LEMMA LevelOn ==
    ASSUME NEW x \in Txt, NEW y \in Txt, NEW s \in Txt, NEW a \in Txt, NEW b \in Txt,
           Level(x \o y, a), Level(s, b)
    PROVE  y \o s \in Txt /\ Level(x \o (y \o s), a \o b)
<1>1. (x \o y) \o s = x \o (y \o s) /\ x \o y \in Txt /\ y \o s \in Txt
  BY JoinedTwice
<1> DEFINE xy == x \o y
<1> HIDE DEF xy
<1>2. xy \in Txt /\ Level(xy, a)
  BY <1>1 DEF xy
<1>3. Level(xy \o s, a \o b)
  BY <1>2, LevelJoined
<1> QED BY <1>1, <1>3 DEF xy

LEMMA LevelItself == \A s : Level(s, s)
BY DEF Level

LEMMA EmitPlain ==
    ASSUME NEW f \in Filters, NEW y \in Txt, f.out = Texts(y), NEW s \in Txt
    PROVE  /\ Emit(f, Texts(s)) = [f EXCEPT !.out = Texts(y \o s)]
           /\ Emit(f, Texts(s)).out = Texts(y \o s)
<1>1. Texts(y \o s) = Texts(y) \o Texts(s)
  BY TextsJoined
<1> DEFINE o2 == Texts(y \o s)
<1>2. f.out \o Texts(s) = o2
  BY <1>1
<1> HIDE DEF o2
<1>3. Emit(f, Texts(s)) = [f EXCEPT !.out = o2]
  BY <1>2 DEF Emit
<1>4. [f EXCEPT !.out = o2].out = o2
  BY DEF Filters
<1> QED BY <1>3, <1>4 DEF o2

LEMMA ScanConserves ==
    ASSUME NEW x \in Txt, NEW said \in Txt, NEW f, Sound(FALSE, f), ~f.inTool, Held(said, f),
           Plain(said), Conserved(x, said, f)
    PROVE  Conserved(x, said, ScanText(f))
<1> DEFINE p == f.pending
           line == ParseBracketCallLine(p)
           rest == WithoutResultLine(p)
           open == FindTolerantOpener(rest)
           cut == CutLineHead(rest)
           g == ScanText(f)
<1>1. /\ g = CASE line.ok ->
                   [Emit(f, ShownBy(f, line.pre) \o <<Call(line.call)>>)
                      EXCEPT !.found = TRUE, !.inPost = TRUE, !.pending = line.post]
               [] ~line.ok /\ open.at > 0 ->
                   [Emit(f, ShownBy(f, Upto(rest, open.at)))
                      EXCEPT !.toolBuf = From(rest, open.after), !.pending = <<>>, !.inTool = TRUE]
               [] OTHER -> [Emit(f, ShownBy(f, cut.head)) EXCEPT !.pending = cut.rest, !.go = "no"]
  BY DEF ScanText, ShownBy
<1>2. f \in Filters /\ p \in Txt /\ Len(p) \in Nat /\ NoResult(said) /\ Len(said) \in Nat
  BY DEF Sound, Filters, Txt, Plain
<1> HIDE DEF line, g
<1>3. line.ok => g.found
  <2> SUFFICES ASSUME line.ok PROVE g.found
    OBVIOUS
  <2> DEFINE items == ShownBy(f, line.pre) \o <<Call(line.call)>>
  <2>1. g = [Emit(f, items) EXCEPT !.found = TRUE, !.inPost = TRUE, !.pending = line.post]
    BY <1>1
  <2> HIDE DEF items
  <2> DEFINE o2 == f.out \o items
  <2>2. Emit(f, items) = [f EXCEPT !.out = o2]
    BY DEF Emit
  <2> HIDE DEF o2
  <2> QED BY <1>2, <2>1, <2>2 DEF Filters
<1>4. CASE line.ok
  BY <1>3, <1>4 DEF Conserved, g
<1>5. CASE ~line.ok /\ f.found
  <2> DEFINE a == ShownBy(f, Upto(rest, open.at))
             b == ShownBy(f, cut.head)
  <2>1. \A items : Emit(f, items).found /\ DOMAIN Emit(f, items) = DOMAIN f
    BY <1>2, <1>5 DEF Emit, Filters
  <2>2. CASE open.at > 0
    <3>1. g = [Emit(f, a) EXCEPT !.toolBuf = From(rest, open.after), !.pending = <<>>, !.inTool = TRUE]
      BY <1>1, <1>5, <2>2
    <3> DEFINE e == Emit(f, a)
    <3>2. e.found
      BY <2>1
    <3> HIDE DEF e
    <3>3. g.found
      BY <3>1, <3>2 DEF e
    <3> QED BY <3>3 DEF Conserved, g
  <2>3. CASE ~(open.at > 0)
    <3>1. g = [Emit(f, b) EXCEPT !.pending = cut.rest, !.go = "no"]
      BY <1>1, <1>5, <2>3
    <3> DEFINE e == Emit(f, b)
    <3>2. e.found
      BY <2>1
    <3> HIDE DEF e
    <3>3. g.found
      BY <3>1, <3>2 DEF e
    <3> QED BY <3>3 DEF Conserved, g
  <2> QED BY <2>2, <2>3
<1>6. CASE ~line.ok /\ ~f.found
  <2>1. PICK y \in Txt : f.out = Texts(y) /\ Kept(x \o y, said, f)
    BY <1>6 DEF Conserved
  <2>2. f.toolBuf = <<>>
    BY <2>1 DEF Kept
  <2>3. PICK k \in 1 .. (Len(said) + 1) : p = From(said, k) /\ Level(x \o y, Upto(said, k))
    BY <2>1 DEF Kept
  <2>4. ~f.inPost
    BY <1>6 DEF Sound
  <2>5. Upto(said, k) \in Txt /\ Len(p) = Len(said) + 1 - k /\ \A i \in 1 .. Len(p) : p[i] = said[k + i - 1]
    BY <2>3, UptoIs, FromIs
  <2>6. rest = p
    <3>1. \A i \in 1 .. Len(p) : k + i - 1 \in 1 .. Len(said)
      BY <1>2, <2>5
    <3>2. \A i \in 1 .. Len(p) : p[i] # "result"
      BY <1>2, <2>5, <3>1 DEF NoResult
    <3> HIDE DEF p
    <3> QED BY <1>2, <3>2, WithoutResultIs
  <2> HIDE DEF rest, open, cut, p
  <2>7. \A s \in Txt : ShownBy(f, s) = Texts(s)
    BY <2>4 DEF ShownBy
  \* giving up what comes before j
  <2>8. ASSUME NEW j \in 1 .. (Len(p) + 1)
        PROVE  /\ Upto(p, j) \in Txt /\ y \o Upto(p, j) \in Txt
               /\ k + j - 1 \in 1 .. (Len(said) + 1)
               /\ Level(x \o (y \o Upto(p, j)), Upto(said, k + j - 1))
    <3>1. Upto(p, j) \in Txt
      BY <1>2, UptoIs
    <3>2. /\ Upto(said, k) \o Upto(p, j) = Upto(said, k + j - 1)
          /\ k + j - 1 \in 1 .. (Len(said) + 1)
      <4>1. j \in 1 .. (Len(From(said, k)) + 1)
        BY <2>3
      <4> QED BY <2>3, <4>1, UptoFrom
    <3>3. Level(Upto(p, j), Upto(p, j))
      BY LevelItself
    <3>4. y \o Upto(p, j) \in Txt /\ Level(x \o (y \o Upto(p, j)), Upto(said, k) \o Upto(p, j))
      BY <2>3, <2>5, <3>1, <3>3, LevelOn
    <3> QED BY <3>1, <3>2, <3>4
  <2>9. CASE open.at > 0
    <3> DEFINE at == open.at
               s == Upto(p, at)
               e == Emit(f, Texts(s))
               n == k + at - 1
               after == open.after
               buf == From(p, after)
    <3>1. /\ at \in 1 .. Len(p) /\ p[at] = "fence" /\ open = Fence(p, at) /\ open.opens
          /\ after \in (at + 1) .. (Len(p) + 1)
      <4>1. open # NoFence
        BY <2>9 DEF NoFence
      <4> QED BY <1>2, <2>6, <4>1, OpenerIs DEF open
    <3>2. at \in 1 .. (Len(p) + 1) /\ after \in 1 .. (Len(p) + 1)
      BY <1>2, <3>1
    <3>3. /\ s \in Txt /\ y \o s \in Txt /\ n \in 1 .. (Len(said) + 1) /\ Level(x \o (y \o s), Upto(said, n))
      BY <2>8, <3>2
    <3>4. g = [e EXCEPT !.toolBuf = buf, !.pending = <<>>, !.inTool = TRUE]
      <4>1. ShownBy(f, Upto(rest, open.at)) = Texts(s)
        BY <2>6, <2>7, <3>3
      <4> QED BY <1>1, <1>6, <2>6, <2>9, <4>1
    <3>5. Fence(said, n) = [at |-> n, opens |-> TRUE, after |-> k + after - 1] /\ n \in DOMAIN said
          /\ said[n] = "fence"
      <4>1. at \in 1 .. Len(From(said, k)) /\ Fence(From(said, k), at) = open
            /\ Fence(From(said, k), at).opens
        BY <2>3, <3>1
      <4>2. n \in DOMAIN said /\ Fence(said, n) = [at |-> n, opens |-> TRUE, after |-> k + after - 1]
        BY <2>3, <4>1, FenceFrom
      <4>3. said[n] = "fence"
        BY <2>5, <3>1
      <4> QED BY <4>2, <4>3
    <3>6. buf = From(said, k + after - 1)
      <4>1. after \in 1 .. (Len(From(said, k)) + 1)
        BY <2>3, <3>2
      <4> QED BY <2>3, <4>1, FromFrom
    <3> HIDE DEF s, n, buf, at, after
    <3>7. e = [f EXCEPT !.out = Texts(y \o s)] /\ e.out = Texts(y \o s)
      BY <1>2, <2>1, <3>3, EmitPlain
    <3> HIDE DEF e
    <3>8. g.out = Texts(y \o s) /\ g.toolBuf = buf /\ g.pending = <<>> /\ g.inTool
      BY <1>2, <3>4, <3>7 DEF Filters
    <3>9. Kept(x \o (y \o s), said, g)
      <4>1. Fence(said, n).opens /\ Fence(said, n).after = k + after - 1
        BY <3>5
      <4> QED BY <3>3, <3>5, <3>6, <3>8, <4>1 DEF Kept
    <3> QED BY <3>3, <3>8, <3>9 DEF Conserved, g
  <2>10. CASE ~(open.at > 0)
    <3> DEFINE s == cut.head
               e == Emit(f, Texts(s))
    <3>1. PICK j \in 1 .. (Len(p) + 1) : cut.head = Upto(p, j) /\ cut.rest = From(p, j)
      BY <1>2, <2>6, CutLineIs DEF cut
    <3> DEFINE n == k + j - 1
    <3>2. s \in Txt /\ y \o s \in Txt /\ n \in 1 .. (Len(said) + 1) /\ Level(x \o (y \o s), Upto(said, n))
      BY <2>8, <3>1
    <3>3. g = [e EXCEPT !.pending = cut.rest, !.go = "no"]
      <4>1. ShownBy(f, cut.head) = Texts(s)
        BY <2>7, <3>2
      <4> QED BY <1>1, <1>6, <2>10, <4>1
    <3>4. cut.rest = From(said, n)
      <4>1. j \in 1 .. (Len(From(said, k)) + 1)
        BY <2>3
      <4> QED BY <2>3, <3>1, <4>1, FromFrom
    <3> HIDE DEF s, n
    <3>5. e = [f EXCEPT !.out = Texts(y \o s)] /\ e.out = Texts(y \o s)
      BY <1>2, <2>1, <3>2, EmitPlain
    <3> HIDE DEF e
    <3>6. g.out = Texts(y \o s) /\ g.toolBuf = <<>> /\ g.pending = cut.rest /\ ~g.inTool
      BY <1>2, <2>2, <3>3, <3>5 DEF Filters
    <3>7. Kept(x \o (y \o s), said, g)
      BY <3>2, <3>4, <3>6 DEF Kept
    <3> QED BY <3>2, <3>6, <3>7 DEF Conserved, g
  <2> QED BY <2>9, <2>10
<1>7. f.found \in BOOLEAN /\ line.ok \in BOOLEAN
  <2>1. f.found \in BOOLEAN
    BY <1>2 DEF Filters
  <2>2. line.ok \in BOOLEAN
    BY DEF line, ParseBracketCallLine, NoLine
  <2> QED BY <2>1, <2>2
<1> QED BY <1>4, <1>5, <1>6, <1>7 DEF g

\* What has been found stays found.
LEMMA CloseFound ==
    ASSUME NEW f \in Filters, NEW fence, f.found \/ IsCallBlock(Upto(f.toolBuf, fence.at))
    PROVE  CloseTool(f, fence).found
<1> DEFINE buf == f.toolBuf
           block == Upto(buf, fence.at)
           rest == From(buf, fence.after)
           c == Emit(f, <<Call(Trim(block)[1])>>)
           call == [c EXCEPT !.found = TRUE, !.toolBuf = rest]
           k == Emit(f, IF f.found THEN <<>> ELSE Texts(<<"fence", "tool">> \o block \o <<"fence">>))
           kept == [k EXCEPT !.inPost = f.found]
           done == IF IsCallBlock(block) THEN [call EXCEPT !.inPost = TRUE] ELSE kept
           g == CloseTool(f, fence)
<1>1. g = IF IsCallBlock(block) /\ fence.opens THEN call
          ELSE [done EXCEPT !.inTool = FALSE, !.pending = rest, !.toolBuf = <<>>, !.go = "on"]
  BY DEF CloseTool
<1>2. \A items : Emit(f, items).found = f.found /\ "found" \in DOMAIN Emit(f, items)
  <2> SUFFICES ASSUME NEW items
               PROVE  Emit(f, items).found = f.found /\ "found" \in DOMAIN Emit(f, items)
    OBVIOUS
  <2> DEFINE o2 == f.out \o items
  <2>1. Emit(f, items) = [f EXCEPT !.out = o2]
    BY DEF Emit
  <2> HIDE DEF o2
  <2> QED BY <2>1 DEF Filters
<1>3. "found" \in DOMAIN c /\ "found" \in DOMAIN k /\ k.found = f.found
  BY <1>2
<1>4. f.found \/ IsCallBlock(block)
  OBVIOUS
<1> HIDE DEF c, k, block, rest, g
<1>5. call.found /\ "found" \in DOMAIN call
  BY <1>3
<1>6. kept.found = f.found
  BY <1>3
<1> HIDE DEF call, kept
<1>7. done.found
  BY <1>4, <1>5, <1>6
<1> HIDE DEF done
<1>8. g.found
  BY <1>1, <1>5, <1>7
<1> QED BY <1>8 DEF g

\* A fence whose body is not a call is shown again, mark by mark.
LEMMA CloseConserves ==
    ASSUME NEW x \in Txt, NEW said \in Txt, NEW f, Sound(FALSE, f), f.inTool, Conserved(x, said, f),
           NEW at \in 1 .. Len(f.toolBuf), NEW opens \in BOOLEAN,
           NEW after \in (at + 1) .. (Len(f.toolBuf) + 1),
           NEW fence, fence = [at |-> at, opens |-> opens, after |-> after],
           f.toolBuf[at] = "fence", opens => IsCallBlock(Upto(f.toolBuf, at)), ~opens => after = at + 1
    PROVE  Conserved(x, said, CloseTool(f, fence))
<1> DEFINE buf == f.toolBuf
           block == Upto(buf, at)
           rest == From(buf, after)
           j == Trim(block)[1]
           marks == <<"fence", "tool">> \o block \o <<"fence">>
           call == [Emit(f, <<Call(j)>>) EXCEPT !.found = TRUE, !.toolBuf = rest]
           kept == [Emit(f, IF f.found THEN <<>> ELSE Texts(marks)) EXCEPT !.inPost = f.found]
           done == IF IsCallBlock(block) THEN [call EXCEPT !.inPost = TRUE] ELSE kept
           g == CloseTool(f, fence)
<1>0. fence.at = at /\ fence.after = after /\ fence.opens = opens
  OBVIOUS
<1>1. g = IF IsCallBlock(block) /\ opens THEN call
          ELSE [done EXCEPT !.inTool = FALSE, !.pending = rest, !.toolBuf = <<>>, !.go = "on"]
  BY <1>0 DEF CloseTool
<1>2. f \in Filters /\ buf \in Txt /\ Len(buf) \in Nat
  BY DEF Sound, Filters, Txt
<1> HIDE DEF g, j
<1>3. CASE IsCallBlock(block)
  <2>1. g.found
    BY <1>0, <1>2, <1>3, CloseFound DEF g
  <2> QED BY <2>1 DEF Conserved, g
<1>4. CASE ~IsCallBlock(block)
  <2>1. g = [kept EXCEPT !.inTool = FALSE, !.pending = rest, !.toolBuf = <<>>, !.go = "on"]
    BY <1>1, <1>4
  <2>2. CASE f.found
    <3>1. g.found
      BY <1>2, <2>2, CloseFound DEF g
    <3> QED BY <3>1 DEF Conserved, g
  <2>3. CASE ~f.found
    <3>1. PICK y \in Txt : f.out = Texts(y) /\ Kept(x \o y, said, f)
      BY <2>3 DEF Conserved
    <3>2. f.pending = <<>>
      BY <3>1 DEF Kept
    <3>3. PICK i \in DOMAIN said :
             /\ said[i] = "fence" /\ Fence(said, i).opens
             /\ buf = From(said, Fence(said, i).after) /\ Level(x \o y, Upto(said, i))
      BY <3>1 DEF Kept
    <3> DEFINE m == Fence(said, i).after
               a == <<"fence", "tool">>
    <3>4. /\ m \in 1 .. (Len(said) + 1) /\ Upto(said, m) \in Txt /\ Upto(said, i) \in Txt
          /\ Level(Upto(said, i) \o a, Upto(said, m))
      BY <3>3, OpeningLevel
    <3>5. ~opens /\ after = at + 1
      BY <1>4
    <3> HIDE DEF m, a
    <3>6. buf = From(said, m)
      BY <3>3 DEF m
    <3> DEFINE b == Append(block, "fence")
               n == m + at
    <3>7. /\ at + 1 \in 1 .. (Len(From(said, m)) + 1) /\ m + (at + 1) - 1 = n
          /\ at \in 1 .. (Len(buf) + 1) /\ at \in 1 .. Len(buf)
      <4>1. m \in Nat /\ at \in Nat
        BY <1>2, <3>4
      <4> QED BY <1>2, <3>4, <3>6, <4>1
    <3>8. Upto(buf, at + 1) = b /\ block \in Txt
      BY <1>2, <3>7, UptoMore
    <3>9. "fence" \in Val /\ "tool" \in Val /\ a \in Txt
      <4>1. "fence" \in Val /\ "tool" \in Val
        BY DEF Val
      <4> QED BY <4>1 DEF Txt, a
    <3>10. n \in 1 .. (Len(said) + 1) /\ Upto(said, m) \o b = Upto(said, n)
           /\ rest = From(said, n)
      <4>1. /\ m + (at + 1) - 1 \in 1 .. (Len(said) + 1)
            /\ Upto(said, m) \o Upto(From(said, m), at + 1) = Upto(said, m + (at + 1) - 1)
        BY <3>4, <3>7, UptoFrom
      <4>2. From(From(said, m), at + 1) = From(said, m + (at + 1) - 1)
        BY <3>4, <3>7, FromFrom
      <4> HIDE DEF n, b
      <4> QED BY <3>5, <3>6, <3>7, <3>8, <4>1, <4>2
    <3> HIDE DEF n
    <3>11. marks = a \o b /\ b \in Txt
      <4> HIDE DEF block
      <4>1. a \o block \in Txt
        BY <3>8, <3>9, JoinedIs
      <4>2. \A u \in Txt : u \o <<"fence">> = Append(u, "fence") /\ Append(u, "fence") \in Txt
        BY <3>9 DEF Txt
      <4> DEFINE ab == a \o block
      <4> HIDE DEF ab
      <4>3. ab \o <<"fence">> = Append(ab, "fence")
        BY <4>1, <4>2 DEF ab
      <4>4. Append(a \o block, "fence") = a \o Append(block, "fence")
        BY <3>8, <3>9, AppendJoined
      <4>5. marks = ab \o <<"fence">>
        BY DEF ab, a
      <4> HIDE DEF marks
      <4> QED BY <3>8, <4>2, <4>3, <4>4, <4>5 DEF ab
    <3> HIDE DEF b
    <3>12. marks \in Txt /\ y \o marks \in Txt /\ Level(x \o (y \o marks), Upto(said, n))
      <4>1. y \o a \in Txt /\ Level(x \o (y \o a), Upto(said, i) \o a)
        BY <3>3, <3>4, <3>9, LevelItself, LevelOn
      <4>2. Level(x \o (y \o a), Upto(said, m))
        BY <3>4, <4>1 DEF Level
      <4>3. (y \o a) \o b \in Txt /\ Level(x \o ((y \o a) \o b), Upto(said, m) \o b)
        BY <3>4, <3>11, <4>1, <4>2, LevelItself, LevelOn
      <4>4. (y \o a) \o b = y \o (a \o b) /\ a \o b \in Txt
        BY <3>9, <3>11, JoinedTwice
      <4> QED BY <3>10, <3>11, <4>3, <4>4
    <3> DEFINE e == Emit(f, Texts(marks))
    <3>13. kept = [e EXCEPT !.inPost = f.found]
      BY <2>3
    <3> HIDE DEF marks, block, rest
    <3>14. e = [f EXCEPT !.out = Texts(y \o marks)] /\ e.out = Texts(y \o marks)
      BY <1>2, <3>1, <3>12, EmitPlain
    <3> HIDE DEF e, kept
    <3>15. g.out = Texts(y \o marks) /\ ~g.inTool /\ g.pending = rest /\ g.toolBuf = <<>>
      BY <1>2, <2>1, <3>13, <3>14 DEF Filters
    <3>16. Kept(x \o (y \o marks), said, g)
      BY <3>10, <3>12, <3>15 DEF Kept
    <3> QED BY <3>12, <3>15, <3>16 DEF Conserved, g
  <2>4. f.found \in BOOLEAN
    BY <1>2 DEF Filters
  <2> QED BY <2>2, <2>3, <2>4
<1> QED BY <1>3, <1>4

LEMMA TryCloseConserves ==
    ASSUME NEW x \in Txt, NEW said \in Txt, NEW f, Sound(FALSE, f), f.inTool,
           Plain(said), Conserved(x, said, f)
    PROVE  Conserved(x, said, TryCloseTool(f))
<1> DEFINE buf == f.toolBuf
           seen == NextFence(buf, 1)
           wait == Undecided(buf, seen.at)
           fence == IF wait THEN [at |-> seen.at, opens |-> FALSE, after |-> seen.at + 1] ELSE seen
           g == TryCloseTool(f)
<1>1. g = IF seen.at = 0 \/ (wait /\ f.go # "force") THEN [f EXCEPT !.go = "no"]
          ELSE CloseTool(f, fence)
  BY DEF TryCloseTool
<1>2. f \in Filters /\ buf \in Txt /\ Len(buf) \in Nat /\ DOMAIN buf = 1 .. Len(buf)
  BY DEF Sound, Filters, Txt
<1>3. \/ seen = NoFence
      \/ /\ seen.at \in 1 .. Len(buf) /\ buf[seen.at] = "fence" /\ seen = Fence(buf, seen.at)
  <2>1. 1 \in 1 .. (Len(buf) + 1)
    BY <1>2
  <2> QED BY <1>2, <2>1, NextFenceIs
<1>4. seen.at # 0 /\ seen.opens /\ ~f.found => IsCallBlock(Upto(buf, seen.at))
  <2> SUFFICES ASSUME seen.at # 0, seen.opens, ~f.found PROVE IsCallBlock(Upto(buf, seen.at))
    OBVIOUS
  <2>1. PICK y \in Txt : Kept(x \o y, said, f)
    BY DEF Conserved
  <2>2. PICK i \in DOMAIN said :
           said[i] = "fence" /\ Fence(said, i).opens /\ buf = From(said, Fence(said, i).after)
    BY <2>1 DEF Kept
  <2>3. ~Muddled(said)
    BY DEF Plain
  <2> HIDE DEF buf
  <2> QED BY <2>2, <2>3, NotMuddled
<1> HIDE DEF seen, g, wait, fence
<1>5. CASE seen.at = 0 \/ (wait /\ f.go # "force")
  <2>1. g = [f EXCEPT !.go = "no"]
    BY <1>1, <1>5
  <2>2. /\ g.out = f.out /\ g.found = f.found /\ g.inTool = f.inTool /\ g.toolBuf = f.toolBuf
        /\ g.pending = f.pending
    BY <1>2, <2>1 DEF Filters
  <2>3. Conserved(x, said, g)
    BY <2>2 DEF Conserved, Kept
  <2> QED BY <2>3 DEF g
<1>6. CASE ~(seen.at = 0 \/ (wait /\ f.go # "force"))
  <2>0. g = CloseTool(f, fence)
    BY <1>1, <1>6
  <2>1. seen.at \in 1 .. Len(buf) /\ buf[seen.at] = "fence" /\ seen = Fence(buf, seen.at)
    BY <1>3, <1>6 DEF NoFence
  <2> DEFINE at == seen.at
             opens == IF wait THEN FALSE ELSE seen.opens
             after == IF wait THEN at + 1 ELSE seen.after
  <2>2. /\ seen.opens \in BOOLEAN /\ seen.after \in (at + 1) .. (Len(buf) + 1)
        /\ ~seen.opens => seen.after = at + 1
        /\ seen = [at |-> at, opens |-> seen.opens, after |-> seen.after]
    <3>1. /\ Fence(buf, at).opens \in BOOLEAN /\ Fence(buf, at).after \in (at + 1) .. (Len(buf) + 1)
          /\ ~Fence(buf, at).opens => Fence(buf, at).after = at + 1
      BY <1>2, <2>1, FenceIs
    <3>2. Fence(buf, at) = [at |-> at, opens |-> Fence(buf, at).opens, after |-> Fence(buf, at).after]
      BY DEF Fence
    <3> QED BY <2>1, <3>1, <3>2
  <2>3. /\ opens \in BOOLEAN /\ after \in (at + 1) .. (Len(buf) + 1) /\ at \in 1 .. Len(buf)
        /\ ~opens => after = at + 1
        /\ opens => seen.opens
    <3>1. at \in 1 .. Len(buf) /\ seen.opens \in BOOLEAN /\ seen.after \in (at + 1) .. (Len(buf) + 1)
          /\ (~seen.opens => seen.after = at + 1)
      BY <2>1, <2>2
    <3>2. at + 1 \in (at + 1) .. (Len(buf) + 1)
      BY <1>2, <3>1
    <3>3. CASE wait
      BY <3>1, <3>2, <3>3
    <3>4. CASE ~wait
      BY <3>1, <3>4
    <3> QED BY <3>3, <3>4
  <2>4. fence = [at |-> at, opens |-> opens, after |-> after]
    BY <2>2 DEF fence
  <2>5. seen.at = at /\ buf[at] = "fence" /\ seen.at # 0
    BY <1>6, <2>1 DEF at
  <2> HIDE DEF at, opens, after
  <2>6. CASE f.found
    <3>1. g.found
      BY <1>2, <2>0, <2>6, CloseFound
    <3> QED BY <3>1 DEF Conserved, g
  <2>7. CASE ~f.found
    <3>1. opens => IsCallBlock(Upto(buf, at))
      BY <1>4, <2>3, <2>5, <2>7
    <3>2. Conserved(x, said, CloseTool(f, fence))
      BY <2>3, <2>4, <2>5, <3>1, CloseConserves
    <3> QED BY <2>0, <3>2 DEF g
  <2>8. f.found \in BOOLEAN
    BY <1>2 DEF Filters
  <2> QED BY <2>6, <2>7, <2>8
<1> QED BY <1>5, <1>6

LEMMA RoundConserves ==
    ASSUME NEW x \in Txt, NEW said \in Txt, NEW f \in Parsing(FALSE, said),
           Plain(said), Conserved(x, said, f)
    PROVE  Conserved(x, said, Round(f))
<1>1. Sound(FALSE, f) /\ Held(said, f) /\ f.inTool \in BOOLEAN
  BY DEF Parsing, Filters
<1>2. CASE f.inTool
  <2>1. Round(f) = TryCloseTool(f)
    BY <1>2 DEF Round
  <2> QED BY <1>1, <1>2, <2>1, TryCloseConserves
<1>3. CASE ~f.inTool
  <2>1. Round(f) = ScanText(f)
    BY <1>3 DEF Round
  <2> QED BY <1>1, <1>3, <2>1, ScanConserves
<1> QED BY <1>1, <1>2, <1>3

LEMMA ParsedConserves ==
    ASSUME NEW x \in Txt, NEW said \in Txt, NEW f \in Parsing(FALSE, said), f.go # "no",
           Plain(said), Conserved(x, said, f)
    PROVE  Conserved(x, said, Parsed(f)) /\ Parsed(f) \in Parsing(FALSE, said)
<1> DEFINE A == {g \in Parsing(FALSE, said) : Conserved(x, said, g)}
           n == Size(f)
<1>1. \A g \in A : g.go # "no" => Round(g) \in A
  BY RoundIs, RoundConserves
<1>2. f \in Filters /\ Round(f) \in A
  BY <1>1 DEF Parsing
<1>3. n \in Nat
  BY <1>2, SizeIs
<1> HIDE DEF A
<1>4. PICK F \in [0 .. n -> A] : F[n] = Parsed(f)
  BY <1>1, <1>2, ParsedSteps
<1> HIDE DEF n
<1>5. F[n] \in A
  BY <1>3, <1>4
<1> QED BY <1>4, <1>5 DEF A

\* A piece of text is fed.
LEMMA FeedConserves ==
    ASSUME NEW x \in Txt, NEW said \in Txt, NEW s \in Txt, NEW f,
           Sound(FALSE, f), Held(said, f), Plain(said \o s), Conserved(x, said, f)
    PROVE  Conserved(x, said \o s, FeedContent(f, s))
<1> DEFINE g == IF f.inTool THEN [f EXCEPT !.toolBuf = @ \o s, !.go = "on"]
                ELSE [f EXCEPT !.pending = @ \o s, !.go = "on"]
           both == said \o s
<1>1. f \in Filters /\ f.pending \in Txt /\ f.toolBuf \in Txt /\ f.inTool \in BOOLEAN
      /\ f.found \in BOOLEAN
  BY DEF Sound, Filters
<1>2. both \in Txt /\ f.pending \o s \in Txt /\ f.toolBuf \o s \in Txt /\ Len(both) \in Nat
  BY <1>1, JoinedIs DEF Txt
<1>3. /\ g \in Filters /\ g.out = f.out /\ g.found = f.found /\ g.inPost = f.inPost
      /\ g.inTool = f.inTool /\ g.go = "on"
      /\ f.inTool => g.toolBuf = f.toolBuf \o s /\ g.pending = f.pending
      /\ ~f.inTool => g.pending = f.pending \o s /\ g.toolBuf = f.toolBuf
  <2> DEFINE p2 == f.pending \o s
             t2 == f.toolBuf \o s
  <2>1. p2 \in Txt /\ t2 \in Txt
    BY <1>2
  <2> HIDE DEF p2, t2
  <2>2. g = IF f.inTool THEN [f EXCEPT !.toolBuf = t2, !.go = "on"]
                ELSE [f EXCEPT !.pending = p2, !.go = "on"]
    BY DEF p2, t2
  <2> HIDE DEF g
  <2>3. CASE f.inTool
    <3>1. g = [f EXCEPT !.toolBuf = t2, !.go = "on"]
      BY <2>2, <2>3
    <3> QED BY <1>1, <2>1, <2>3, <3>1 DEF Filters, t2
  <2>4. CASE ~f.inTool
    <3>1. g = [f EXCEPT !.pending = p2, !.go = "on"]
      BY <2>2, <2>4
    <3> QED BY <1>1, <2>1, <2>4, <3>1 DEF Filters, p2
  <2> QED BY <1>1, <2>3, <2>4
<1> HIDE DEF g
<1>4. NoResult(said) /\ ~Muddled(said) /\ NoResult(both)
  <2>1. Plain(said)
    BY MuddledMore
  <2> QED BY <2>1 DEF Plain
<1>5. Sound(FALSE, g)
  BY <1>3 DEF Sound
<1>6. ASSUME NEW i \in DOMAIN said, said[i] = "fence", Fence(said, i).opens
      PROVE  /\ i \in DOMAIN both /\ both[i] = "fence" /\ Fence(both, i) = Fence(said, i)
             /\ From(said, Fence(said, i).after) \o s = From(both, Fence(said, i).after)
             /\ Upto(both, i) = Upto(said, i)
  <2> DEFINE k == Fence(said, i).after
  <2>1. i \in DOMAIN both /\ both[i] = said[i] /\ Fence(both, i) = Fence(said, i)
    BY <1>6, OpensMore
  <2>2. k \in 1 .. (Len(said) + 1)
    <3>1. k \in (i + 1) .. (Len(said) + 1) /\ i \in Nat /\ Len(said) \in Nat
      BY FenceIs DEF Txt
    <3> HIDE DEF k
    <3> QED BY <3>1
  <2> HIDE DEF k
  <2>3. From(said, k) \o s = From(both, k)
    BY <2>2, FromMore
  <2>4. i \in 1 .. Len(said)
    BY DEF Txt
  <2>5. Upto(both, i) = Upto(said, i)
    BY <2>4, UptoJoined
  <2> QED BY <1>6, <2>1, <2>3, <2>5 DEF k
<1>7. Held(both, g)
  <2>1. CASE f.inTool
    <3>1. PICK i \in DOMAIN said :
             said[i] = "fence" /\ Fence(said, i).opens /\ f.toolBuf = From(said, Fence(said, i).after)
      BY <1>4, <2>1 DEF Held
    <3>2. /\ i \in DOMAIN both /\ both[i] = "fence" /\ Fence(both, i) = Fence(said, i)
          /\ From(said, Fence(said, i).after) \o s = From(both, Fence(said, i).after)
      BY <1>6, <3>1
    <3>3. g.inTool /\ g.toolBuf = From(both, Fence(both, i).after) /\ Fence(both, i).opens
      BY <1>3, <2>1, <3>1, <3>2
    <3> HIDE DEF both
    <3> QED BY <3>2, <3>3 DEF Held
  <2>2. CASE ~f.inTool
    <3>1. PICK k \in 1 .. (Len(said) + 1) : f.pending = From(said, k)
      BY <1>4, <2>2 DEF Held
    <3>2. From(said, k) \o s = From(both, k) /\ k \in 1 .. (Len(both) + 1)
      BY FromMore
    <3> HIDE DEF both
    <3> QED BY <1>3, <2>2, <3>1, <3>2 DEF Held
  <2> QED BY <1>1, <2>1, <2>2
<1>8. Conserved(x, both, g)
  <2> SUFFICES ASSUME ~f.found PROVE Conserved(x, both, g)
    BY <1>3 DEF Conserved
  <2>1. PICK y \in Txt : f.out = Texts(y) /\ Kept(x \o y, said, f)
    BY DEF Conserved
  <2>2. Kept(x \o y, both, g)
    <3>1. CASE f.inTool
      <4>1. f.pending = <<>>
        BY <2>1, <3>1 DEF Kept
      <4>2. PICK i \in DOMAIN said :
               /\ said[i] = "fence" /\ Fence(said, i).opens
               /\ f.toolBuf = From(said, Fence(said, i).after) /\ Level(x \o y, Upto(said, i))
        BY <2>1, <3>1 DEF Kept
      <4>3. /\ i \in DOMAIN both /\ both[i] = "fence" /\ Fence(both, i) = Fence(said, i)
            /\ From(said, Fence(said, i).after) \o s = From(both, Fence(said, i).after)
            /\ Upto(both, i) = Upto(said, i)
        BY <1>6, <4>2
      <4>4. /\ g.inTool /\ g.pending = <<>> /\ g.toolBuf = From(both, Fence(both, i).after)
            /\ Fence(both, i).opens /\ Level(x \o y, Upto(both, i))
        BY <1>3, <3>1, <4>1, <4>2, <4>3
      <4> HIDE DEF both
      <4> QED BY <4>3, <4>4 DEF Kept
    <3>2. CASE ~f.inTool
      <4>1. f.toolBuf = <<>>
        BY <2>1, <3>2 DEF Kept
      <4>2. PICK k \in 1 .. (Len(said) + 1) : f.pending = From(said, k) /\ Level(x \o y, Upto(said, k))
        BY <2>1, <3>2 DEF Kept
      <4>3. From(said, k) \o s = From(both, k) /\ k \in 1 .. (Len(both) + 1)
        BY FromMore
      <4>4. Upto(both, k) = Upto(said, k)
        BY UptoJoined
      <4>5. ~g.inTool /\ g.toolBuf = <<>> /\ g.pending = From(both, k) /\ Level(x \o y, Upto(both, k))
        BY <1>3, <3>2, <4>1, <4>2, <4>3, <4>4
      <4> HIDE DEF both
      <4> QED BY <4>3, <4>5 DEF Kept
    <3> QED BY <1>1, <3>1, <3>2
  <2>3. g.out = Texts(y)
    BY <1>3, <2>1
  <2> HIDE DEF both
  <2> QED BY <2>2, <2>3 DEF Conserved
<1>9. g \in Parsing(FALSE, both) /\ g.go # "no"
  <2> HIDE DEF both
  <2> QED BY <1>3, <1>5, <1>7 DEF Parsing
<1>10. Conserved(x, both, Parsed(g))
  <2>1. Plain(both)
    OBVIOUS
  <2> HIDE DEF both
  <2> QED BY <1>2, <1>8, <1>9, <2>1, ParsedConserves
<1> QED BY <1>10 DEF FeedContent, g

LEMMA JoinsTwice == \A r, s, t \in Txt : (r \o s) \o t = r \o (s \o t)
BY JoinedTwice

\* The filter is closed.
LEMMA CloseFilterConserves ==
    ASSUME NEW x \in Txt, NEW said \in Txt, NEW f, Sound(FALSE, f), Held(said, f), Waiting(f),
           Plain(said), ~Dangling(said), Conserved(x, said, f), ~CloseFilter(f).found
    PROVE  \E y \in Txt : CloseFilter(f).out = Texts(y) /\ Level(x \o y, said)
<1> DEFINE d == [f EXCEPT !.go = "force"]
           c == Parsed(d)
           z == IF f.inTool THEN [c EXCEPT !.inTool = FALSE] ELSE f
           g == ShowRest(z)
           e == IF f.inTool THEN c ELSE f
<1>1. f \in Filters /\ f.inTool \in BOOLEAN
  BY DEF Sound, Filters
<1>2. CloseFilter(f) = g
  BY DEF CloseFilter
<1>3. /\ e \in Filters /\ Sound(FALSE, e) /\ Conserved(x, said, e)
      /\ z \in Filters /\ z.out = e.out /\ z.found = e.found /\ z.inPost = e.inPost
      /\ z.pending = e.pending /\ z.toolBuf = e.toolBuf
  <2>1. CASE f.inTool
    <3>1. /\ d \in Filters /\ d.out = f.out /\ d.found = f.found /\ d.inPost = f.inPost
          /\ d.inTool = f.inTool /\ d.toolBuf = f.toolBuf /\ d.pending = f.pending /\ d.go = "force"
      BY <1>1 DEF Filters
    <3> HIDE DEF d
    <3>2. Sound(FALSE, d) /\ Held(said, d) /\ Waiting(d) /\ Conserved(x, said, d)
      BY <3>1 DEF Sound, Held, Waiting, Conserved, Kept
    <3>3. d \in Parsing(FALSE, said) /\ d.go # "no"
      BY <3>1, <3>2 DEF Parsing
    <3>4. Conserved(x, said, c) /\ c \in Parsing(FALSE, said)
      BY <3>2, <3>3, ParsedConserves
    <3> HIDE DEF c
    <3>5. c \in Filters /\ Sound(FALSE, c)
      BY <3>4 DEF Parsing
    <3>6. z = [c EXCEPT !.inTool = FALSE] /\ e = c
      BY <2>1
    <3> HIDE DEF z, e
    <3> QED BY <3>4, <3>5, <3>6 DEF Filters
  <2>2. CASE ~f.inTool
    BY <1>1, <2>2
  <2> QED BY <1>1, <2>1, <2>2
<1> HIDE DEF z, e, g
<1>4. ~z.found /\ ~z.inPost /\ ~e.found
  <2>1. g.found = z.found
    <3>1. Orderly(FALSE, z.out) /\ (z.found <=> FALSE \/ Promise!HasCall(z.out)) /\ (z.inPost => z.found)
      BY <1>3 DEF Sound
    <3> QED BY <1>3, <3>1, ShowRestIs DEF g
  <2>2. ~z.found
    BY <1>2, <2>1
  <2> QED BY <1>3, <2>2 DEF Sound
<1>5. g = [Emit(z, LastText(z)) EXCEPT !.toolBuf = <<>>]
  BY <1>4 DEF ShowRest, g
<1>6. PICK y \in Txt : e.out = Texts(y) /\ Kept(x \o y, said, e)
  BY <1>3, <1>4 DEF Conserved
<1>7. Len(said) \in Nat /\ e.inTool \in BOOLEAN /\ e.toolBuf \in Txt /\ e.pending \in Txt
  BY <1>3 DEF Txt, Filters
<1>8. PICK s \in Txt : LastText(z) = Texts(s) /\ y \o s \in Txt /\ Level(x \o (y \o s), said)
  <2>1. CASE e.inTool
    <3>1. e.pending = <<>>
      BY <1>6, <2>1 DEF Kept
    <3>2. PICK i \in DOMAIN said :
             /\ said[i] = "fence" /\ Fence(said, i).opens
             /\ e.toolBuf = From(said, Fence(said, i).after) /\ Level(x \o y, Upto(said, i))
      BY <1>6, <2>1 DEF Kept
    <3> DEFINE m == Fence(said, i).after
               a == <<"fence", "tool">>
               buf == e.toolBuf
    <3>3. /\ m \in 1 .. (Len(said) + 1) /\ Upto(said, m) \in Txt /\ Upto(said, i) \in Txt
          /\ said[m - 1] = "tool" /\ i \in 1 .. Len(said)
          /\ Level(Upto(said, i) \o a, Upto(said, m))
      BY <3>2, OpeningLevel
    <3>4. m \in (i + 1) .. (Len(said) + 1)
      BY FenceIs
    <3> HIDE DEF m, a
    <3>5. buf = From(said, m)
      BY <3>2 DEF m
    <3>6. m # Len(said) + 1
      <4> SUFFICES ASSUME m = Len(said) + 1 PROVE FALSE
        OBVIOUS
      <4>1. said[Len(said)] = "tool"
        BY <1>7, <3>3
      <4>2. said # <<>> /\ Last(said) = "tool"
        BY <4>1 DEF Last
      <4> QED BY <4>2 DEF Dangling
    <3>7. buf # <<>>
      <4>1. Len(From(said, m)) = Len(said) + 1 - m
        BY <3>3, FromIs
      <4>2. Len(buf) # 0
        BY <1>7, <3>3, <3>5, <3>6, <4>1
      <4> QED BY <4>2
    <3>8. a \in Txt
      <4>1. "fence" \in Val /\ "tool" \in Val
        BY DEF Val
      <4> QED BY <4>1 DEF Txt, a
    <3>9. a \o buf \in Txt /\ buf \in Txt
      BY <1>7, <3>8, JoinedIs
    <3>10. LastText(z) = Texts(a \o buf)
      <4>1. Texts(<<>>) = <<>>
        BY DEF Texts
      <4>2. LastText(z) = Texts(a \o buf) \o <<>>
        BY <1>3, <3>1, <3>7, <4>1 DEF LastText, a
      <4>3. Texts(a \o buf) \in Seq(Shows)
        BY <3>9, TextsIs
      <4> DEFINE t == Texts(a \o buf)
      <4> HIDE DEF t
      <4>4. t \in Seq(Shows)
        BY <4>3 DEF t
      <4>5. t \o <<>> = t
        BY <4>4
      <4> QED BY <4>2, <4>5 DEF t
    <3>11. y \o (a \o buf) \in Txt /\ Level(x \o (y \o (a \o buf)), said)
      <4>1. y \o a \in Txt /\ Level(x \o (y \o a), Upto(said, i) \o a)
        BY <3>2, <3>3, <3>8, LevelItself, LevelOn
      <4>2. Level(x \o (y \o a), Upto(said, m))
        BY <3>3, <4>1 DEF Level
      <4>6. buf \in Txt
        BY <3>9
      <4> HIDE DEF buf
      <4>3. (y \o a) \o buf \in Txt /\ Level(x \o ((y \o a) \o buf), Upto(said, m) \o buf)
        BY <3>3, <4>6, <4>1, <4>2, LevelItself, LevelOn
      <4>4. (y \o a) \o buf = y \o (a \o buf)
        <5> HIDE DEF a
        <5>1. a \in Txt
          BY <3>8
        <5> QED BY <3>3, <4>6, <5>1, JoinsTwice
      <4>5. Upto(said, m) \o From(said, m) = said
        <5>1. 1 \in 1 .. (Len(From(said, m)) + 1)
          <6>1. Len(From(said, m)) \in Nat
            BY <3>5, <3>9 DEF Txt
          <6> QED BY <6>1
        <5> QED BY <3>3, <5>1, UptoFrom
      <4> QED BY <3>5, <4>3, <4>4, <4>5
    <3> QED BY <3>9, <3>10, <3>11
  <2>2. CASE ~e.inTool
    <3>1. e.toolBuf = <<>>
      BY <1>6, <2>2 DEF Kept
    <3>2. PICK k \in 1 .. (Len(said) + 1) : e.pending = From(said, k) /\ Level(x \o y, Upto(said, k))
      BY <1>6, <2>2 DEF Kept
    <3> DEFINE p == e.pending
    <3>3. LastText(z) = Texts(p)
      <4>1. LastText(z) = <<>> \o Texts(p)
        BY <1>3, <3>1 DEF LastText
      <4>2. Texts(p) \in Seq(Shows)
        BY <1>7, TextsIs
      <4> DEFINE t == Texts(p)
      <4> HIDE DEF t
      <4>3. t \in Seq(Shows)
        BY <4>2 DEF t
      <4>4. <<>> \o t = t
        BY <4>3
      <4> QED BY <4>1, <4>4 DEF t
    <3>4. Upto(said, k) \in Txt /\ p \in Txt
      BY <1>7, UptoIs
    <3>5. y \o p \in Txt /\ Level(x \o (y \o p), Upto(said, k) \o p)
      BY <3>2, <3>4, LevelItself, LevelOn
    <3>6. Upto(said, k) \o From(said, k) = said
      <4>1. 1 \in 1 .. (Len(From(said, k)) + 1)
        <5>1. Len(From(said, k)) \in Nat
          BY <3>2, <3>4 DEF Txt
        <5> QED BY <5>1
      <4> QED BY <4>1, UptoFrom
    <3> QED BY <3>2, <3>3, <3>4, <3>5, <3>6
  <2> QED BY <1>7, <2>1, <2>2
<1> DEFINE w == Emit(z, Texts(s))
<1>9. w = [z EXCEPT !.out = Texts(y \o s)] /\ w.out = Texts(y \o s)
  BY <1>3, <1>6, EmitPlain
<1>10. g = [w EXCEPT !.toolBuf = <<>>]
  BY <1>5, <1>8
<1> HIDE DEF w
<1>11. g.out = Texts(y \o s)
  BY <1>3, <1>9, <1>10 DEF Filters
<1> QED BY <1>2, <1>8, <1>11

-----------------------------------------------------------------------------
(* Nothing is lost on the way to the client *)

\* While no call has been found, the client has seen a text that lacks nothing
\* but what the filter keeps.
Whole(said, w, f) ==
    Plain(said) /\ ~Promise!HasCall(w.c.got) =>
        \E x \in Txt : Seen(w.c) = Texts(x) /\ Kept(x, said, f) /\ ~Late(w)

\* The reader has seen all that has been said.
ReadWhole(said, c) ==
    Plain(said) /\ ~Dangling(said) /\ ~Promise!HasCall(c.got) =>
        \E x \in Txt : Seen(c) = Texts(x) /\ Level(x, said)

LEMMA NoCallBefore ==
    ASSUME NEW w, NEW v, Grows(w, v), InStep(w), ~Promise!HasCall(v.c.got)
    PROVE  ~Promise!HasCall(w.c.got)
<1>1. w.c.got \in Seq(Shows) /\ v.c.got \in Seq(Shows) /\ Longer(w.c.got, v.c.got)
  BY DEF Grows, InStep, Writers, Readers
<1> DEFINE s == w.c.got
           t == v.c.got
<1> HIDE DEF s, t
<1>2. s \in Seq(Shows) /\ t \in Seq(Shows) /\ Longer(s, t) /\ ~Promise!HasCall(t)
  BY <1>1 DEF s, t
<1>3. ~Promise!HasCall(s)
  BY <1>2, HasCallIs DEF Longer
<1> QED BY <1>3 DEF s

\* The filter is emptied of what it has put out.
LEMMA EmptiedKeeps ==
    ASSUME NEW f \in Filters, NEW x, NEW said
    PROVE  Kept(x, said, [f EXCEPT !.out = <<>>]) <=> Kept(x, said, f)
<1> DEFINE g == [f EXCEPT !.out = <<>>]
<1>1. g.inTool = f.inTool /\ g.pending = f.pending /\ g.toolBuf = f.toolBuf
  BY DEF Filters
<1> HIDE DEF g
<1>2. Kept(x, said, g) <=> Kept(x, said, f)
  BY <1>1 DEF Kept
<1> QED BY <1>2 DEF g

LEMMA NothingYet ==
    ASSUME NEW x \in Txt, NEW said \in Txt, NEW f \in Filters, Kept(x, said, f)
    PROVE  Conserved(x, said, [f EXCEPT !.out = <<>>])
<1> DEFINE g == [f EXCEPT !.out = <<>>]
           none == <<>>
<1>1. none \in Txt /\ x \o none = x /\ Texts(none) = none
  BY DEF Txt, Texts
<1>2. g.out = none /\ Kept(x, said, g)
  BY EmptiedKeeps DEF Filters
<1> HIDE DEF g, none
<1>3. Kept(x \o none, said, g) /\ g.out = Texts(none)
  BY <1>1, <1>2
<1>4. Conserved(x, said, g)
  BY <1>1, <1>3 DEF Conserved
<1> QED BY <1>4 DEF g

\* A filter that has found a call has shown it.
LEMMA NotFound ==
    ASSUME NEW said, NEW w, NEW f, Agree(said, w, f), ~w.o.err, ~w.o.done,
           ~Promise!HasCall(w.c.got)
    PROVE  /\ ~f.found /\ f \in Filters /\ InStep(w) /\ Held(said, f) /\ Waiting(f)
           /\ Sound(FALSE, f)
<1>1. Sound(f.found, f) /\ ~f.found /\ InStep(w) /\ Held(said, f) /\ Waiting(f)
  BY DEF Agree
<1>2. f.found \in BOOLEAN /\ f \in Filters
  BY <1>1 DEF Sound, Filters
<1>3. f.found = FALSE
  BY <1>1, <1>2
<1> QED BY <1>1, <1>2, <1>3

LEMMA ContentWhole ==
    ASSUME script.fence, NEW said \in Txt, NEW tokens \in Txt, NEW w, NEW f,
           Agree(said, w, f), ~w.o.done, Whole(said, w, f),
           ~Content(w, f, tokens).w.o.err
    PROVE  LET d == Content(w, f, tokens)
           IN  Whole(said \o tokens, d.w, d.f) /\ ~w.o.err
<1> DEFINE d == Content(w, f, tokens)
           e == [f EXCEPT !.out = <<>>]
           g == FeedContent(e, tokens)
           v == ShowAll(w, g.out)
           k == [g EXCEPT !.out = <<>>]
           both == said \o tokens
<1>1. Grows(w, d.w) /\ Agree(both, d.w, d.f) /\ InStep(w)
  BY FencedContent DEF Agree
<1>2. d = CASE tokens = <<>> \/ w.o.err -> [w |-> w, f |-> f]
            [] tokens # <<>> /\ ~w.o.err /\ script.fence -> [w |-> v, f |-> k]
            [] OTHER -> [w |-> ShowAll(w, Texts(tokens)), f |-> f]
  BY DEF Content
<1> HIDE DEF d, g, v, k, e
<1>3. ~w.o.err /\ ~d.w.o.err /\ ~d.w.o.done
  BY <1>1 DEF Grows, Further, d
<1>4. CASE tokens = <<>>
  <2>1. d.w = w /\ d.f = f
    BY <1>2, <1>4
  <2>2. both = said
    BY <1>4 DEF Txt
  <2> QED BY <1>3, <2>1, <2>2 DEF d
<1>5. CASE tokens # <<>>
  <2> SUFFICES ASSUME Plain(both), ~Promise!HasCall(d.w.c.got)
               PROVE  \E z \in Txt : Seen(d.w.c) = Texts(z) /\ Kept(z, both, d.f) /\ ~Late(d.w)
    BY <1>3 DEF Whole, d
  <2>1. d.w = v /\ d.f = k
    BY <1>2, <1>3, <1>5
  <2>2. ~d.f.found /\ d.f \in Filters
    <3> HIDE DEF both
    <3> QED BY <1>1, <1>3, NotFound
  <2>3. ~Promise!HasCall(w.c.got) /\ Plain(said)
    BY <1>1, NoCallBefore, MuddledMore
  <2>4. f \in Filters /\ ~f.found /\ Held(said, f) /\ Waiting(f) /\ Sound(FALSE, f)
    BY <1>3, <2>3, NotFound
  <2>5. PICK x \in Txt : Seen(w.c) = Texts(x) /\ Kept(x, said, f) /\ ~Late(w)
    BY <2>3 DEF Whole
  <2>6. Conserved(x, said, e)
    BY <2>4, <2>5, NothingYet DEF e
  <2>7. Sound(FALSE, e) /\ Held(said, e)
    <3>1. e.found = f.found /\ Sound(f.found, e) /\ Held(said, e)
      BY <2>4, Emptied DEF e
    <3>2. f.found = FALSE
      BY <2>4 DEF Filters
    <3> QED BY <3>1, <3>2
  <2>8. Conserved(x, both, g)
    BY <2>6, <2>7, FeedConserves DEF g
  <2>9. g \in Filters
    <3>1. Waits(FALSE, both, g)
      BY <2>7, FeedIs DEF g
    <3> QED BY <3>1 DEF Waits, Sound
  <2>10. ~g.found
    BY <2>1, <2>2, <2>9 DEF k, Filters
  <2>11. PICK y \in Txt : g.out = Texts(y) /\ Kept(x \o y, both, g)
    <3> HIDE DEF both
    <3> QED BY <2>8, <2>10 DEF Conserved
  <2>12. x \o y \in Txt /\ Texts(x \o y) = Texts(x) \o Texts(y)
    BY JoinedIs, TextsJoined
  <2>13. v = ShowAll(w, Texts(y)) /\ ~v.o.err
    BY <1>3, <2>1, <2>11 DEF v
  <2>14. Seen(v.c) = Seen(w.c) \o Texts(y) /\ ~Late(v)
    BY <1>1, <2>5, <2>13, TextsSeen
  <2>15. Kept(x \o y, both, k)
    <3> HIDE DEF both
    <3> QED BY <2>9, <2>11, EmptiedKeeps DEF k
  <2>16. Seen(v.c) = Texts(x \o y)
    BY <2>5, <2>12, <2>14
  <2> DEFINE z == x \o y
  <2> HIDE DEF z, both
  <2>17. z \in Txt /\ Seen(v.c) = Texts(z) /\ Kept(z, both, k)
    BY <2>12, <2>15, <2>16 DEF z
  <2> QED BY <2>1, <2>14, <2>17
<1> QED BY <1>4, <1>5

\* The end of a reply whose calls are text.
LEMMA FencedSettle ==
    ASSUME NEW said \in Txt, NEW w, NEW f, Agree(said, w, f), ~w.o.done, Whole(said, w, f),
           Settle(w, f), result' = "ok", up.finish \in {"stop", "length"}
    PROVE  ~w.o.err /\ ~errored /\ ReadWhole(said, client')
<1> DEFINE x == [f EXCEPT !.out = <<>>]
           g == CloseFilter(x)
           v1 == ShowAll(w, g.out)
           fin == FinishOf(g)
           v == Finish(v1, fin)
<1>1. ~w.o.err /\ ~errored
  BY DEF Settle, Returned
<1>2. Shut(v1, g)
  BY <1>1 DEF Settle, ShutAfter
<1> SUFFICES ASSUME Plain(said), ~Dangling(said), ~Promise!HasCall(client'.got)
             PROVE  \E z \in Txt : Seen(client') = Texts(z) /\ Level(z, said)
  BY <1>1 DEF ReadWhole
<1> HIDE DEF v1, g, x
<1>3. ~v1.o.err /\ Ended(v, g)
  BY <1>2 DEF Shut, Returned
<1>4. client' = v.c
  BY <1>3 DEF Ended, Returned, Put
<1>5. InStep(w)
  BY DEF Agree
<1>6. Sound(f.found, f) /\ f \in Filters /\ f.found \in BOOLEAN /\ Held(said, f) /\ Waiting(f)
  BY <1>1 DEF Agree, Sound, Filters
<1>7. x \in Filters /\ Sound(f.found, x) /\ Held(said, x) /\ Waiting(x)
  BY <1>6, Emptied DEF x
<1>8. g \in Filters /\ (g.found <=> f.found \/ Promise!HasCall(g.out))
  BY <1>6, <1>7, CloseIs DEF g
<1>9. g.out \in Seq(Shows)
  BY <1>8 DEF Filters
<1>10. /\ Grows(w, v1)
       /\ Promise!HasCall(w.c.got) => Promise!HasCall(v1.c.got)
       /\ ~v1.o.err /\ ~w.o.done /\ Promise!HasCall(g.out) => Promise!HasCall(v1.c.got)
  BY <1>5, <1>9, ShowAllGrows DEF v1
<1>11. v.c.got = v1.c.got
  <2>1. fin \in Reason
    <3>1. up.finish \in Reason /\ "tool_calls" \in Reason
      BY DEF Reason
    <3> QED BY <3>1 DEF FinishOf
  <2> HIDE DEF fin
  <2>2. InStep(v1)
    BY <1>10 DEF Grows
  <2> QED BY <2>1, <2>2, FinishIs
<1> HIDE DEF v
<1>12. ~Promise!HasCall(v1.c.got) /\ ~Promise!HasCall(w.c.got) /\ ~Promise!HasCall(g.out)
  BY <1>3, <1>4, <1>10, <1>11
<1>13. ~f.found /\ Sound(FALSE, f)
  BY <1>1, <1>12, NotFound
<1>14. ~g.found /\ f.found = FALSE
  BY <1>6, <1>8, <1>12, <1>13
<1>15. Sound(FALSE, x)
  BY <1>7, <1>14
<1>16. PICK s \in Txt : Seen(w.c) = Texts(s) /\ Kept(s, said, f) /\ ~Late(w)
  BY <1>12 DEF Whole
<1>17. Conserved(s, said, x)
  BY <1>6, <1>16, NothingYet DEF x
<1>18. PICK y \in Txt : g.out = Texts(y) /\ Level(s \o y, said)
  BY <1>7, <1>14, <1>15, <1>17, CloseFilterConserves DEF g
<1>19. v1 = ShowAll(w, Texts(y))
  BY <1>18 DEF v1
<1>20. Seen(v1.c) = Seen(w.c) \o Texts(y)
  BY <1>3, <1>5, <1>16, <1>19, TextsSeen
<1>21. s \o y \in Txt /\ Texts(s \o y) = Texts(s) \o Texts(y)
  BY JoinedIs, TextsJoined
<1>22. Seen(client') = Texts(s \o y)
  BY <1>4, <1>11, <1>16, <1>20, <1>21 DEF Seen
<1> QED BY <1>18, <1>21, <1>22

-----------------------------------------------------------------------------
(* Action by action *)

\* While a reply sails and after it has settled, what the client has been shown and
\* what the filter still keeps make up what has been said.
TextWhole ==
    script.fence =>
        /\ Sails => Whole(Said, Writer, flt)
        /\ Ok => ReadWhole(Said, client)

LEMMA WholeInit == Init => TextWhole
<1> SUFFICES ASSUME Init, script.fence PROVE TextWhole
  BY DEF TextWhole
<1>1. /\ pos = 0 /\ flt = Filter0 /\ client.got = <<>> /\ out.open = "none" /\ result = "running"
  BY DEF Init
<1>2. StreamTyped
  BY InvInit DEF StreamInv
<1>3. Said = <<>>
  <2>1. Came = <<>>
    BY <1>1 DEF Came
  <2>2. Tokens(<<>>) = <<>>
    BY DEF Tokens
  <2> QED BY <2>1, <2>2, OfNone DEF Said
<1> DEFINE none == <<>>
<1>4. none \in Txt /\ Len(none) = 0 /\ From(none, 1) = none /\ Upto(none, 1) = none /\ Texts(none) = none
  BY DEF Txt, From, Upto, Texts
<1>5. ~flt.inTool /\ flt.pending = none /\ flt.toolBuf = none
  BY <1>1 DEF Filter0
<1>6. Seen(Writer.c) = none /\ ~Late(Writer)
  BY <1>1, OfNone DEF Seen, Late, Writer
<1>7. 1 \in 1 .. (Len(none) + 1)
  BY <1>4
<1> HIDE DEF none
<1>8. Kept(none, none, flt)
  BY <1>4, <1>5, <1>7, LevelItself DEF Kept
<1>9. Whole(none, Writer, flt)
  BY <1>4, <1>6, <1>8 DEF Whole
<1>10. Said = none
  BY <1>3 DEF none
<1> QED BY <1>1, <1>9, <1>10 DEF TextWhole, Ok

\* A writer that has gone on is the writer of the next state.
LEMMA WholeNext ==
    ASSUME NEW w, InStep(w), Put(w), UNCHANGED <<proto, gone>>, NEW said, NEW f,
           Said' = said, flt' = f, Sails' => Whole(said, w, f), result' # "ok"
    PROVE  TextWhole'
<1>1. Writer' = w
  BY WriterNext
<1>2. Late(Writer)' <=> Late(w)
  BY <1>1 DEF Late
<1>3. Sails' => Whole(Said, Writer, flt)'
  BY <1>1, <1>2 DEF Whole, Seen
<1> QED BY <1>3 DEF TextWhole, Ok

\* A step that writes nothing and reads nothing.
LEMMA WholeStill ==
    ASSUME TextWhole, UNCHANGED <<proto, script, pos, flt, out, client, errored, result>>
    PROVE  TextWhole'
<1>1. Sails' = Sails /\ Ok' = Ok /\ Said' = Said
  BY DEF Sails, Running, Ok, Said, Came
<1>2. Writer' = Writer
  BY DEF Writer
<1>3. Late(Writer)' <=> Late(Writer)
  BY <1>2 DEF Late
<1>4. Whole(Said, Writer, flt) => Whole(Said, Writer, flt)'
  BY <1>1, <1>2, <1>3 DEF Whole, Seen
<1>5. ReadWhole(Said, client) => ReadWhole(Said, client)'
  BY <1>1 DEF ReadWhole, Seen
<1> QED BY <1>1, <1>4, <1>5 DEF TextWhole

LEMMA FinishReasonWhole == ASSUME TextWhole, FinishReason PROVE TextWhole'
BY WholeStill DEF FinishReason

LEMMA LeaveWhole == ASSUME TextWhole, Leave PROVE TextWhole'
BY WholeStill DEF Leave

LEMMA CutWhole == ASSUME Cut PROVE TextWhole'
BY DEF Cut, TextWhole, Ok, Sails, Running

LEMMA ErrorFrameWhole == ASSUME ErrorFrame PROVE TextWhole'
<1>1. errored' /\ result' # "ok"
  BY DEF ErrorFrame, Running
<1> QED BY <1>1 DEF TextWhole, Ok, Sails

\* A channel whose calls are text sends no others.
LEMMA CallFrameWhole == ASSUME StreamInv, CallFrame PROVE TextWhole'
<1>1. /\ Running /\ pos < Len(script.items) /\ Item.kind \in {"head", "args"}
      /\ pos' = pos + 1 /\ UNCHANGED script
  BY DEF CallFrame
<1>2. script.fence => Item.kind \in {"text", "think"}
  BY <1>1, NextSaid DEF StreamInv
<1>3. ~script.fence
  BY <1>1, <1>2
<1> QED BY <1>1, <1>3 DEF TextWhole

\* What holds of a reply that comes through.
LEMMA Fencing ==
    ASSUME StreamInv, TextWhole, Sails, script.fence
    PROVE  /\ StreamTyped /\ InStep(Writer) /\ Writer.o = out /\ Writer.c = client
           /\ ~Writer.o.done /\ ~Writer.o.err /\ Said \in Txt
           /\ Agree(Said, Writer, flt) /\ Whole(Said, Writer, flt)
           /\ up.stitch = <<>> /\ up.deferred = <<>> /\ up.finish \in {"stop", "length"}
<1>1. Agree(Said, Writer, flt) /\ up.stitch = <<>> /\ up.deferred = <<>>
  BY DEF StreamInv, FenceAgrees, Sails
<1>2. StreamTyped /\ Said \in Txt /\ up.finish \in {"stop", "length"}
  BY ScriptIs DEF StreamInv, StreamTyped, Ups
<1> QED BY <1>1, <1>2, Sailing DEF TextWhole

LEMMA TextFrameWhole ==
    ASSUME StreamInv, TextWhole, NEW n \in 1 .. MaxPiece, TextFrame(n)
    PROVE  TextWhole'
<1> DEFINE piece == [i \in 1 .. n |-> script.items[pos + i].val]
           d == Content(Writer, flt, piece)
<1>1. /\ Running /\ ~up.finishSent /\ pos + n <= Len(script.items)
      /\ \A i \in 1 .. n : script.items[pos + i].kind = "text"
      /\ pos' = pos + n
      /\ UNCHANGED <<proto, script, errored, gone, result>>
      /\ up.stitch = <<>> => flt' = d.f /\ Put(d.w)
  BY DEF TextFrame
<1>2. StreamTyped /\ up.stitch \in Stitches
  BY DEF StreamInv, StreamTyped, Ups
<1>3. /\ script.items \in Seq(Items) /\ Len(script.items) \in Nat /\ pos \in Nat
      /\ Said = SaidBy(script.items, pos) /\ Said \in Txt
  BY <1>2, ScriptIs
<1>4. n \in Nat
  BY ReplyAssumption
<1>5. piece \in Txt /\ SaidBy(script.items, pos + n) = Said \o piece
  BY <1>1, <1>3, <1>4, SaidMore
<1>6. Said' = Said \o piece
  <2>1. Said' = SaidBy(script.items, pos + n)
    BY <1>1 DEF Said, Came, SaidBy, Early
  <2> QED BY <1>5, <2>1
<1> SUFFICES ASSUME script.fence PROVE TextWhole'
  BY <1>1 DEF TextWhole
<1> HIDE DEF piece, d
<1>7. Agree(Said, Writer, flt) /\ up.stitch = <<>>
  BY <1>1 DEF StreamInv, FenceAgrees
<1>8. flt' = d.f /\ Put(d.w)
  BY <1>1, <1>7
<1>9. Grows(Writer, d.w) /\ InStep(d.w)
  <2>1. Grows(Writer, d.w)
    BY <1>3, <1>5, <1>7, FencedContent DEF d
  <2> QED BY <2>1 DEF Grows
<1>10. Sails' => Whole(Said \o piece, d.w, d.f)
  <2> SUFFICES ASSUME Sails' PROVE Whole(Said \o piece, d.w, d.f)
    OBVIOUS
  <2>1. ~d.w.o.err /\ ~errored
    BY <1>1, <1>8 DEF Sails, Put
  <2>2. ~out.err
    <3>1. Writer.o = out
      BY DEF Writer
    <3> QED BY <1>9, <2>1, <3>1 DEF Grows, Further
  <2>3. Sails
    BY <1>1, <2>1, <2>2 DEF Sails
  <2>4. ~Writer.o.done /\ Whole(Said, Writer, flt)
    BY <2>3, Fencing
  <2> QED BY <1>3, <1>5, <1>7, <2>1, <2>4, ContentWhole DEF d
<1>11. result' # "ok"
  BY <1>1 DEF Running
<1> QED BY <1>1, <1>6, <1>8, <1>9, <1>10, <1>11, WholeNext

LEMMA ThinkFrameWhole == ASSUME StreamInv, TextWhole, ThinkFrame PROVE TextWhole'
<1> DEFINE v == IF out.err THEN Writer ELSE Show(Writer, Item)
<1>1. /\ Running /\ ~up.finishSent /\ pos < Len(script.items) /\ Item.kind = "think"
      /\ pos' = pos + 1 /\ Put(v)
      /\ UNCHANGED <<proto, script, up, flt, errored, gone, result>>
  BY DEF ThinkFrame
<1>2. StreamTyped /\ InStep(Writer) /\ Writer.c = client /\ Writer.o = out
  BY DEF StreamInv, StreamTyped, Writer
<1>3. Item \in Shows /\ Said' = Said
  <2>1. Item \in Items /\ Item.val \in Val /\ Said' = Said
    BY <1>1, <1>2, NextSaid
  <2> QED BY <1>1, <2>1 DEF Items, Shows
<1> SUFFICES ASSUME script.fence PROVE TextWhole'
  BY <1>1 DEF TextWhole
<1>4. Grows(Writer, v)
  <2>1. Grows(Writer, Writer)
    BY <1>2, GrowsItself
  <2> HIDE DEF Item
  <2>2. Grows(Writer, Show(Writer, Item))
    BY <1>2, <1>3, <2>1, ShowGrows
  <2> QED BY <2>1, <2>2
<1>5. InStep(v)
  BY <1>4 DEF Grows
<1> HIDE DEF v
<1>6. Sails' => Whole(Said, v, flt)
  <2> SUFFICES ASSUME Sails' PROVE Whole(Said, v, flt)
    OBVIOUS
  <2>1. ~v.o.err /\ ~errored
    BY <1>1 DEF Put, Sails
  <2>2. ~out.err
    BY <1>2, <1>4, <2>1 DEF Grows, Further
  <2>3. v = Show(Writer, Item)
    BY <2>2 DEF v
  <2>4. Sails
    BY <1>1, <2>1, <2>2 DEF Sails
  <2>5. ~Writer.o.done /\ Whole(Said, Writer, flt)
    BY <2>4, Fencing
  <2>6. Seen(v.c) = Seen(Writer.c) /\ (Late(v) <=> Late(Writer))
    <3> HIDE DEF Item
    <3> QED BY <1>1, <1>2, <1>3, <2>1, <2>3, <2>5, ShowSeen
  <2>7. ~Promise!HasCall(v.c.got) => ~Promise!HasCall(Writer.c.got)
    BY <1>2, <1>4, NoCallBefore
  <2> QED BY <2>5, <2>6, <2>7 DEF Whole
<1>7. result' # "ok"
  BY <1>1 DEF Running
<1> QED BY <1>1, <1>3, <1>5, <1>6, <1>7, WholeNext

\* A fence channel has neither stitched calls nor text behind them.
LEMMA NothingStitched ==
    ASSUME StreamInv, up.stitch = <<>>, up.deferred = <<>>, InStep(Writer)
    PROVE  Content(FlushTools(Writer), flt, up.deferred) = [w |-> Writer, f |-> flt]
<1>1. up.stitch \in Stitches
  BY DEF StreamInv, StreamTyped, Ups
<1>2. FlushTools(Writer) = Writer
  BY <1>1, FlushIs
<1> QED BY <1>2 DEF Content

LEMMA DoneEventWhole == ASSUME StreamInv, TextWhole, DoneEvent PROVE TextWhole'
<1> DEFINE d == Content(FlushTools(Writer), flt, up.deferred)
<1>1. /\ Running /\ flt' = d.f /\ Put(d.w)
      /\ UNCHANGED <<proto, script, pos, errored, gone, result>>
  BY DEF DoneEvent
<1> SUFFICES ASSUME script.fence PROVE TextWhole'
  BY <1>1 DEF TextWhole
<1>2. up.stitch = <<>> /\ up.deferred = <<>> /\ InStep(Writer) /\ Writer.o = out
  BY DEF StreamInv, FenceAgrees, StreamTyped, Writer
<1>3. d.w = Writer /\ d.f = flt
  BY <1>2, NothingStitched
<1> HIDE DEF d
<1>4. Said' = Said
  BY <1>1 DEF Said, Came
<1>5. Sails' => Whole(Said, Writer, flt)
  <2>1. Sails' => Sails
    BY <1>1, <1>2, <1>3 DEF Sails, Running, Put
  <2> QED BY <2>1 DEF TextWhole
<1>6. result' # "ok"
  BY <1>1 DEF Running
<1> QED BY <1>1, <1>2, <1>3, <1>4, <1>5, <1>6, WholeNext

LEMMA EofWhole == ASSUME StreamInv, TextWhole, Eof PROVE TextWhole'
<1> SUFFICES ASSUME script.fence, (Ok \/ Sails)' PROVE TextWhole'
  BY DEF TextWhole, Eof
<1> DEFINE d == Content(FlushTools(Writer), flt, up.deferred)
<1>1. /\ Running
      /\ IF up.finishSent \/ out.err THEN Settle(Writer, flt) ELSE Settle(d.w, d.f)
      /\ UNCHANGED <<proto, script, pos, up, errored, gone>>
  BY DEF Eof
<1>2. up.stitch = <<>> /\ up.deferred = <<>> /\ InStep(Writer) /\ Writer.o = out
  BY <1>1 DEF StreamInv, FenceAgrees, StreamTyped, Writer
<1>3. d.w = Writer /\ d.f = flt
  BY <1>2, NothingStitched
<1> HIDE DEF d
<1>4. Settle(Writer, flt)
  BY <1>1, <1>3
<1>5. Ok' /\ ~Sails'
  <2>1. result' # "running"
    BY <1>4 DEF Settle, ShutAfter, Shut, Ended, Returned
  <2> QED BY <2>1 DEF Ok, Sails, Running
<1>6. result' = "ok"
  BY <1>5 DEF Ok
<1>7. ~Writer.o.err /\ ~errored
  BY <1>4, <1>6 DEF Settle, Returned
<1>8. Sails
  BY <1>1, <1>2, <1>7 DEF Sails
<1>9. ReadWhole(Said, client')
  BY <1>4, <1>6, <1>8, Fencing, FencedSettle
<1>10. Said' = Said
  BY <1>1 DEF Said, Came
<1>11. ReadWhole(Said, client)'
  BY <1>9, <1>10 DEF ReadWhole, Seen
<1> QED BY <1>5, <1>11 DEF TextWhole

-----------------------------------------------------------------------------
(* What the reader has seen *)

\* A reader who has no call to show has seen none.
LEMMA NoCalls ==
    ASSUME NEW s \in Seq(Shows), Of(s, {"call"}) = <<>>
    PROVE  ~Promise!HasCall(s)
<1> DEFINE n == Len(s)
           K == {"call"}
<1>1. n \in Nat /\ DOMAIN s = 1 .. n /\ \A k \in 1 .. n : s[k] \in Shows
  OBVIOUS
<1>2. PICK F \in [0 .. n -> Seq(Shows)] :
         /\ F[0] = <<>> /\ F[n] = Of(s, K)
         /\ \A k \in 1 .. n :
               F[k] = IF s[k].kind \in K THEN Append(F[k - 1], s[k]) ELSE F[k - 1]
  BY OfSteps DEF Picks
<1> DEFINE P(k) == (\E i \in 1 .. k : s[i].kind \in K) => F[k] # <<>>
           T == {k \in 0 .. n : P(k)}
<1>3. 0 \in T
  BY <1>1
<1>4. ASSUME NEW k \in 1 .. n, k - 1 \in T PROVE k \in T
  <2>1. k - 1 \in 0 .. n /\ k \in 0 .. n /\ F[k - 1] \in Seq(Shows) /\ s[k] \in Shows
    BY <1>1, <1>2
  <2>2. (\E i \in 1 .. k : s[i].kind \in K) <=> (\E i \in 1 .. (k - 1) : s[i].kind \in K) \/ s[k].kind \in K
    <3> HIDE DEF K
    <3> QED BY <2>1
  <2>3. Append(F[k - 1], s[k]) # <<>>
    BY <2>1
  <2> HIDE DEF K
  <2>4. P(k)
    BY <1>2, <1>4, <2>2, <2>3
  <2> QED BY <2>1, <2>4
<1>5. 0 .. n \subseteq T
  <2> HIDE DEF T, n
  <2> QED BY <1>1, <1>3, <1>4, UpTo
<1>6. n \in T
  BY <1>1, <1>5
<1>7. \A i \in 1 .. n : s[i].kind \notin K
  BY <1>2, <1>6
<1> QED BY <1>1, <1>7, HasCallIs

\* Without calls, what there is to see is text.
LEMMA TextsOnly ==
    ASSUME NEW s \in Seq(Shows), ~Promise!HasCall(s)
    PROVE  Of(s, {"text"}) = Of(s, {"text", "call"})
<1> DEFINE n == Len(s)
           K == {"text"}
           L == {"text", "call"}
<1>1. n \in Nat /\ DOMAIN s = 1 .. n
  OBVIOUS
<1>2. \A k \in 1 .. n : s[k].kind \in K <=> s[k].kind \in L
  BY <1>1, HasCallIs
<1>9. Picks(Shows, s, K) /\ Picks(Shows, s, L)
  BY OfSteps
<1> HIDE DEF K, L
<1>3. PICK F \in [0 .. n -> Seq(Shows)] :
         /\ F[0] = <<>> /\ F[n] = Of(s, K)
         /\ \A k \in 1 .. n :
               F[k] = IF s[k].kind \in K THEN Append(F[k - 1], s[k]) ELSE F[k - 1]
  BY <1>9 DEF Picks
<1>4. PICK G \in [0 .. n -> Seq(Shows)] :
         /\ G[0] = <<>> /\ G[n] = Of(s, L)
         /\ \A k \in 1 .. n :
               G[k] = IF s[k].kind \in L THEN Append(G[k - 1], s[k]) ELSE G[k - 1]
  BY <1>9 DEF Picks
<1> DEFINE T == {k \in 0 .. n : F[k] = G[k]}
<1>5. 0 \in T
  BY <1>1, <1>3, <1>4
<1>6. ASSUME NEW k \in 1 .. n, k - 1 \in T PROVE k \in T
  <2>1. k \in 0 .. n /\ F[k - 1] = G[k - 1]
    BY <1>1, <1>6
  <2>2. F[k] = G[k]
    BY <1>2, <1>3, <1>4, <2>1
  <2> QED BY <2>1, <2>2
<1>7. 0 .. n \subseteq T
  <2> HIDE DEF T, n
  <2> QED BY <1>1, <1>5, <1>6, UpTo
<1>8. F[n] = G[n]
  BY <1>1, <1>7
<1> QED BY <1>3, <1>4, <1>8 DEF K, L

LEMMA TokensOfTexts == ASSUME NEW x \in Txt PROVE Tokens(Texts(x)) = x
<1>1. /\ Texts(x) \in Seq(Shows) /\ Len(Texts(x)) = Len(x) /\ Len(x) \in Nat /\ DOMAIN x = 1 .. Len(x)
      /\ \A i \in 1 .. Len(x) : Texts(x)[i] = Text(x[i])
  BY TextsIs DEF Txt
<1> DEFINE t == Texts(x)
<1> HIDE DEF t
<1>2. DOMAIN t = 1 .. Len(x) /\ \A i \in 1 .. Len(x) : t[i].val = x[i]
  <2>1. t \in Seq(Shows) /\ Len(t) = Len(x)
    BY <1>1 DEF t
  <2>2. \A i \in 1 .. Len(x) : t[i] = Text(x[i])
    BY <1>1 DEF t
  <2>3. DOMAIN t = 1 .. Len(x)
    BY <2>1
  <2> QED BY <2>2, <2>3 DEF Text
<1>3. Tokens(t) = [i \in 1 .. Len(x) |-> x[i]]
  BY <1>2 DEF Tokens
<1>4. x = [i \in 1 .. Len(x) |-> x[i]]
  BY <1>1 DEF Txt
<1> QED BY <1>3, <1>4 DEF t

LEMMA WholeRead ==
    ASSUME StreamTyped, TextWhole
    PROVE  NothingHeldBack
<1> SUFFICES ASSUME Ok, script.fence, Calls = <<>>, "result" \notin Range(Said),
                    ~Dangling(Said), ~Muddled(Said)
             PROVE  Unspaced(Shown) = Unspaced(Said)
  BY DEF NothingHeldBack
<1> DEFINE s == client.got
<1>1. s \in Seq(Shows)
  BY DEF StreamTyped, InStep, Writers, Readers, Writer
<1>2. Said \in Txt
  BY ScriptIs
<1>3. Plain(Said)
  <2>1. NoResult(Said)
    BY <1>2 DEF Txt, NoResult, Range
  <2> QED BY <2>1 DEF Plain
<1>4. Of(s, {"call"}) = <<>>
  <2> DEFINE c == Of(s, {"call"})
  <2>1. c \in Seq(Shows)
    <3>1. [kind |-> "text", val |-> ""] \in Shows
      BY DEF Shows, Val
    <3> HIDE DEF s
    <3> QED BY <1>1, <3>1, OfAppend
  <2>2. Tokens(c) = <<>>
    BY DEF Calls
  <2> HIDE DEF c
  <2>3. DOMAIN Tokens(c) = DOMAIN c
    BY DEF Tokens
  <2>4. Len(c) = 0
    BY <2>1, <2>2, <2>3
  <2>5. c = <<>>
    BY <2>1, <2>4
  <2> QED BY <2>5 DEF c
<1>5. ~Promise!HasCall(s)
  <2> HIDE DEF s
  <2> QED BY <1>1, <1>4, NoCalls
<1>6. PICK x \in Txt : Seen(client) = Texts(x) /\ Level(x, Said)
  BY <1>3, <1>5 DEF TextWhole, ReadWhole
<1>7. Of(s, {"text"}) = Seen(client)
  <2>1. Of(s, {"text"}) = Of(s, {"text", "call"})
    <3> HIDE DEF s
    <3> QED BY <1>1, <1>5, TextsOnly
  <2> QED BY <2>1 DEF Seen
<1>8. Shown = x
  BY <1>6, <1>7, TokensOfTexts DEF Shown
<1> QED BY <1>6, <1>8 DEF Level

WholeInv == StreamInv /\ TextWhole

LEMMA WholeStays == Spec => []WholeInv
<1>1. Init => WholeInv
  BY InvInit, WholeInit DEF WholeInv
<1>2. ASSUME WholeInv, Next PROVE WholeInv'
  <2>1. StreamInv /\ TextWhole
    BY <1>2 DEF WholeInv
  <2>2. StreamInv'
    BY <1>2, <2>1, StepKeeps
  <2>3. ASSUME NEW n \in 1 .. MaxPiece, TextFrame(n) PROVE TextWhole'
    BY <2>1, <2>3, TextFrameWhole
  <2>4. TextWhole'
    BY <1>2, <2>1, <2>3, ThinkFrameWhole, CallFrameWhole, FinishReasonWhole, DoneEventWhole,
       ErrorFrameWhole, EofWhole, CutWhole, LeaveWhole DEF Next
  <2> QED BY <2>2, <2>4 DEF WholeInv
<1>3. TextWhole /\ UNCHANGED vars => TextWhole'
  BY WholeStill DEF vars
<1>4. WholeInv /\ [Next]_vars => WholeInv'
  <2>1. WholeInv /\ UNCHANGED vars => StreamInv'
    BY UnchangedKeeps DEF WholeInv
  <2> QED BY <1>2, <1>3, <2>1 DEF WholeInv
<1> QED BY <1>1, <1>4, PTL DEF Spec

\* Whatever the pieces in which the upstream sends it, and however long the
\* filter keeps back what may become a fence: a settled reply of a fence channel
\* in which no call was found has reached its client to the last token, blanks
\* inside a fence mark, made-up results and a dangling mark aside.
THEOREM NothingIsHeldBack == Spec => []NothingHeldBack
<1>1. WholeInv => NothingHeldBack
  <2> SUFFICES ASSUME StreamInv, TextWhole PROVE NothingHeldBack
    BY DEF WholeInv
  <2>1. StreamTyped
    BY DEF StreamInv
  <2> QED BY <2>1, WholeRead
<1> QED BY <1>1, WholeStays, PTL
=============================================================================
