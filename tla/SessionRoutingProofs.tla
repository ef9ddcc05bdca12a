------------------------- MODULE SessionRoutingProofs -------------------------
(***************************************************************************)
(* Proofs about SessionRouting for any conversations, any length of their   *)
(* lists, any number of chats and every setting of the index: no chat is     *)
(* reachable through two entries; and, as long as one account serves them,    *)
(* entries are true and a tail leaves out no instruction.                    *)
(***************************************************************************)
EXTENDS SessionRouting, SequenceTheorems, FiniteSetTheorems, WellFoundedInduction, TLAPS

\* The types the argument about tails needs; TypeOK, with its bounds, is proved at
\* the end.
TurnShape ==
    [pc : {"idle", "asked", "routed", "upstream", "failed"},
     msgs : Seq(Units), from : Nat,
     chat : 0 .. Chats, sticky : Accounts \cup {Nobody},
     at : Accounts \cup {Nobody}, tried : SUBSET Accounts, round : Nat,
     matched : Seq(Units), register : BOOLEAN, id : 0 .. Chats, explicit : BOOLEAN]

Shape ==
    /\ turn \in [Convs -> TurnShape]
    /\ \A k \in DOMAIN entries :
         k \in Seq(Units) /\ entries[k].account \in Accounts /\ entries[k].chat \in 1 .. Chats
    /\ told \in [Accounts \X (1 .. Chats) -> SUBSET Seq(Units)]
    /\ fresh \in 0 .. Chats
    /\ convAcct \in [1 .. Chats -> Accounts \cup {Nobody}]

\* The instructions a prompt leaves out: those before its first message.
LeftOut(t) == {p \in Instructions(t.msgs) : Len(p) < t.from}

\* What a turn leaves out, every account has been told in its chat; what a turn
\* at upstream was to say, its account has been told.
HeardBy(t, tellings) ==
    /\ t.pc \in {"routed", "upstream"} =>
         \A p \in LeftOut(t) : t.chat # NoChat /\ \A n \in Accounts : p \in tellings[n, t.chat]
    /\ t.pc = "upstream" =>
         /\ t.at \in Accounts /\ t.chat \in 1 .. Chats
         /\ Instructions(t.msgs) \subseteq tellings[t.at, t.chat]

Heard == \A c \in Convs : HeardBy(turn[c], told)

\* The chat a client names has been told the instructions of the list it has an
\* answer to, and while it asks for more, those before the last one.
KnownBy(t, tellings) ==
    /\ IdConvs = {} => t.id = NoChat
    /\ t.id # NoChat =>
         \A p \in Instructions(t.msgs) :
            t.pc = "idle" \/ Len(p) < LastUser(t.msgs) =>
                \A n \in Accounts : p \in tellings[n, t.id]

Known == \A c \in Convs : KnownBy(turn[c], told)

IInv == Shape /\ EntriesRemembered /\ Heard /\ Known

\* Clients that name a chat add at most one instruction between two turns.
OneAsk ==
    \A s \in Increments : \A i, j \in DOMAIN s :
        s[i] \in UserUnits /\ s[j] \in UserUnits => i = j

LEMMA ConstantFacts ==
    /\ Chats \in Nat /\ Chats # 0 /\ NoChat = 0
    /\ Increments \subseteq Seq(Units)
    /\ \A h \in 0 .. Chats : h # 0 => h \in 1 .. Chats
BY SessionAssumption DEF NoChat, Units

-----------------------------------------------------------------------------
(* Numbers. *)

\* A non-empty set of naturals has a least member, and a greatest if bounded.
LEMMA LeastOf ==
    ASSUME NEW T \in SUBSET Nat, T # {}
    PROVE  \E i \in T : \A j \in T : i <= j
<1>1. PICK i \in T : \A j \in T : ~(<<j, i>> \in OpToRel(<, Nat))
  <2>1. \E x \in T : \A y \in T : ~(<<y, x>> \in OpToRel(<, Nat))
    BY NatLessThanWellFounded, WFMin
  <2> QED BY <2>1
<1>2. ASSUME NEW j \in T PROVE i <= j
  <2>1. ~(j < i)
    BY <1>1 DEF OpToRel
  <2> QED BY <2>1
<1> QED BY <1>2

LEMMA GreatestOf ==
    ASSUME NEW k \in Nat, NEW T \in SUBSET (1 .. k), T # {}
    PROVE  \E i \in T : \A j \in T : j <= i
<1> DEFINE R == {d \in 0 .. k : \E i \in T : d = k - i}
<1>1. R \in SUBSET Nat /\ R # {}
  <2>1. PICK i \in T : TRUE
    OBVIOUS
  <2>2. k - i \in 0 .. k
    BY <2>1
  <2>3. k - i \in R
    BY <2>2
  <2>4. R \in SUBSET Nat
    OBVIOUS
  <2> QED BY <2>3, <2>4
<1>2. PICK d \in R : \A e \in R : d <= e
  <2> HIDE DEF R
  <2> QED BY <1>1, LeastOf
<1>3. PICK i \in T : d = k - i
  BY <1>2
<1>4. ASSUME NEW j \in T PROVE j <= i
  <2>1. k - j \in R
    OBVIOUS
  <2>2. d <= k - j
    BY <2>1, <1>2
  <2> QED BY <2>2, <1>3
<1> QED BY <1>4

-----------------------------------------------------------------------------
(* Lists and their tails. *)

\* Instructions are prefixes that end in a user message.
LEMMA InstructionsAre ==
    ASSUME NEW m \in Seq(Units)
    PROVE  /\ \A i \in 1 .. Len(m) : m[i] \in UserUnits => SubSeq(m, 1, i) \in Instructions(m)
           /\ \A p \in Instructions(m) :
                /\ p \in Seq(Units)
                /\ \E i \in 1 .. Len(m) : p = SubSeq(m, 1, i) /\ Len(p) = i /\ m[i] \in UserUnits
<1>1. ASSUME NEW i \in 1 .. Len(m)
      PROVE  /\ SubSeq(m, 1, i) \in Seq(Units)
             /\ Len(SubSeq(m, 1, i)) = i
             /\ Last(SubSeq(m, 1, i)) = m[i]
  <2>1. \A j \in 1 .. i : m[j] \in Units
    BY ElementOfSeq, LenProperties
  <2>2. /\ SubSeq(m, 1, i) \in Seq(Units)
        /\ Len(SubSeq(m, 1, i)) = IF 1 <= i THEN i - 1 + 1 ELSE 0
        /\ \A j \in 1 .. i - 1 + 1 : SubSeq(m, 1, i)[j] = m[1 + j - 1]
    <3>1. 1 \in Int /\ i \in Int
      OBVIOUS
    <3> QED BY <2>1, <3>1, SubSeqProperties
  <2>3. Len(SubSeq(m, 1, i)) = i
    BY <2>2
  <2>4. SubSeq(m, 1, i)[i] = m[i]
    BY <2>2
  <2> QED BY <2>2, <2>3, <2>4 DEF Last
<1> QED BY <1>1 DEF Instructions, Context

\* tailAnchorIndex: every instruction before the tail belongs to the prefix the
\* tail continues.
LEMMA TailCovers ==
    ASSUME NEW m \in Seq(Units), NEW k \in 1 .. Len(m)
    PROVE  /\ TailAnchor(m, k) \in Nat
           /\ \A p \in Instructions(m) :
                Len(p) < TailAnchor(m, k) => p \in Instructions(SubSeq(m, 1, k))
<1> DEFINE after  == {i \in k + 1 .. Len(m) : m[i] \in UserUnits}
           before == {i \in 1 .. k : m[i] \in UserUnits}
<1>0. Len(m) \in Nat /\ k \in Nat
  BY LenProperties
<1>1. ASSUME after # {} PROVE TailAnchor(m, k) \in after /\ \A j \in after : TailAnchor(m, k) <= j
  <2>1. \E i \in after : \A j \in after : i <= j
    <3>1. after \in SUBSET Nat
      BY <1>0
    <3> HIDE DEF after
    <3> QED BY <1>1, <3>1, LeastOf
  <2>2. TailAnchor(m, k) = CHOOSE i \in after : \A j \in after : i <= j
    BY <1>1 DEF TailAnchor
  <2> HIDE DEF after
  <2> QED BY <2>1, <2>2
<1>2. ASSUME after = {} PROVE TailAnchor(m, k) \in Nat
  <2>1. CASE before = {}
    BY <1>0, <1>2, <2>1 DEF TailAnchor
  <2>2. CASE before # {}
    <3>1. \E i \in before : \A j \in before : j <= i
      <4>1. before \in SUBSET (1 .. k)
        OBVIOUS
      <4> HIDE DEF before
      <4> QED BY <1>0, <2>2, <4>1, GreatestOf
    <3>2. TailAnchor(m, k) = CHOOSE i \in before : \A j \in before : j <= i
      BY <1>2, <2>2 DEF TailAnchor
    <3>3. TailAnchor(m, k) \in before
      <4> HIDE DEF before
      <4> QED BY <3>1, <3>2
    <3> QED BY <3>3
  <2> QED BY <2>1, <2>2
<1>3. TailAnchor(m, k) \in Nat
  <2>1. CASE after # {}
    BY <1>0, <1>1, <2>1
  <2>2. CASE after = {}
    <3> HIDE DEF after
    <3> QED BY <1>2, <2>2
  <2> QED BY <2>1, <2>2
<1>4. ASSUME NEW p \in Instructions(m), Len(p) < TailAnchor(m, k)
      PROVE  p \in Instructions(SubSeq(m, 1, k))
  <2>1. PICK i \in 1 .. Len(m) : p = SubSeq(m, 1, i) /\ Len(p) = i /\ m[i] \in UserUnits
    BY InstructionsAre
  <2>2. CASE i > k
    <3>1. i \in after
      BY <1>0, <2>1, <2>2
    <3>2. TailAnchor(m, k) <= i
      <4> HIDE DEF after
      <4> QED BY <1>1, <3>1
    <3> QED BY <3>2, <2>1, <1>3, <1>4
  <2>3. CASE i <= k
    <3> DEFINE q == SubSeq(m, 1, k)
    <3>1. \A j \in 1 .. k : m[j] \in Units
      BY ElementOfSeq, <1>0
    <3>2. /\ q \in Seq(Units)
          /\ Len(q) = IF 1 <= k THEN k - 1 + 1 ELSE 0
          /\ \A j \in 1 .. k - 1 + 1 : q[j] = m[1 + j - 1]
      <4>1. 1 \in Int /\ k \in Int
        OBVIOUS
      <4> QED BY <3>1, <4>1, SubSeqProperties
    <3>3. Len(q) = k /\ q[i] = m[i]
      BY <3>2, <2>3
    <3>4. SubSeq(q, 1, i) = SubSeq(m, 1, i)
      <4>1. 1 \in 1 .. Len(m) /\ k \in 1 .. Len(m) /\ 1 \in 1 .. k - 1 + 1 /\ i \in 1 .. k - 1 + 1
        BY <2>3, <1>0
      <4>2. SubSeq(q, 1, i) = SubSeq(m, 1 + 1 - 1, 1 + i - 1)
        BY <4>1, <3>2, SubSeqOfSubSeq
      <4>3. 1 + 1 - 1 = 1 /\ 1 + i - 1 = i
        BY <2>3
      <4> HIDE DEF q
      <4> QED BY <4>2, <4>3
    <3>5. i \in 1 .. Len(q) /\ q[i] \in UserUnits
      BY <3>3, <2>1, <2>3
    <3>6. p \in Instructions(q)
      <4> HIDE DEF q
      <4> QED BY <3>2, <3>4, <3>5, <2>1, InstructionsAre
    <3> QED BY <3>6
  <2> QED BY <2>1, <2>2, <2>3, <1>0
<1> QED BY <1>3, <1>4

LEMMA LastUserIs ==
    ASSUME NEW m \in Seq(Units)
    PROVE  /\ LastUser(m) \in Nat
           /\ \A i \in 1 .. Len(m) : m[i] \in UserUnits =>
                /\ i <= LastUser(m) /\ LastUser(m) \in 1 .. Len(m)
                /\ m[LastUser(m)] \in UserUnits
<1> DEFINE said == {i \in DOMAIN m : m[i] \in UserUnits}
<1>1. Len(m) \in Nat /\ DOMAIN m = 1 .. Len(m)
  BY LenProperties
<1>2. CASE said = {}
  <2>1. LastUser(m) = 1
    BY <1>2 DEF LastUser
  <2> QED BY <1>1, <1>2, <2>1
<1>3. CASE said # {}
  <2>1. \E i \in said : \A j \in said : j <= i
    <3>1. said \in SUBSET (1 .. Len(m))
      BY <1>1
    <3> HIDE DEF said
    <3> QED BY <1>1, <1>3, <3>1, GreatestOf
  <2>2. LastUser(m) = CHOOSE i \in said : \A j \in said : j <= i
    BY <1>3 DEF LastUser
  <2>3. LastUser(m) \in said /\ \A j \in said : j <= LastUser(m)
    <3> HIDE DEF said
    <3> QED BY <2>1, <2>2
  <2> QED BY <1>1, <2>3
<1> QED BY <1>2, <1>3

\* A list that grew by one instruction at most: those before the last one were
\* in it.
LEMMA GrownCovers ==
    ASSUME OneAsk, NEW m \in Seq(Units), NEW s \in Increments,
           NEW p \in Instructions(m \o s), Len(p) < LastUser(m \o s)
    PROVE  p \in Instructions(m)
<1> DEFINE x == m \o s
           L == LastUser(x)
<1>1. s \in Seq(Units)
  BY ConstantFacts
<1>2. /\ x \in Seq(Units) /\ Len(x) = Len(m) + Len(s)
      /\ \A i \in 1 .. Len(m) + Len(s) :
           x[i] = IF i <= Len(m) THEN m[i] ELSE s[i - Len(m)]
  BY <1>1, ConcatProperties
<1>3. Len(m) \in Nat /\ Len(s) \in Nat /\ DOMAIN s = 1 .. Len(s)
  BY <1>1, LenProperties
<1> HIDE DEF x
<1>4. PICK i \in 1 .. Len(x) : p = SubSeq(x, 1, i) /\ Len(p) = i /\ x[i] \in UserUnits
  BY <1>2, InstructionsAre DEF x
<1>5. L \in Nat /\ L \in 1 .. Len(x) /\ x[L] \in UserUnits /\ i < L
  <2>1. i < L
    BY <1>4 DEF x
  <2> QED BY <2>1, <1>2, <1>4, LastUserIs
<1>6. i <= Len(m)
  <2> SUFFICES ASSUME i > Len(m) PROVE FALSE
    BY <1>2, <1>3
  <2>1. i - Len(m) \in 1 .. Len(s) /\ L - Len(m) \in 1 .. Len(s)
    BY <1>2, <1>3, <1>5
  <2>2. x[i] = s[i - Len(m)] /\ x[L] = s[L - Len(m)]
    <3>1. i \in 1 .. Len(m) + Len(s) /\ L \in 1 .. Len(m) + Len(s) /\ ~(i <= Len(m)) /\ ~(L <= Len(m))
      BY <1>2, <1>3, <1>5
    <3> QED BY <1>2, <3>1
  <2>3. i - Len(m) = L - Len(m)
    BY <2>1, <2>2, <1>3, <1>4, <1>5 DEF OneAsk
  <2> QED BY <2>3, <1>2, <1>3, <1>5
<1>7. i \in 1 .. Len(m) /\ m[i] \in UserUnits
  <2>1. i \in 1 .. Len(m) + Len(s)
    BY <1>2
  <2>2. x[i] = m[i]
    BY <2>1, <1>2, <1>6
  <2> QED BY <2>1, <2>2, <1>3, <1>4, <1>6
<1>8. SubSeq(x, 1, i) = SubSeq(m, 1, i)
  <2>1. 1 \in 1 .. Len(m)
    BY <1>3, <1>7
  <2> QED BY <2>1, <1>1, <1>7, SubSeqOfConcat1 DEF x
<1> QED BY <1>4, <1>7, <1>8, InstructionsAre

\* Replacing one message of a list.
LEMMA OneReplaced ==
    ASSUME NEW n \in Nat, NEW m \in [1 .. n -> Units], NEW last \in Units
    PROVE  /\ [m EXCEPT ![n] = last] \in [1 .. n -> Units]
           /\ \A i \in 1 .. n : i # n => [m EXCEPT ![n] = last][i] = m[i]
           /\ \A i \in 1 .. n : i = n => [m EXCEPT ![n] = last][i] = last
OBVIOUS

\* A list whose end was edited: nothing before the last instruction changed.
LEMMA EditedCovers ==
    ASSUME NEW m \in Seq(Units), NEW last \in Units,
           last = m[Len(m)] \/ {last, m[Len(m)]} \subseteq UserUnits
    PROVE  LET e == [m EXCEPT ![Len(m)] = last]
           IN  /\ e \in Seq(Units)
               /\ \A p \in Instructions(e) : Len(p) < LastUser(e) =>
                    p \in Instructions(m) /\ Len(p) < LastUser(m)
<1> DEFINE e == [m EXCEPT ![Len(m)] = last]
<1>0. Len(m) \in Nat
  BY LenProperties
<1>1. Len(m) \in Nat /\ m \in [1 .. Len(m) -> Units]
  BY LenProperties
<1>2. /\ e \in [1 .. Len(m) -> Units]
      /\ \A i \in 1 .. Len(m) : i # Len(m) => e[i] = m[i]
      /\ \A i \in 1 .. Len(m) : i = Len(m) => e[i] = last
  BY <1>1, OneReplaced
<1> HIDE DEF e
<1>3. \A i \in 1 .. Len(m) : e[i] \in UserUnits <=> m[i] \in UserUnits
  <2>1. ASSUME NEW i \in 1 .. Len(m), i = Len(m) PROVE e[i] \in UserUnits <=> m[i] \in UserUnits
    BY <1>2, <2>1
  <2> QED BY <2>1, <1>2
<1>4. e \in Seq(Units) /\ Len(e) = Len(m) /\ DOMAIN e = 1 .. Len(m) /\ DOMAIN m = 1 .. Len(m)
  <2>1. e \in Seq(Units) /\ DOMAIN e = 1 .. Len(m)
    BY <1>0, <1>2
  <2>2. Len(e) \in Nat /\ DOMAIN e = 1 .. Len(e)
    BY <2>1, LenProperties
  <2>3. Len(e) = Len(m)
    BY <2>1, <2>2, <1>0
  <2>4. DOMAIN m = 1 .. Len(m)
    BY <1>1
  <2> QED BY <2>1, <2>3, <2>4
<1>5. LastUser(e) = LastUser(m)
  <2>1. {i \in DOMAIN e : e[i] \in UserUnits} = {i \in DOMAIN m : m[i] \in UserUnits}
    BY <1>3, <1>4
  <2> DEFINE F(T) == IF T = {} THEN 1 ELSE CHOOSE i \in T : \A j \in T : j <= i
  <2>2. LastUser(e) = F({i \in DOMAIN e : e[i] \in UserUnits})
    BY Zenon DEF LastUser
  <2>3. LastUser(m) = F({i \in DOMAIN m : m[i] \in UserUnits})
    BY Zenon DEF LastUser
  <2> HIDE DEF F
  <2> QED BY Zenon, <2>1, <2>2, <2>3
<1>6. ASSUME NEW p \in Instructions(e), Len(p) < LastUser(e)
      PROVE  p \in Instructions(m) /\ Len(p) < LastUser(m)
  <2>1. PICK i \in 1 .. Len(e) : p = SubSeq(e, 1, i) /\ Len(p) = i /\ e[i] \in UserUnits
    BY <1>4, InstructionsAre
  <2>2. LastUser(e) \in 1 .. Len(e)
    BY <2>1, <1>4, LastUserIs
  <2>3. i \in 1 .. Len(m) /\ i < Len(m)
    BY <2>1, <2>2, <1>1, <1>4, <1>6
  <2>4. SubSeq(e, 1, i) = SubSeq(m, 1, i)
    <3>1. 1 \in Int /\ i \in Int /\ i - 1 + 1 = i
      BY <2>3
    <3>2. \A j \in 1 .. i : m[j] \in Units /\ e[j] \in Units /\ e[j] = m[j]
      <4> SUFFICES ASSUME NEW j \in 1 .. i PROVE m[j] \in Units /\ e[j] \in Units /\ e[j] = m[j]
        OBVIOUS
      <4>1. j \in 1 .. Len(m) /\ j # Len(m)
        BY <2>3, <1>0
      <4> QED BY <4>1, <1>1, <1>2
    <3>3. /\ SubSeq(m, 1, i) \in Seq(Units)
          /\ Len(SubSeq(m, 1, i)) = IF 1 <= i THEN i - 1 + 1 ELSE 0
          /\ \A j \in 1 .. i - 1 + 1 : SubSeq(m, 1, i)[j] = m[1 + j - 1]
      BY <3>1, <3>2, SubSeqProperties
    <3>4. /\ SubSeq(e, 1, i) \in Seq(Units)
          /\ Len(SubSeq(e, 1, i)) = IF 1 <= i THEN i - 1 + 1 ELSE 0
          /\ \A j \in 1 .. i - 1 + 1 : SubSeq(e, 1, i)[j] = e[1 + j - 1]
      BY <3>1, <3>2, SubSeqProperties
    <3>5. Len(SubSeq(m, 1, i)) = i /\ Len(SubSeq(e, 1, i)) = i
      BY <2>3, <3>3, <3>4
    <3>6. \A j \in 1 .. i : SubSeq(e, 1, i)[j] = SubSeq(m, 1, i)[j]
      <4> TAKE j \in 1 .. i
      <4>1. 1 + j - 1 = j /\ j \in 1 .. i - 1 + 1
        BY <3>1
      <4> QED BY <4>1, <3>2, <3>3, <3>4
    <3> QED BY <3>3, <3>4, <3>5, <3>6, SeqEqual
  <2>5. m[i] \in UserUnits
    BY <2>1, <2>3, <1>3
  <2>6. p \in Instructions(m)
    BY <2>1, <2>3, <2>4, <2>5, InstructionsAre
  <2> QED BY <2>6, <1>5, <1>6
<1> QED BY <1>4, <1>6 DEF e

\* match: what it finds is an entry, and a proper prefix of the list.
LEMMA BestIs ==
    ASSUME NEW m \in Seq(Units), Matches(m) # {}
    PROVE  \E n \in 1 .. Len(m) : Best(m) = SubSeq(m, 1, n) /\ Best(m) \in DOMAIN entries /\ Len(Best(m)) = n
<1>0. Len(m) \in Nat
  BY LenProperties
<1>1. \E n \in Matches(m) : \A k \in Matches(m) : k <= n
  <2>1. Matches(m) \in SUBSET (1 .. Len(m))
    BY <1>0 DEF Matches
  <2> QED BY <1>0, <2>1, GreatestOf
<1>2. PICK n \in Matches(m) : Best(m) = SubSeq(m, 1, n)
  BY <1>1 DEF Best
<1>3. n \in 1 .. Len(m) /\ SubSeq(m, 1, n) \in DOMAIN entries
  BY <1>0, <1>2 DEF Matches
<1>4. Len(SubSeq(m, 1, n)) = n
  <2>1. \A j \in 1 .. n : m[j] \in Units
    BY ElementOfSeq, <1>0, <1>3
  <2>2. 1 \in Int /\ n \in Int
    BY <1>3
  <2>3. Len(SubSeq(m, 1, n)) = IF 1 <= n THEN n - 1 + 1 ELSE 0
    BY <2>1, <2>2, SubSeqProperties
  <2> QED BY <2>3, <1>3
<1> QED BY <1>2, <1>3, <1>4

-----------------------------------------------------------------------------
(* One entry per chat. *)

\* register drops what the chat had before it adds its list.
LEMMA RegisterKeepsOne ==
    ASSUME OneEntryPerChat, NEW key, NEW n, NEW chat, Register(key, n, chat)
    PROVE  OneEntryPerChat'
<1> DEFINE kept == IF Evicts THEN Dropped(entries, {order[Oldest]}) ELSE entries
           ours == {k \in DOMAIN kept : kept[k].account = n /\ kept[k].chat = chat}
           ref  == [account |-> n, chat |-> chat,
                    tails |-> IF ours = {} THEN 0
                              ELSE kept[CHOOSE k \in ours : TRUE].tails + 1,
                    contended |-> key \in DOMAIN kept \ ours]
           rest == Dropped(kept, ours \cup {key})
<1>1. \A k \in DOMAIN kept : k \in DOMAIN entries /\ kept[k] = entries[k]
  BY DEF Dropped
<1>2. DOMAIN rest = DOMAIN kept \ (ours \cup {key}) /\ \A k \in DOMAIN rest : rest[k] = kept[k]
  <2> HIDE DEF kept, ours
  <2> QED BY DEF Dropped
<1>3. entries' = [k \in DOMAIN rest \cup {key} |-> IF k = key THEN ref ELSE rest[k]]
  BY DEF Register
<1>4. ref.account = n /\ ref.chat = chat
  OBVIOUS
<1>5. ASSUME NEW k \in DOMAIN entries', k # key
      PROVE  /\ k \in DOMAIN entries /\ entries'[k] = entries[k]
             /\ ~(entries'[k].account = n /\ entries'[k].chat = chat)
  <2>1. k \in DOMAIN rest /\ entries'[k] = rest[k]
    <3> HIDE DEF rest, ref
    <3> QED BY <1>3, <1>5
  <2>2. k \in DOMAIN kept /\ k \notin ours /\ entries'[k] = kept[k]
    <3> HIDE DEF rest, kept, ours
    <3> QED BY <1>2, <2>1
  <2>3. ~(kept[k].account = n /\ kept[k].chat = chat)
    <3> HIDE DEF kept
    <3> QED BY <2>2
  <2> HIDE DEF kept
  <2> QED BY <1>1, <2>2, <2>3
<1>6. entries'[key] = ref
  <2> HIDE DEF rest, ref
  <2> QED BY <1>3
<1> HIDE DEF kept, ours, ref, rest
<1>7. ASSUME NEW j \in DOMAIN entries', NEW k \in DOMAIN entries',
             entries'[j].account = entries'[k].account, entries'[j].chat = entries'[k].chat
      PROVE  j = k
  <2>1. CASE j # key /\ k # key
    BY <1>5, <1>7, <2>1 DEF OneEntryPerChat
  <2>2. CASE j # key /\ k = key
    BY <1>4, <1>5, <1>6, <1>7, <2>2
  <2>3. CASE j = key /\ k # key
    BY <1>4, <1>5, <1>6, <1>7, <2>3
  <2> QED BY <2>1, <2>2, <2>3
<1> QED BY <1>7 DEF OneEntryPerChat

LEMMA DroppedKeepsOne ==
    ASSUME OneEntryPerChat, NEW keys, entries' = Dropped(entries, keys)
    PROVE  OneEntryPerChat'
BY DEF OneEntryPerChat, Dropped

\* The index never holds two lists of one chat, whatever turns cross, fail or
\* are evicted: a chat is continued from one place.
THEOREM ChatsContinuedOnce == Spec => []OneEntryPerChat
<1>1. Init => OneEntryPerChat
  BY DEF Init, OneEntryPerChat
<1>2. OneEntryPerChat /\ [Next]_vars => OneEntryPerChat'
  <2> SUFFICES ASSUME OneEntryPerChat, [Next]_vars PROVE OneEntryPerChat'
    OBVIOUS
  <2>1. ASSUME UNCHANGED entries PROVE OneEntryPerChat'
    BY <2>1 DEF OneEntryPerChat
  <2>2. ASSUME NEW c \in Convs, RouteAway(c) PROVE OneEntryPerChat'
    BY <2>2, DroppedKeepsOne DEF RouteAway
  <2>3. ASSUME NEW c \in Convs, Fail(c) PROVE OneEntryPerChat'
    BY <2>3, DroppedKeepsOne DEF Fail
  <2>4. ASSUME NEW c \in Convs, Succeed(c) PROVE OneEntryPerChat'
    <3>1. CASE turn[c].register
      BY <2>4, <3>1, RegisterKeepsOne DEF Succeed
    <3>2. CASE ~turn[c].register
      BY <2>1, <2>4, <3>2 DEF Succeed
    <3> QED BY <3>1, <3>2
  <2>5. ASSUME NEW c \in Convs,
               \/ \E more \in Increments : Ask(c, more)
               \/ \E last \in Units : AskAgain(c, last)
               \/ \E first \in 1 .. MaxUnits : RouteExplicit(c, first)
               \/ RouteNative(c) \/ Continue(c) \/ RouteUnmatched(c)
               \/ \E n \in Accounts : Send(c, n) \/ NotSent(c, n)
               \/ NobodyLeft(c) \/ FailWriting(c) \/ Rotate(c)
        PROVE  UNCHANGED entries
    BY <2>5 DEF Ask, AskAgain, RouteExplicit, RouteNative, Continue, RouteUnmatched, Send, NotSent,
                NobodyLeft, FailWriting, Rotate
  <2>6. ASSUME \/ \E n \in Accounts : HealthChange(n)
               \/ Tick
               \/ UNCHANGED vars
        PROVE  UNCHANGED entries
    BY <2>6 DEF HealthChange, Tick, vars
  <2>7. ASSUME Restart PROVE OneEntryPerChat'
    BY <2>7 DEF Restart, OneEntryPerChat
  <2> QED BY <2>1, <2>2, <2>3, <2>4, <2>5, <2>6, <2>7 DEF Next
<1> QED BY <1>1, <1>2, PTL DEF Spec

-----------------------------------------------------------------------------
(* What is typed stays typed. *)

LEMMA ContextType ==
    ASSUME NEW m \in Seq(Units)
    PROVE  Context(m) \subseteq Seq(Units)
<1> SUFFICES ASSUME NEW i \in 1 .. Len(m) PROVE SubSeq(m, 1, i) \in Seq(Units)
  BY DEF Context
<1>1. \A j \in 1 .. i : m[j] \in Units
  BY ElementOfSeq, LenProperties
<1>2. 1 \in Int /\ i \in Int
  OBVIOUS
<1> QED BY <1>1, <1>2, SubSeqProperties

\* One conversation moves: the others keep their turns.
LEMMA TurnMoves ==
    ASSUME turn \in [Convs -> TurnShape], NEW c \in Convs, NEW t \in TurnShape,
           turn' = [turn EXCEPT ![c] = t]
    PROVE  turn' \in [Convs -> TurnShape]
OBVIOUS

LEMMA RegisterShape ==
    ASSUME Shape, NEW key \in Seq(Units), NEW n \in Accounts, NEW chat \in 1 .. Chats,
           Register(key, n, chat)
    PROVE  \A k \in DOMAIN entries' :
             /\ k \in Seq(Units) /\ entries'[k].account \in Accounts /\ entries'[k].chat \in 1 .. Chats
             /\ \/ k = key /\ entries'[k].account = n /\ entries'[k].chat = chat
                \/ k \in DOMAIN entries /\ entries'[k] = entries[k]
<1> DEFINE kept == IF Evicts THEN Dropped(entries, {order[Oldest]}) ELSE entries
           ours == {k \in DOMAIN kept : kept[k].account = n /\ kept[k].chat = chat}
           ref  == [account |-> n, chat |-> chat,
                    tails |-> IF ours = {} THEN 0
                              ELSE kept[CHOOSE k \in ours : TRUE].tails + 1,
                    contended |-> key \in DOMAIN kept \ ours]
           rest == Dropped(kept, ours \cup {key})
<1>1. \A k \in DOMAIN kept : k \in DOMAIN entries /\ kept[k] = entries[k]
  BY DEF Dropped
<1>2. \A k \in DOMAIN rest : k \in DOMAIN kept /\ rest[k] = kept[k]
  <2> HIDE DEF kept, ours
  <2> QED BY DEF Dropped
<1>3. entries' = [k \in DOMAIN rest \cup {key} |-> IF k = key THEN ref ELSE rest[k]]
  BY DEF Register
<1>4. ref.account = n /\ ref.chat = chat
  OBVIOUS
<1> HIDE DEF kept, ours, ref, rest
<1>5. ASSUME NEW k \in DOMAIN entries'
      PROVE  \/ k = key /\ entries'[k].account = n /\ entries'[k].chat = chat
             \/ k \in DOMAIN entries /\ entries'[k] = entries[k]
  BY <1>1, <1>2, <1>3, <1>4
<1> QED BY <1>5 DEF Shape

LEMMA DroppedKeeps ==
    ASSUME NEW keys, entries' = Dropped(entries, keys)
    PROVE  \A k \in DOMAIN entries' : k \in DOMAIN entries /\ entries'[k] = entries[k]
BY DEF Dropped

LEMMA RestShape ==
    ASSUME Shape, NEW c \in Convs, NEW pc \in {"idle", "failed"}, NEW id \in 0 .. Chats
    PROVE  /\ Rest(c, pc, id) \in TurnShape
           /\ Rest(c, pc, id).pc = pc
           /\ Rest(c, pc, id).msgs = turn[c].msgs
           /\ Rest(c, pc, id).id = id
<1>1. turn[c].msgs \in Seq(Units) /\ <<>> \in Seq(Units)
  BY DEF Shape, TurnShape
<1>2. NoChat \in 0 .. Chats /\ 1 \in Nat /\ 0 \in Nat
  BY ConstantFacts
<1>3. NoTurn \in TurnShape
  BY <1>1, <1>2 DEF NoTurn, TurnShape
<1> QED BY <1>1, <1>3 DEF TurnShape, Rest

LEMMA RoutedShape ==
    ASSUME Shape, NEW c \in Convs, Matches(turn[c].msgs) # {}
    PROVE  LET k == Best(turn[c].msgs)
           IN  /\ k \in DOMAIN entries /\ k \in Seq(Units)
               /\ entries[k].account \in Accounts /\ entries[k].chat \in 1 .. Chats
               /\ TailAnchor(turn[c].msgs, Len(k)) \in Nat
               /\ \A p \in Instructions(turn[c].msgs) :
                    Len(p) < TailAnchor(turn[c].msgs, Len(k)) => p \in Instructions(k)
<1>1. turn[c].msgs \in Seq(Units)
  BY DEF Shape, TurnShape
<1> DEFINE m == turn[c].msgs
           k == Best(m)
<1>2. PICK n \in 1 .. Len(m) : k = SubSeq(m, 1, n) /\ k \in DOMAIN entries /\ Len(k) = n
  <2> HIDE DEF k
  <2>1. \E n \in 1 .. Len(m) : Best(m) = SubSeq(m, 1, n) /\ Best(m) \in DOMAIN entries /\ Len(Best(m)) = n
    BY <1>1, BestIs
  <2> QED BY <2>1 DEF k
<1>3. /\ TailAnchor(m, n) \in Nat
      /\ \A p \in Instructions(m) : Len(p) < TailAnchor(m, n) => p \in Instructions(SubSeq(m, 1, n))
  BY <1>1, TailCovers
<1>4. k \in Seq(Units) /\ entries[k].account \in Accounts /\ entries[k].chat \in 1 .. Chats
  <2> HIDE DEF k
  <2> QED BY <1>2 DEF Shape
<1> QED BY <1>2, <1>3, <1>4

-----------------------------------------------------------------------------
(* The instructions of a conversation. *)

\* What is told stays told.
LEMMA KnownGrows ==
    ASSUME NEW t \in TurnShape, KnownBy(t, told),
           \A n \in Accounts : \A h \in 1 .. Chats : told[n, h] \subseteq told'[n, h]
    PROVE  KnownBy(t, told')
<1>1. ASSUME t.id # NoChat, NEW p \in Instructions(t.msgs),
             t.pc = "idle" \/ Len(p) < LastUser(t.msgs), NEW n \in Accounts
      PROVE  p \in told'[n, t.id]
  <2>1. p \in told[n, t.id]
    BY <1>1 DEF KnownBy
  <2>2. t.id \in 1 .. Chats
    <3>1. t.id \in 0 .. Chats /\ t.id # 0
      BY <1>1, ConstantFacts DEF TurnShape
    <3> QED BY <3>1, ConstantFacts
  <2> QED BY <2>1, <2>2
<1>2. IdConvs = {} => t.id = NoChat
  BY DEF KnownBy
<1> QED BY <1>1, <1>2 DEF KnownBy

\* A turn that keeps its list and its id knows what it knew.
LEMMA KnownOn ==
    ASSUME IInv, NEW c \in Convs, NEW t, t.msgs = turn[c].msgs, t.id = turn[c].id,
           t.pc = "idle" => turn[c].pc = "idle"
    PROVE  KnownBy(t, told)
BY DEF IInv, Known, KnownBy

\* A turn that moves on, over entries that are true and with its own
\* instructions heard, keeps the invariant.
LEMMA OneTurnMoves ==
    ASSUME IInv, NEW c \in Convs, NEW t \in TurnShape, turn' = [turn EXCEPT ![c] = t],
           HeardBy(t, told'), KnownBy(t, told'),
           \A k \in DOMAIN entries' :
             /\ k \in Seq(Units) /\ entries'[k].account \in Accounts
             /\ entries'[k].chat \in 1 .. Chats
             /\ Instructions(k) \subseteq told'[entries'[k].account, entries'[k].chat],
           told' \in [Accounts \X (1 .. Chats) -> SUBSET Seq(Units)],
           \A n \in Accounts : \A h \in 1 .. Chats : told[n, h] \subseteq told'[n, h],
           fresh' \in 0 .. Chats,
           convAcct' \in [1 .. Chats -> Accounts \cup {Nobody}]
    PROVE  IInv'
<1>1. turn \in [Convs -> TurnShape]
  BY DEF IInv, Shape
<1>2. turn' \in [Convs -> TurnShape]
  BY <1>1, TurnMoves
<1>3. Shape'
  BY <1>2 DEF Shape
<1>4. EntriesRemembered'
  BY DEF EntriesRemembered
<1>5. ASSUME NEW d \in Convs PROVE HeardBy(turn'[d], told')
  <2>1. CASE d = c
    BY <1>1, <2>1
  <2>2. CASE d # c
    <3>1. turn'[d] = turn[d]
      BY <1>1, <2>2
    <3>2. HeardBy(turn[d], told)
      BY DEF IInv, Heard
    <3>3. turn[d].chat \in 0 .. Chats
      BY <1>1 DEF TurnShape
    <3>4. ASSUME turn[d].pc \in {"routed", "upstream"}, NEW p \in LeftOut(turn[d])
          PROVE  turn[d].chat # NoChat /\ \A n \in Accounts : p \in told'[n, turn[d].chat]
      <4>1. turn[d].chat # NoChat /\ \A n \in Accounts : p \in told[n, turn[d].chat]
        BY <3>2, <3>4 DEF HeardBy
      <4>2. turn[d].chat \in 1 .. Chats
        <5>1. turn[d].chat \in 0 .. Chats /\ turn[d].chat # 0
          BY <3>3, <4>1, ConstantFacts
        <5> QED BY <5>1, ConstantFacts
      <4> QED BY <4>1, <4>2
    <3>5. ASSUME turn[d].pc = "upstream"
          PROVE  /\ turn[d].at \in Accounts /\ turn[d].chat \in 1 .. Chats
                 /\ Instructions(turn[d].msgs) \subseteq told'[turn[d].at, turn[d].chat]
      <4>1. /\ turn[d].at \in Accounts /\ turn[d].chat \in 1 .. Chats
            /\ Instructions(turn[d].msgs) \subseteq told[turn[d].at, turn[d].chat]
        BY <3>2, <3>5 DEF HeardBy
      <4> QED BY <4>1
    <3>6. HeardBy(turn[d], told')
      BY <3>4, <3>5 DEF HeardBy
    <3> QED BY <3>1, <3>6
  <2> QED BY <2>1, <2>2
<1>6. ASSUME NEW d \in Convs PROVE KnownBy(turn'[d], told')
  <2>1. CASE d = c
    BY <1>1, <2>1
  <2>2. CASE d # c
    <3>1. turn'[d] = turn[d] /\ turn[d] \in TurnShape
      BY <1>1, <2>2
    <3>2. KnownBy(turn[d], told)
      BY DEF IInv, Known
    <3> QED BY <3>1, <3>2, KnownGrows
  <2> QED BY <2>1, <2>2
<1>7. Heard' /\ Known'
  BY <1>5, <1>6 DEF Heard, Known
<1> QED BY <1>3, <1>4, <1>7 DEF IInv

\* The same when nothing more is told and entries at most go.
LEMMA OneTurnMovesQuietly ==
    ASSUME IInv, NEW c \in Convs, NEW t \in TurnShape, turn' = [turn EXCEPT ![c] = t],
           HeardBy(t, told), KnownBy(t, told),
           \A k \in DOMAIN entries' : k \in DOMAIN entries /\ entries'[k] = entries[k],
           told' = told, fresh' \in 0 .. Chats,
           convAcct' \in [1 .. Chats -> Accounts \cup {Nobody}]
    PROVE  IInv'
<1>1. \A k \in DOMAIN entries' :
        /\ k \in Seq(Units) /\ entries'[k].account \in Accounts
        /\ entries'[k].chat \in 1 .. Chats
        /\ Instructions(k) \subseteq told'[entries'[k].account, entries'[k].chat]
  BY DEF IInv, Shape, EntriesRemembered
<1>2. told' \in [Accounts \X (1 .. Chats) -> SUBSET Seq(Units)]
  BY DEF IInv, Shape
<1>3. \A n \in Accounts : \A h \in 1 .. Chats : told[n, h] \subseteq told'[n, h]
  OBVIOUS
<1>4. HeardBy(t, told') /\ KnownBy(t, told')
  OBVIOUS
<1> QED BY <1>1, <1>2, <1>3, <1>4, OneTurnMoves

\* A turn that is not on its way has nothing to have heard.
LEMMA AtRest ==
    ASSUME NEW t, t.pc \notin {"routed", "upstream"}
    PROVE  HeardBy(t, told)
BY DEF HeardBy

LEMMA AskStep ==
    ASSUME IdConvs = {} \/ OneAsk, IInv, NEW c \in Convs, NEW more \in Increments, Ask(c, more)
    PROVE  IInv'
<1> DEFINE x == turn[c].msgs \o more
           t == [turn[c] EXCEPT !.pc = "asked", !.msgs = x]
<1>1. turn \in [Convs -> TurnShape] /\ turn[c] \in TurnShape /\ turn[c].msgs \in Seq(Units) /\ fresh \in 0 .. Chats
  BY DEF IInv, Shape, TurnShape
<1>2. more \in Seq(Units)
  BY ConstantFacts
<1>3. x \in Seq(Units)
  BY <1>1, <1>2
<1>5. turn' = [turn EXCEPT ![c] = t]
  BY <1>1 DEF Ask
<1>6. entries' = entries /\ told' = told /\ fresh' = fresh /\ convAcct' \in [1 .. Chats -> Accounts \cup {Nobody}]
  BY DEF Ask, IInv, Shape
<1>8. ASSUME turn[c].id # NoChat, NEW p \in Instructions(x), Len(p) < LastUser(x),
             NEW n \in Accounts
      PROVE  p \in told[n, turn[c].id]
  <2>1. KnownBy(turn[c], told) /\ turn[c].pc = "idle"
    BY DEF IInv, Known, Ask
  <2>2. p \in Instructions(turn[c].msgs)
    <3>1. OneAsk
      BY <1>8, <2>1 DEF KnownBy
    <3> QED BY <3>1, <1>1, <1>8, GrownCovers
  <2> QED BY <2>1, <2>2, <1>8 DEF KnownBy
<1> HIDE DEF x
<1>4. t \in TurnShape /\ t.pc = "asked" /\ t.msgs = x /\ t.id = turn[c].id
  BY <1>1, <1>3 DEF TurnShape
<1> HIDE DEF t
<1>7. HeardBy(t, told)
  BY <1>4, AtRest
<1>9. KnownBy(t, told)
  <2>1. IdConvs = {} => t.id = NoChat
    BY <1>4 DEF IInv, Known, KnownBy
  <2> QED BY <2>1, <1>4, <1>8 DEF KnownBy
<1> QED BY <1>1, <1>4, <1>5, <1>6, <1>7, <1>9, OneTurnMovesQuietly

LEMMA AskAgainStep ==
    ASSUME IInv, NEW c \in Convs, NEW last \in Units, AskAgain(c, last)
    PROVE  IInv'
<1> DEFINE m == turn[c].msgs
           e == [m EXCEPT ![Len(m)] = last]
           t == [turn[c] EXCEPT !.pc = "asked", !.msgs = e]
<1>1. turn \in [Convs -> TurnShape] /\ turn[c] \in TurnShape /\ m \in Seq(Units) /\ fresh \in 0 .. Chats
  BY DEF IInv, Shape, TurnShape
<1>5. turn' = [turn EXCEPT ![c] = t]
  BY <1>1 DEF AskAgain
<1>3. /\ e \in Seq(Units)
      /\ \A p \in Instructions(e) : Len(p) < LastUser(e) =>
           p \in Instructions(m) /\ Len(p) < LastUser(m)
  <2>1. last = m[Len(m)] \/ {last, m[Len(m)]} \subseteq UserUnits
    BY DEF AskAgain
  <2> HIDE DEF m
  <2> QED BY <1>1, <2>1, EditedCovers
<1> HIDE DEF e
<1>4. t \in TurnShape /\ t.pc = "asked" /\ t.msgs = e /\ t.id = turn[c].id
  BY <1>1, <1>3 DEF TurnShape
<1> HIDE DEF t
<1>6. entries' = entries /\ told' = told /\ fresh' = fresh /\ convAcct' \in [1 .. Chats -> Accounts \cup {Nobody}]
  BY DEF AskAgain, IInv, Shape
<1>7. HeardBy(t, told)
  BY <1>4, AtRest
<1>8. KnownBy(turn[c], told)
  BY DEF IInv, Known
<1>9. KnownBy(t, told)
  BY <1>3, <1>4, <1>8 DEF KnownBy
<1> QED BY <1>1, <1>4, <1>5, <1>6, <1>7, <1>9, OneTurnMovesQuietly

\* A full prompt leaves nothing out.
LEMMA FullStep ==
    ASSUME IInv, NEW c \in Convs, NEW r \in BOOLEAN, RouteFull(c, r),
           \A k \in DOMAIN entries' : k \in DOMAIN entries /\ entries'[k] = entries[k],
           told' = told, fresh' = fresh, convAcct' = convAcct
    PROVE  IInv'
<1> DEFINE t == [turn[c] EXCEPT !.pc = "routed", !.from = 1, !.register = r]
<1>1. turn \in [Convs -> TurnShape] /\ turn[c] \in TurnShape /\ turn[c].msgs \in Seq(Units) /\ fresh \in 0 .. Chats
  BY DEF IInv, Shape, TurnShape
<1>2. t \in TurnShape /\ t.pc = "routed" /\ t.from = 1 /\ t.msgs = turn[c].msgs
      /\ t.id = turn[c].id
  BY <1>1 DEF TurnShape
<1>3. turn' = [turn EXCEPT ![c] = t]
  BY <1>1 DEF RouteFull
<1> HIDE DEF t
<1>4. LeftOut(t) = {}
  <2> SUFFICES ASSUME NEW p \in Instructions(t.msgs), Len(p) < 1 PROVE FALSE
    BY <1>2 DEF LeftOut
  <2>1. PICK i \in 1 .. Len(t.msgs) : Len(p) = i
    BY <1>1, <1>2, InstructionsAre
  <2>2. Len(t.msgs) \in Nat
    BY <1>1, <1>2
  <2> QED BY <2>1, <2>2
<1>5. HeardBy(t, told)
  BY <1>2, <1>4 DEF HeardBy
<1>6. KnownBy(t, told)
  BY <1>2, KnownOn
<1>7. convAcct' \in [1 .. Chats -> Accounts \cup {Nobody}]
  BY DEF IInv, Shape
<1> QED BY <1>1, <1>2, <1>3, <1>5, <1>6, <1>7, OneTurnMovesQuietly

\* A full prompt or the tail from the last instruction on, to the chat the
\* client names: what it leaves out was told there.
LEMMA ExplicitStep ==
    ASSUME IInv, NEW c \in Convs, NEW first \in 1 .. MaxUnits, RouteExplicit(c, first)
    PROVE  IInv'
<1> DEFINE t == [turn[c] EXCEPT !.pc = "routed", !.from = first,
                                !.chat = turn[c].id, !.sticky = convAcct[turn[c].id],
                                !.explicit = TRUE]
<1>1. turn \in [Convs -> TurnShape] /\ turn[c] \in TurnShape /\ turn[c].msgs \in Seq(Units) /\ fresh \in 0 .. Chats
  BY DEF IInv, Shape, TurnShape
<1>2. turn[c].id # NoChat /\ turn[c].pc = "asked" /\ first \in {1, LastUser(turn[c].msgs)}
  BY DEF RouteExplicit
<1>3. convAcct[turn[c].id] \in Accounts \cup {Nobody}
  <2>1. turn[c].id \in 0 .. Chats /\ turn[c].id # 0
    BY <1>1, <1>2, ConstantFacts DEF TurnShape
  <2>2. turn[c].id \in 1 .. Chats
    BY <2>1, ConstantFacts
  <2> QED BY <2>2 DEF IInv, Shape
<1>4. /\ t \in TurnShape /\ t.pc = "routed" /\ t.from = first /\ t.msgs = turn[c].msgs
      /\ t.id = turn[c].id /\ t.chat = turn[c].id
  <2>1. first \in Nat
    BY <1>1, <1>2, LastUserIs
  <2> QED BY <2>1, <1>1, <1>3 DEF TurnShape
<1>5. turn' = [turn EXCEPT ![c] = t]
  BY <1>1 DEF RouteExplicit
<1> HIDE DEF t
<1>6. ASSUME NEW p \in LeftOut(t)
      PROVE  t.chat # NoChat /\ \A n \in Accounts : p \in told[n, t.chat]
  <2>1. p \in Instructions(turn[c].msgs) /\ Len(p) < first
    BY <1>4 DEF LeftOut
  <2>2. PICK i \in 1 .. Len(turn[c].msgs) : Len(p) = i
    BY <1>1, <2>1, InstructionsAre
  <2>3. Len(turn[c].msgs) \in Nat
    BY <1>1, LenProperties
  <2>4. Len(p) < LastUser(turn[c].msgs)
    BY <1>2, <2>1, <2>2, <2>3
  <2>5. KnownBy(turn[c], told)
    BY DEF IInv, Known
  <2> QED BY <1>2, <1>4, <2>1, <2>4, <2>5 DEF KnownBy
<1>7. HeardBy(t, told)
  BY <1>4, <1>6 DEF HeardBy
<1>8. KnownBy(t, told)
  BY <1>4, KnownOn
<1>9. entries' = entries /\ told' = told /\ fresh' = fresh /\ convAcct' \in [1 .. Chats -> Accounts \cup {Nobody}]
  BY DEF RouteExplicit, IInv, Shape
<1> QED BY <1>1, <1>4, <1>5, <1>7, <1>8, <1>9, OneTurnMovesQuietly

\* Continuing a chat: what the tail leaves out, the entry's account has been
\* told, and that is every account.
LEMMA ContinueStep ==
    ASSUME \A a, b \in Accounts : a = b, IInv, NEW c \in Convs, Continue(c)
    PROVE  IInv'
<1> DEFINE m == turn[c].msgs
           k == Best(m)
           t == [turn[c] EXCEPT !.pc = "routed", !.from = TailAnchor(m, Len(k)),
                                !.chat = entries[k].chat, !.sticky = entries[k].account,
                                !.matched = k, !.register = TRUE]
<1>1. turn \in [Convs -> TurnShape] /\ turn[c] \in TurnShape /\ m \in Seq(Units) /\ fresh \in 0 .. Chats
  BY DEF IInv, Shape, TurnShape
<1>2. Matches(m) # {}
  BY DEF Continue, Usable
<1>3. /\ k \in DOMAIN entries /\ k \in Seq(Units)
      /\ entries[k].account \in Accounts /\ entries[k].chat \in 1 .. Chats
      /\ TailAnchor(m, Len(k)) \in Nat
      /\ \A p \in Instructions(m) : Len(p) < TailAnchor(m, Len(k)) => p \in Instructions(k)
  BY <1>2, RoutedShape DEF IInv
<1>4. turn' = [turn EXCEPT ![c] = t]
  BY <1>1 DEF Continue, RouteTail
<1>5. Instructions(k) \subseteq told[entries[k].account, entries[k].chat]
  BY <1>3 DEF IInv, EntriesRemembered
<1>6. entries' = entries /\ told' = told /\ fresh' = fresh /\ convAcct' \in [1 .. Chats -> Accounts \cup {Nobody}]
  BY DEF Continue, IInv, Shape
<1>7. \A p \in Instructions(m) : Len(p) < TailAnchor(m, Len(k)) =>
        /\ entries[k].chat # NoChat
        /\ \A n \in Accounts : p \in told[n, entries[k].chat]
  <2> HIDE DEF k, m
  <2>1. entries[k].chat # NoChat
    BY <1>3, ConstantFacts
  <2>2. \A n \in Accounts : n = entries[k].account
    BY <1>3
  <2> QED BY <1>3, <1>5, <2>1, <2>2
<1> HIDE DEF k, m
<1>8. t \in TurnShape
  <2>1. entries[k].chat \in 0 .. Chats
    BY <1>3, ConstantFacts
  <2>2. turn[c] \in TurnShape /\ k \in Seq(Units) /\ entries[k].account \in Accounts
        /\ TailAnchor(m, Len(k)) \in Nat
    BY <1>1, <1>3
  <2> QED BY <2>1, <2>2 DEF TurnShape
<1>9. /\ t.pc = "routed" /\ t.chat = entries[k].chat
      /\ t.from = TailAnchor(m, Len(k)) /\ t.msgs = m /\ t.id = turn[c].id
  BY <1>1 DEF TurnShape, m
<1> HIDE DEF t
<1>10. HeardBy(t, told)
  BY <1>7, <1>9 DEF HeardBy, LeftOut
<1>11. KnownBy(t, told)
  BY <1>9, KnownOn DEF m
<1> QED BY <1>1, <1>4, <1>6, <1>8, <1>10, <1>11, OneTurnMovesQuietly

\* The end of a turn, whatever it leaves in the index.
LEMMA EndStep ==
    ASSUME IInv, NEW c \in Convs, NEW pc \in {"idle", "failed"}, NEW id \in 0 .. Chats,
           Ended(c, pc, id), KnownBy(Rest(c, pc, id), told),
           \A k \in DOMAIN entries' : k \in DOMAIN entries /\ entries'[k] = entries[k],
           told' = told, fresh' = fresh, convAcct' \in [1 .. Chats -> Accounts \cup {Nobody}]
    PROVE  IInv'
<1> DEFINE t == Rest(c, pc, id)
<1>1. fresh \in 0 .. Chats /\ Shape
  BY DEF IInv, Shape
<1>2. t \in TurnShape /\ t.pc = pc
  BY <1>1, RestShape
<1>4. turn' = [turn EXCEPT ![c] = t]
  BY DEF Ended
<1> HIDE DEF t
<1>5. HeardBy(t, told)
  BY <1>2, AtRest
<1>6. KnownBy(t, told)
  BY DEF t
<1> QED BY <1>1, <1>2, <1>4, <1>5, <1>6, OneTurnMovesQuietly

\* An answer names the chat that heard the whole list.
LEMMA NamedIs ==
    ASSUME \A a, b \in Accounts : a = b, IInv, NEW c \in Convs, turn[c].pc = "upstream",
           NEW pc \in {"idle", "failed"}
    PROVE  Named(c) \in 0 .. Chats /\ KnownBy(Rest(c, pc, Named(c)), told)
<1>1. Named(c) \in 0 .. Chats
  BY ConstantFacts DEF Named, IInv, Shape, TurnShape
<1> DEFINE t == Rest(c, pc, Named(c))
<1>2. t.msgs = turn[c].msgs /\ t.id = Named(c)
  BY <1>1, RestShape DEF IInv
<1> HIDE DEF t
<1>3. turn[c].at \in Accounts /\ Instructions(turn[c].msgs) \subseteq told[turn[c].at, turn[c].chat]
  BY DEF IInv, Heard, HeardBy
<1>4. ASSUME Named(c) # NoChat, NEW p \in Instructions(turn[c].msgs), NEW n \in Accounts
      PROVE  p \in told[n, Named(c)]
  <2>1. Named(c) = turn[c].chat
    BY <1>4 DEF Named
  <2>2. n = turn[c].at
    BY <1>3
  <2> QED BY <1>3, <2>1, <2>2
<1>5. IdConvs = {} => Named(c) = NoChat
  BY DEF Named
<1>6. KnownBy(t, told)
  BY <1>2, <1>4, <1>5 DEF KnownBy
<1> QED BY <1>1, <1>6 DEF t

\* A turn that ends before upstream took it: the client keeps the id it had.
LEMMA NobodyLeftStep ==
    ASSUME IInv, NEW c \in Convs, NobodyLeft(c)
    PROVE  IInv'
<1>1. turn[c].id \in 0 .. Chats /\ Shape
  BY DEF IInv, Shape, TurnShape
<1>2. /\ Rest(c, "failed", turn[c].id).pc = "failed"
      /\ Rest(c, "failed", turn[c].id).msgs = turn[c].msgs
      /\ Rest(c, "failed", turn[c].id).id = turn[c].id
  BY <1>1, RestShape
<1>3. KnownBy(Rest(c, "failed", turn[c].id), told)
  BY <1>2, KnownOn
<1>4. /\ Ended(c, "failed", turn[c].id) /\ entries' = entries /\ told' = told
      /\ fresh' = fresh /\ convAcct' \in [1 .. Chats -> Accounts \cup {Nobody}]
  BY DEF NobodyLeft, IInv, Shape
<1> QED BY <1>1, <1>3, <1>4, EndStep

\* A turn that ends in failure while upstream answers it.
LEMMA FailStep ==
    ASSUME \A a, b \in Accounts : a = b, IInv, NEW c \in Convs, Fail(c) \/ FailWriting(c)
    PROVE  IInv'
<1>1. turn[c].pc = "upstream" /\ Ended(c, "failed", Named(c)) /\ told' = told /\ fresh' = fresh
      /\ convAcct' \in [1 .. Chats -> Accounts \cup {Nobody}]
  BY DEF Fail, FailWriting, IInv, Shape
<1>2. Named(c) \in 0 .. Chats /\ KnownBy(Rest(c, "failed", Named(c)), told)
  BY <1>1, NamedIs
<1>3. \A k \in DOMAIN entries' : k \in DOMAIN entries /\ entries'[k] = entries[k]
  BY DroppedKeeps DEF Fail, FailWriting
<1> QED BY <1>1, <1>2, <1>3, EndStep

\* A successful turn is registered: its chat has heard what the list asks for.
LEMMA SucceedStep ==
    ASSUME \A a, b \in Accounts : a = b, IInv, NEW c \in Convs, Succeed(c)
    PROVE  IInv'
<1>1. /\ told' = told /\ fresh' = fresh /\ Ended(c, "idle", Named(c))
      /\ turn[c].pc = "upstream" /\ turn[c].at \in Accounts /\ turn[c].chat \in 1 .. Chats
  BY DEF Succeed, IInv, Heard, HeardBy
<1>4. convAcct' \in [1 .. Chats -> Accounts \cup {Nobody}]
  BY <1>1 DEF Succeed, IInv, Shape
<1>5. Named(c) \in 0 .. Chats /\ KnownBy(Rest(c, "idle", Named(c)), told)
  BY <1>1, NamedIs
<1>2. CASE ~turn[c].register
  BY <1>1, <1>2, <1>4, <1>5, EndStep DEF Succeed
<1>3. CASE turn[c].register
  <2> DEFINE t == Rest(c, "idle", Named(c))
             key == turn[c].msgs
             n == turn[c].at
             h == turn[c].chat
  <2>1. turn[c] \in TurnShape /\ fresh \in 0 .. Chats /\ key \in Seq(Units)
    BY DEF IInv, Shape, TurnShape
  <2>2. n \in Accounts /\ h \in 1 .. Chats /\ Instructions(key) \subseteq told[n, h]
    BY <1>1 DEF IInv, Heard, HeardBy
  <2>3. Register(key, n, h)
    BY <1>3 DEF Succeed
  <2>4. t \in TurnShape /\ t.pc = "idle"
    BY <1>5, RestShape DEF IInv
  <2>6. turn' = [turn EXCEPT ![c] = t]
    BY <1>1 DEF Ended
  <2> HIDE DEF t, key, n, h
  <2>7. HeardBy(t, told') /\ KnownBy(t, told')
    <3>1. HeardBy(t, told) /\ KnownBy(t, told)
      BY <2>4, <1>5, AtRest DEF t
    <3> QED BY <3>1, <1>1
  <2>8. \A k \in DOMAIN entries' :
          /\ k \in Seq(Units) /\ entries'[k].account \in Accounts /\ entries'[k].chat \in 1 .. Chats
          /\ \/ k = key /\ entries'[k].account = n /\ entries'[k].chat = h
             \/ k \in DOMAIN entries /\ entries'[k] = entries[k]
    BY <2>1, <2>2, <2>3, RegisterShape DEF IInv
  <2>9. ASSUME NEW k \in DOMAIN entries'
        PROVE  Instructions(k) \subseteq told'[entries'[k].account, entries'[k].chat]
    <3>1. CASE k = key /\ entries'[k].account = n /\ entries'[k].chat = h
      BY <3>1, <2>2, <1>1
    <3>2. CASE k \in DOMAIN entries /\ entries'[k] = entries[k]
      BY <3>2, <1>1 DEF IInv, EntriesRemembered
    <3> QED BY <3>1, <3>2, <2>8
  <2>10. told' \in [Accounts \X (1 .. Chats) -> SUBSET Seq(Units)]
    BY <1>1 DEF IInv, Shape
  <2>11. \A a \in Accounts : \A g \in 1 .. Chats : told[a, g] \subseteq told'[a, g]
    BY <1>1
  <2> QED BY <1>1, <1>4, <2>1, <2>4, <2>6, <2>7, <2>8, <2>9, <2>10, <2>11, OneTurnMoves
<1> QED BY <1>2, <1>3

\* A round that fails before upstream is asked: the turn keeps its tail and
\* its chat.
LEMMA NotSentStep ==
    ASSUME IInv, NEW c \in Convs, NEW n \in Accounts, NotSent(c, n)
    PROVE  IInv'
<1> DEFINE t == [turn[c] EXCEPT !.pc = "routed", !.round = turn[c].round + 1,
                                !.tried = turn[c].tried \cup {n},
                                !.chat = IF turn[c].chat = NoChat THEN fresh' ELSE turn[c].chat,
                                !.at = Nobody,
                                !.sticky = IF turn[c].sticky = n THEN n ELSE Nobody]
<1>1. turn \in [Convs -> TurnShape] /\ turn[c] \in TurnShape /\ fresh \in 0 .. Chats
  BY DEF IInv, Shape
<1>2. fresh' \in 0 .. Chats /\ turn[c].pc = "routed"
  BY <1>1, ConstantFacts DEF NotSent, Attempt
<1>3. turn' = [turn EXCEPT ![c] = t]
  BY <1>1 DEF NotSent, Attempted
<1>4. t \in TurnShape
  <2>1. /\ turn[c].round + 1 \in Nat
        /\ turn[c].tried \cup {n} \in SUBSET Accounts
        /\ (IF turn[c].chat = NoChat THEN fresh' ELSE turn[c].chat) \in 0 .. Chats
        /\ (IF turn[c].sticky = n THEN n ELSE Nobody) \in Accounts \cup {Nobody}
    BY <1>1, <1>2 DEF TurnShape
  <2> QED BY <1>1, <2>1 DEF TurnShape
<1>5. /\ t.pc = "routed" /\ t.msgs = turn[c].msgs /\ t.from = turn[c].from
      /\ t.id = turn[c].id
      /\ turn[c].chat # NoChat => t.chat = turn[c].chat
  BY <1>1 DEF TurnShape
<1> HIDE DEF t
<1>6. HeardBy(turn[c], told)
  BY DEF IInv, Heard
<1>7. HeardBy(t, told)
  BY <1>2, <1>5, <1>6 DEF HeardBy, LeftOut
<1>8. entries' = entries /\ told' = told /\ convAcct' \in [1 .. Chats -> Accounts \cup {Nobody}]
  BY DEF NotSent, IInv, Shape
<1>9. KnownBy(t, told)
  BY <1>5, KnownOn
<1> QED BY <1>2, <1>3, <1>4, <1>7, <1>8, <1>9, OneTurnMovesQuietly

\* A round that upstream takes: it is told what travels, and had been told the
\* rest.
LEMMA SendStep ==
    ASSUME IInv, NEW c \in Convs, NEW n \in Accounts, Send(c, n)
    PROVE  IInv'
<1> DEFINE h == IF turn[c].chat = NoChat THEN fresh' ELSE turn[c].chat
           t == [turn[c] EXCEPT !.pc = "upstream", !.round = turn[c].round + 1,
                                !.tried = turn[c].tried \cup {n}, !.chat = h, !.at = n,
                                !.sticky = IF turn[c].sticky = n THEN n ELSE Nobody]
<1>1. turn \in [Convs -> TurnShape] /\ turn[c] \in TurnShape /\ fresh \in 0 .. Chats
  BY DEF IInv, Shape
<1>2. /\ fresh' \in 0 .. Chats /\ turn[c].pc = "routed"
      /\ turn[c].chat = NoChat => fresh' \in 1 .. Chats
  BY <1>1, ConstantFacts DEF Send, Attempt
<1>3. h \in 1 .. Chats
  <2>1. turn[c].chat \in 0 .. Chats
    BY <1>1 DEF TurnShape
  <2> QED BY <2>1, <1>2, ConstantFacts
<1>4. turn' = [turn EXCEPT ![c] = t]
  BY <1>1 DEF Send, Attempted
<1>5. t \in TurnShape
  <2>1. h \in 0 .. Chats
    BY <1>3, ConstantFacts
  <2>2. /\ turn[c].round + 1 \in Nat
        /\ turn[c].tried \cup {n} \in SUBSET Accounts
        /\ (IF turn[c].sticky = n THEN n ELSE Nobody) \in Accounts \cup {Nobody}
    BY <1>1 DEF TurnShape
  <2> HIDE DEF h
  <2> QED BY <1>1, <2>1, <2>2 DEF TurnShape
<1>6. /\ t.pc = "upstream" /\ t.msgs = turn[c].msgs /\ t.from = turn[c].from
      /\ t.chat = h /\ t.at = n /\ t.id = turn[c].id
  BY <1>1 DEF TurnShape
<1>7. turn'[c] = t
  BY <1>1, <1>4
<1>8. told' = [told EXCEPT ![<<n, h>>] = told[<<n, h>>] \cup Payload(c)]
  <2>1. turn'[c].chat = h
    BY <1>6, <1>7
  <2>2. told' = [told EXCEPT ![<<n, turn'[c].chat>>] = @ \cup Payload(c)]
    BY DEF Send
  <2> HIDE DEF h
  <2> QED BY <2>1, <2>2
<1>9. turn[c].chat # NoChat => h = turn[c].chat
  OBVIOUS
<1> HIDE DEF t, h
<1>10. told \in [Accounts \X (1 .. Chats) -> SUBSET Seq(Units)] /\ <<n, h>> \in Accounts \X (1 .. Chats)
  BY <1>3 DEF IInv, Shape
<1>11. Payload(c) \subseteq Seq(Units)
  BY <1>1, ContextType DEF Payload, TurnShape
<1>12. told' \in [Accounts \X (1 .. Chats) -> SUBSET Seq(Units)]
  BY <1>8, <1>10, <1>11
<1>13. told'[<<n, h>>] = told[<<n, h>>] \cup Payload(c)
  BY <1>8, <1>10
<1>14. \A a \in Accounts : \A g \in 1 .. Chats : told[<<a, g>>] \subseteq told'[<<a, g>>]
  BY <1>8, <1>10
<1>15. ASSUME NEW p \in LeftOut(turn[c])
       PROVE  t.chat # NoChat /\ \A a \in Accounts : p \in told'[<<a, h>>]
  <2>1. turn[c].chat # NoChat /\ \A a \in Accounts : p \in told[<<a, turn[c].chat>>]
    BY <1>2 DEF IInv, Heard, HeardBy
  <2> QED BY <2>1, <1>3, <1>6, <1>9, <1>14
<1>16. ASSUME NEW p \in Instructions(turn[c].msgs)
       PROVE  p \in told'[<<n, h>>]
  <2>1. CASE Len(p) < turn[c].from
    BY <2>1, <1>15 DEF LeftOut
  <2>2. CASE ~(Len(p) < turn[c].from)
    <3>1. turn[c].msgs \in Seq(Units) /\ turn[c].from \in Nat
      BY <1>1 DEF TurnShape
    <3>2. Len(p) \in Nat /\ p \in Context(turn[c].msgs)
      BY <3>1, InstructionsAre DEF Instructions
    <3>3. p \in Payload(c)
      BY <2>2, <3>1, <3>2 DEF Payload
    <3> QED BY <3>3, <1>13
  <2> QED BY <2>1, <2>2
<1>17. LeftOut(t) = LeftOut(turn[c])
  BY <1>6 DEF LeftOut
<1>18. HeardBy(t, told')
  BY <1>3, <1>6, <1>15, <1>16, <1>17 DEF HeardBy
<1>19. \A k \in DOMAIN entries' :
         /\ k \in Seq(Units) /\ entries'[k].account \in Accounts
         /\ entries'[k].chat \in 1 .. Chats
         /\ Instructions(k) \subseteq told'[entries'[k].account, entries'[k].chat]
  <2>1. entries' = entries
    BY DEF Send
  <2>2. \A k \in DOMAIN entries :
         /\ k \in Seq(Units) /\ entries[k].account \in Accounts
         /\ entries[k].chat \in 1 .. Chats
         /\ Instructions(k) \subseteq told[<<entries[k].account, entries[k].chat>>]
    BY DEF IInv, Shape, EntriesRemembered
  <2> QED BY <2>1, <2>2, <1>14
<1>20. KnownBy(t, told')
  <2>1. KnownBy(t, told)
    BY <1>6, KnownOn
  <2> QED BY <2>1, <1>5, <1>14, KnownGrows
<1>21. convAcct' \in [1 .. Chats -> Accounts \cup {Nobody}]
  BY DEF Send, IInv, Shape
<1> QED BY <1>2, <1>4, <1>5, <1>12, <1>14, <1>18, <1>19, <1>20, <1>21, OneTurnMoves

\* An answer that may be tried elsewhere: what was left out has still been told.
LEMMA RotateStep ==
    ASSUME IInv, NEW c \in Convs, Rotate(c)
    PROVE  IInv'
<1> DEFINE t == [turn[c] EXCEPT !.pc = "routed", !.at = Nobody]
<1>1. turn \in [Convs -> TurnShape] /\ turn[c] \in TurnShape /\ fresh \in 0 .. Chats
  BY DEF IInv, Shape
<1>2. turn' = [turn EXCEPT ![c] = t]
  BY <1>1 DEF Rotate
<1>3. t \in TurnShape
  BY <1>1 DEF TurnShape
<1>4. /\ t.pc = "routed" /\ t.msgs = turn[c].msgs /\ t.from = turn[c].from
      /\ t.chat = turn[c].chat /\ t.id = turn[c].id
  BY <1>1 DEF TurnShape
<1> HIDE DEF t
<1>5. HeardBy(turn[c], told) /\ turn[c].pc = "upstream"
  BY DEF IInv, Heard, Rotate
<1>6. HeardBy(t, told)
  BY <1>4, <1>5 DEF HeardBy, LeftOut
<1>7. entries' = entries /\ told' = told /\ fresh' = fresh /\ convAcct' \in [1 .. Chats -> Accounts \cup {Nobody}]
  BY DEF Rotate, IInv, Shape
<1>8. KnownBy(t, told)
  BY <1>4, KnownOn
<1> QED BY <1>1, <1>2, <1>3, <1>6, <1>7, <1>8, OneTurnMovesQuietly

\* A restart forgets what was remembered, and what turns were on their way.
LEMMA RestartStep ==
    ASSUME IInv, Restart
    PROVE  IInv'
<1>1. /\ turn' = [c \in Convs |-> IF turn[c].pc = "idle" THEN turn[c]
                                   ELSE Rest(c, "failed", turn[c].id)]
      /\ entries' = <<>> /\ told' = told /\ fresh' = fresh
      /\ convAcct' = [h \in 1 .. Chats |-> Nobody]
  BY DEF Restart
<1>2. ASSUME NEW c \in Convs
      PROVE  turn'[c] \in TurnShape /\ HeardBy(turn'[c], told') /\ KnownBy(turn'[c], told')
  <2>1. CASE turn[c].pc = "idle"
    <3>1. turn'[c] = turn[c] /\ turn[c] \in TurnShape
      BY <1>1, <2>1 DEF IInv, Shape
    <3>2. HeardBy(turn[c], told)
      BY <2>1, AtRest
    <3>3. KnownBy(turn[c], told)
      BY DEF IInv, Known
    <3> QED BY <3>1, <3>2, <3>3, <1>1
  <2>2. CASE turn[c].pc # "idle"
    <3> DEFINE t == Rest(c, "failed", turn[c].id)
    <3>1. turn'[c] = t
      BY <1>1, <2>2
    <3>2. turn[c].id \in 0 .. Chats /\ Shape
      BY DEF IInv, Shape, TurnShape
    <3>3. t \in TurnShape /\ t.pc = "failed" /\ t.msgs = turn[c].msgs /\ t.id = turn[c].id
      BY <3>2, RestShape
    <3> HIDE DEF t
    <3>4. HeardBy(t, told)
      BY <3>3, AtRest
    <3>5. KnownBy(t, told)
      BY <3>3, KnownOn
    <3> QED BY <3>1, <3>3, <3>4, <3>5, <1>1
  <2> QED BY <2>1, <2>2
<1>3. DOMAIN entries' = {}
  BY <1>1
<1>4. Shape'
  <2>1. turn' \in [Convs -> TurnShape]
    <3>1. \A c \in Convs : turn'[c] \in TurnShape
      BY <1>2
    <3>2. turn' = [c \in Convs |-> turn'[c]]
      BY <1>1
    <3> QED BY <3>1, <3>2
  <2> QED BY <2>1, <1>1, <1>3 DEF IInv, Shape
<1> QED BY <1>2, <1>3, <1>4 DEF IInv, EntriesRemembered, Heard, Known

-----------------------------------------------------------------------------
(* Theorems. *)

LEMMA Inductive ==
    ASSUME \A a, b \in Accounts : a = b, IdConvs = {} \/ OneAsk
    PROVE  Spec => []IInv
<1>1. Init => IInv
  <2> SUFFICES ASSUME Init PROVE IInv
    OBVIOUS
  <2>1. NoTurn \in TurnShape
    <3>1. <<>> \in Seq(Units) /\ NoChat \in 0 .. Chats
      BY ConstantFacts
    <3> QED BY <3>1 DEF NoTurn, TurnShape
  <2>2. entries = <<>> /\ DOMAIN entries = {}
    BY DEF Init
  <2>3. Shape
    <3>1. turn \in [Convs -> TurnShape]
      BY <2>1 DEF Init
    <3>2. told \in [Accounts \X (1 .. Chats) -> SUBSET Seq(Units)] /\ fresh \in 0 .. Chats
          /\ convAcct \in [1 .. Chats -> Accounts \cup {Nobody}]
      BY ConstantFacts DEF Init
    <3> QED BY <2>2, <3>1, <3>2 DEF Shape
  <2>4. EntriesRemembered
    BY <2>2 DEF EntriesRemembered
  <2>5. Heard
    BY AtRest DEF Init, Heard, NoTurn
  <2>6. Known
    BY DEF Init, Known, KnownBy, NoTurn
  <2> QED BY <2>3, <2>4, <2>5, <2>6 DEF IInv
<1>2. IInv /\ [Next]_vars => IInv'
  <2> SUFFICES ASSUME IInv, [Next]_vars PROVE IInv'
    OBVIOUS
  <2>1. ASSUME NEW c \in Convs, \E more \in Increments : Ask(c, more) PROVE IInv'
    BY <2>1, AskStep
  <2>2. ASSUME NEW c \in Convs, \E last \in Units : AskAgain(c, last) PROVE IInv'
    BY <2>2, AskAgainStep
  <2>3. ASSUME NEW c \in Convs, RouteNative(c) PROVE IInv'
    BY <2>3, FullStep DEF RouteNative
  <2>4. ASSUME NEW c \in Convs, Continue(c) PROVE IInv'
    BY <2>4, ContinueStep
  <2>5. ASSUME NEW c \in Convs, RouteAway(c) PROVE IInv'
    BY <2>5, FullStep, DroppedKeeps DEF RouteAway
  <2>6. ASSUME NEW c \in Convs, RouteUnmatched(c) PROVE IInv'
    BY <2>6, FullStep DEF RouteUnmatched
  <2>7. ASSUME NEW c \in Convs, \E n \in Accounts : Send(c, n) \/ NotSent(c, n) PROVE IInv'
    BY <2>7, SendStep, NotSentStep
  <2>8. ASSUME NEW c \in Convs, NobodyLeft(c) PROVE IInv'
    BY <2>8, NobodyLeftStep
  <2>9. ASSUME NEW c \in Convs, Succeed(c) PROVE IInv'
    BY <2>9, SucceedStep
  <2>10. ASSUME NEW c \in Convs, Fail(c) \/ FailWriting(c) PROVE IInv'
    BY <2>10, FailStep
  <2>11. ASSUME NEW c \in Convs, \E first \in 1 .. MaxUnits : RouteExplicit(c, first) PROVE IInv'
    BY <2>11, ExplicitStep
  <2>12. ASSUME NEW c \in Convs, Rotate(c) PROVE IInv'
    BY <2>12, RotateStep
  <2>13. ASSUME \/ \E n \in Accounts : HealthChange(n)
                \/ Tick
                \/ UNCHANGED vars
         PROVE  IInv'
    <3>1. UNCHANGED <<turn, entries, told, fresh, convAcct>>
      BY <2>13 DEF HealthChange, Tick, vars
    <3> QED BY <3>1 DEF IInv, Shape, EntriesRemembered, Heard, Known
  <2>14. ASSUME Restart PROVE IInv'
    BY <2>14, RestartStep
  <2> QED BY <2>1, <2>2, <2>3, <2>4, <2>5, <2>6, <2>7, <2>8, <2>9, <2>10, <2>11, <2>12, <2>13,
            <2>14 DEF Next
<1> QED BY <1>1, <1>2, PTL DEF Spec

\* With one account, what the index believes of a chat is true: upstream has
\* been told every instruction of the list the entry stands for.
THEOREM EntriesTrue ==
    ASSUME \A a, b \in Accounts : a = b, IdConvs = {} \/ OneAsk
    PROVE  Spec => []EntriesRemembered
<1>1. IInv => EntriesRemembered
  BY DEF IInv
<1> QED BY <1>1, Inductive, PTL

\* With one account, a turn that is sent as a tail leaves out no instruction,
\* for any conversations, lists, evictions, re-anchors and failures.
THEOREM TailsComplete ==
    ASSUME \A a, b \in Accounts : a = b, IdConvs = {} \/ OneAsk
    PROVE  Spec => []InstructionsNotLost
<1>1. IInv => InstructionsNotLost
  BY DEF IInv, Heard, HeardBy, InstructionsNotLost
<1> QED BY <1>1, Inductive, PTL

-----------------------------------------------------------------------------
(* Types and limits, of any number of accounts. *)

\* A list is a sequence of at most MaxUnits messages.
LEMMA ListIs == \A m : m \in Lists <=> m \in Seq(Units) /\ Len(m) <= MaxUnits
<1>1. MaxUnits \in Nat
  BY SessionAssumption
<1>2. ASSUME NEW m \in Lists PROVE m \in Seq(Units) /\ Len(m) <= MaxUnits
  <2>1. PICK n \in 0 .. MaxUnits : m \in [1 .. n -> Units]
    BY DEF Lists
  <2>2. m \in Seq(Units) /\ Len(m) = n
    BY <2>1
  <2> QED BY <1>1, <2>1, <2>2
<1>3. ASSUME NEW m \in Seq(Units), Len(m) <= MaxUnits PROVE m \in Lists
  <2>1. Len(m) \in 0 .. MaxUnits /\ m \in [1 .. Len(m) -> Units]
    BY <1>1, <1>3, LenProperties
  <2> QED BY <2>1 DEF Lists
<1> QED BY <1>2, <1>3

\* A prefix of a list is a list.
LEMMA PrefixIs ==
    ASSUME NEW m \in Lists, NEW n \in 1 .. Len(m)
    PROVE  SubSeq(m, 1, n) \in Lists /\ Len(SubSeq(m, 1, n)) = n
<1>1. m \in Seq(Units) /\ Len(m) <= MaxUnits /\ Len(m) \in Nat /\ MaxUnits \in Nat
  BY ListIs, LenProperties, SessionAssumption
<1>2. \A j \in 1 .. n : m[j] \in Units
  BY <1>1, ElementOfSeq
<1>3. SubSeq(m, 1, n) \in Seq(Units) /\ Len(SubSeq(m, 1, n)) = n
  <2>1. 1 \in Int /\ n \in Int
    OBVIOUS
  <2>2. Len(SubSeq(m, 1, n)) = IF 1 <= n THEN n - 1 + 1 ELSE 0
    BY <1>2, <2>1, SubSeqProperties
  <2>3. SubSeq(m, 1, n) \in Seq(Units)
    BY <1>2, <2>1, SubSeqProperties
  <2> QED BY <2>2, <2>3
<1>4. n <= MaxUnits
  BY <1>1
<1> DEFINE p == SubSeq(m, 1, n)
<1> HIDE DEF p
<1>5. p \in Seq(Units) /\ Len(p) = n
  BY <1>3 DEF p
<1>6. p \in Lists
  BY <1>4, <1>5, ListIs
<1> QED BY <1>5, <1>6 DEF p

\* The tail starts at a message of the list, or behind its last.
LEMMA AnchorInside ==
    ASSUME NEW m \in Lists, NEW k \in 1 .. Len(m)
    PROVE  TailAnchor(m, k) \in 1 .. MaxUnits + 1
<1> DEFINE after  == {i \in k + 1 .. Len(m) : m[i] \in UserUnits}
           before == {i \in 1 .. k : m[i] \in UserUnits}
<1>1. Len(m) \in Nat /\ Len(m) <= MaxUnits /\ MaxUnits \in Nat
  BY ListIs, LenProperties, SessionAssumption
<1>2. CASE after # {}
  <2>1. after \in SUBSET Nat
    BY <1>1
  <2>2. \E i \in after : \A j \in after : i <= j
    <3> HIDE DEF after
    <3> QED BY <1>2, <2>1, LeastOf
  <2>3. TailAnchor(m, k) = CHOOSE i \in after : \A j \in after : i <= j
    BY <1>2 DEF TailAnchor
  <2>4. TailAnchor(m, k) \in after
    <3> HIDE DEF after
    <3> QED BY <2>2, <2>3
  <2> QED BY <2>4, <1>1
<1>3. CASE after = {} /\ before # {}
  <2>1. before \in SUBSET (1 .. k) /\ k \in Nat
    BY <1>1
  <2>2. \E i \in before : \A j \in before : j <= i
    <3> HIDE DEF before
    <3> QED BY <1>3, <2>1, GreatestOf
  <2>3. TailAnchor(m, k) = CHOOSE i \in before : \A j \in before : j <= i
    BY <1>3 DEF TailAnchor
  <2>4. TailAnchor(m, k) \in before
    <3> HIDE DEF before
    <3> QED BY <2>2, <2>3
  <2> QED BY <2>4, <1>1
<1>4. CASE after = {} /\ before = {}
  <2>1. TailAnchor(m, k) = k + 1
    BY <1>4 DEF TailAnchor
  <2> QED BY <2>1, <1>1
<1> QED BY <1>2, <1>3, <1>4

\* A turn at upstream is at an account and in a chat.
Placed == {t \in Turn : t.pc = "upstream" => t.at \in Accounts /\ t.chat \in 1 .. Chats}

TurnsPlaced == turn \in [Convs -> Placed]

\* Every entry was registered, so that the eviction finds one to drop.
IndexInv ==
    /\ IsFiniteSet(DOMAIN entries)
    /\ Cardinality(DOMAIN entries) <= FpMaxEntries
    /\ order \in Seq(Lists)
    /\ \A k \in DOMAIN entries : \E i \in DOMAIN order : order[i] = k
    /\ DOMAIN entries \subseteq Lists
    /\ \A k \in DOMAIN entries : entries[k] \in Ref

RestInv ==
    /\ breaker \in BreakerState
    /\ healthy \subseteq Accounts
    /\ told \in [Accounts \X (1 .. Chats) -> SUBSET Lists]
    /\ fresh \in 0 .. Chats
    /\ convAcct \in [1 .. Chats -> Accounts \cup {Nobody}]

TInv == TurnsPlaced /\ IndexInv /\ RestInv

LEMMA TInvIsTyped == TInv => TypeOK
<1> SUFFICES ASSUME TInv PROVE TypeOK
  OBVIOUS
<1>1. turn \in [Convs -> Turn]
  BY DEF TInv, TurnsPlaced, Placed
<1>2. \A i \in DOMAIN order : order[i] \in Lists
  BY DEF TInv, IndexInv
<1> QED BY <1>1, <1>2 DEF TInv, IndexInv, RestInv, TypeOK

\* What a step of one turn makes of it, field by field.
LEMMA PlacedMoves ==
    ASSUME TurnsPlaced, NEW c \in Convs, NEW t \in Turn,
           t.pc = "upstream" => t.at \in Accounts /\ t.chat \in 1 .. Chats,
           turn' = [turn EXCEPT ![c] = t]
    PROVE  TurnsPlaced'
<1>1. t \in Placed
  BY DEF Placed
<1> HIDE DEF Placed
<1> QED BY <1>1 DEF TurnsPlaced

LEMMA PlacedTurn ==
    ASSUME TurnsPlaced, NEW c \in Convs
    PROVE  /\ turn[c] \in Turn
           /\ turn[c].pc = "upstream" => turn[c].at \in Accounts /\ turn[c].chat \in 1 .. Chats
BY DEF TurnsPlaced, Placed

LEMMA RestTyped ==
    ASSUME TurnsPlaced, NEW c \in Convs, NEW pc \in {"idle", "failed"}, NEW id \in 0 .. Chats
    PROVE  Rest(c, pc, id) \in Turn /\ Rest(c, pc, id).pc = pc
<1>1. turn[c].msgs \in Lists /\ <<>> \in Lists
  <2>1. <<>> \in Seq(Units) /\ Len(<<>>) = 0 /\ 0 <= MaxUnits
    BY SessionAssumption
  <2> QED BY <2>1, ListIs, PlacedTurn DEF Turn
<1>2. NoChat \in 0 .. Chats /\ 1 \in 1 .. MaxUnits + 1 /\ 0 \in 0 .. MaxRotate
  BY ConstantFacts, SessionAssumption
<1>3. NoTurn \in Turn
  BY <1>1, <1>2 DEF NoTurn, Turn
<1> QED BY <1>1, <1>3 DEF Turn, Rest

LEMMA EndedTyped ==
    ASSUME TurnsPlaced, NEW c \in Convs, NEW pc \in {"idle", "failed"}, NEW id \in 0 .. Chats,
           Ended(c, pc, id)
    PROVE  TurnsPlaced'
<1> DEFINE t == Rest(c, pc, id)
<1>1. t \in Turn /\ t.pc = pc /\ turn' = [turn EXCEPT ![c] = t]
  BY RestTyped DEF Ended
<1> HIDE DEF t
<1> QED BY <1>1, PlacedMoves

LEMMA FullTyped ==
    ASSUME TurnsPlaced, NEW c \in Convs, NEW r \in BOOLEAN, RouteFull(c, r)
    PROVE  TurnsPlaced'
<1> DEFINE t == [turn[c] EXCEPT !.pc = "routed", !.from = 1, !.register = r]
<1>1. turn[c] \in Turn /\ 1 \in 1 .. MaxUnits + 1
  BY PlacedTurn, SessionAssumption
<1>2. t \in Turn /\ t.pc = "routed"
  BY <1>1 DEF Turn
<1>3. turn' = [turn EXCEPT ![c] = t]
  BY DEF RouteFull
<1> HIDE DEF t
<1> QED BY <1>2, <1>3, PlacedMoves

LEMMA AskTyped ==
    ASSUME TurnsPlaced, NEW c \in Convs, NEW more \in Increments, Ask(c, more)
    PROVE  TurnsPlaced'
<1> DEFINE x == turn[c].msgs \o more
           t == [turn[c] EXCEPT !.pc = "asked", !.msgs = x]
<1>1. turn[c] \in Turn /\ turn[c].msgs \in Seq(Units) /\ more \in Seq(Units)
  BY PlacedTurn, ListIs, ConstantFacts DEF Turn
<1>2. x \in Lists
  <2>1. x \in Seq(Units) /\ Len(x) = Len(turn[c].msgs) + Len(more)
    BY <1>1
  <2> HIDE DEF x
  <2> QED BY <2>1, ListIs DEF Ask
<1> HIDE DEF x
<1>3. t \in Turn /\ t.pc = "asked"
  BY <1>1, <1>2 DEF Turn
<1>4. turn' = [turn EXCEPT ![c] = t]
  BY <1>1 DEF Ask, x, Turn, TurnsPlaced
<1> HIDE DEF t
<1> QED BY <1>3, <1>4, PlacedMoves

LEMMA AskAgainTyped ==
    ASSUME TurnsPlaced, NEW c \in Convs, NEW last \in Units, AskAgain(c, last)
    PROVE  TurnsPlaced'
<1> DEFINE m == turn[c].msgs
           e == [m EXCEPT ![Len(m)] = last]
           t == [turn[c] EXCEPT !.pc = "asked", !.msgs = e]
<1>1. turn[c] \in Turn /\ m \in Lists
  BY PlacedTurn DEF Turn
<1>2. e \in Lists
  <2> HIDE DEF m
  <2>1. PICK n \in 0 .. MaxUnits : m \in [1 .. n -> Units]
    BY <1>1 DEF Lists
  <2>2. e \in [1 .. n -> Units]
    BY <2>1
  <2> QED BY <2>2 DEF Lists
<1>3. t \in Turn /\ t.pc = "asked"
  <2> HIDE DEF e
  <2> QED BY <1>1, <1>2 DEF Turn
<1>4. turn' = [turn EXCEPT ![c] = t]
  BY <1>1 DEF AskAgain, Turn, TurnsPlaced
<1> HIDE DEF t
<1> QED BY <1>3, <1>4, PlacedMoves

LEMMA ExplicitTyped ==
    ASSUME TurnsPlaced, RestInv, NEW c \in Convs, NEW first \in 1 .. MaxUnits,
           RouteExplicit(c, first)
    PROVE  TurnsPlaced'
<1> DEFINE t == [turn[c] EXCEPT !.pc = "routed", !.from = first,
                                !.chat = turn[c].id, !.sticky = convAcct[turn[c].id],
                                !.explicit = TRUE]
<1>1. turn[c] \in Turn
  BY PlacedTurn
<1>2. turn[c].id \in 1 .. Chats /\ turn[c].id \in 0 .. Chats
  BY <1>1, ConstantFacts DEF RouteExplicit, Turn
<1>3. convAcct[turn[c].id] \in Accounts \cup {Nobody}
  BY <1>2 DEF RestInv
<1>4. first \in 1 .. MaxUnits + 1
  BY SessionAssumption
<1>5. t \in Turn /\ t.pc = "routed"
  BY <1>1, <1>2, <1>3, <1>4 DEF Turn
<1>6. turn' = [turn EXCEPT ![c] = t]
  BY DEF RouteExplicit
<1> HIDE DEF t
<1> QED BY <1>5, <1>6, PlacedMoves

LEMMA ContinueTyped ==
    ASSUME TurnsPlaced, IndexInv, NEW c \in Convs, Continue(c)
    PROVE  TurnsPlaced'
<1> DEFINE m == turn[c].msgs
           k == Best(m)
           t == [turn[c] EXCEPT !.pc = "routed", !.from = TailAnchor(m, Len(k)),
                                !.chat = entries[k].chat, !.sticky = entries[k].account,
                                !.matched = k, !.register = TRUE]
<1>1. turn[c] \in Turn /\ m \in Lists /\ m \in Seq(Units)
  BY PlacedTurn, ListIs DEF Turn
<1>2. Matches(m) # {}
  BY DEF Continue, Usable
<1>3. PICK n \in 1 .. Len(m) : k = SubSeq(m, 1, n) /\ k \in DOMAIN entries /\ Len(k) = n
  BY <1>1, <1>2, BestIs
<1>4. TailAnchor(m, Len(k)) \in 1 .. MaxUnits + 1 /\ k \in Lists
  BY <1>1, <1>3, AnchorInside, PrefixIs
<1>5. entries[k].chat \in 0 .. Chats /\ entries[k].account \in Accounts
  <2>1. entries[k] \in Ref
    BY <1>3 DEF IndexInv
  <2> HIDE DEF k
  <2> QED BY <2>1, ConstantFacts DEF Ref
<1>6. turn' = [turn EXCEPT ![c] = t]
  BY DEF Continue, RouteTail
<1>7. t \in Turn /\ t.pc = "routed"
  <2> HIDE DEF k, m
  <2> QED BY <1>1, <1>4, <1>5 DEF Turn
<1> HIDE DEF t
<1> QED BY <1>6, <1>7, PlacedMoves

\* A round, whether upstream takes the prompt or not.
LEMMA AttemptTyped ==
    ASSUME TurnsPlaced, RestInv, NEW c \in Convs, NEW n \in Accounts, NEW pc \in {"upstream", "routed"},
           Attempt(c, n), Attempted(c, n, pc)
    PROVE  TurnsPlaced' /\ fresh' \in 0 .. Chats
<1> DEFINE h == IF turn[c].chat = NoChat THEN fresh' ELSE turn[c].chat
           a == IF pc = "upstream" THEN n ELSE Nobody
           s == IF turn[c].sticky = n THEN n ELSE Nobody
           t == [turn[c] EXCEPT !.pc = pc, !.round = turn[c].round + 1,
                                !.tried = turn[c].tried \cup {n}, !.chat = h, !.at = a, !.sticky = s]
<1>1. turn[c] \in Turn /\ fresh \in 0 .. Chats
  BY PlacedTurn DEF RestInv
<1>2. fresh' \in 0 .. Chats /\ (turn[c].chat = NoChat => fresh' \in 1 .. Chats)
  BY <1>1, ConstantFacts DEF Attempt
<1>3. h \in 1 .. Chats /\ h \in 0 .. Chats
  <2>1. turn[c].chat \in 0 .. Chats
    BY <1>1 DEF Turn
  <2> QED BY <2>1, <1>2, ConstantFacts
<1>4. /\ turn[c].round + 1 \in 0 .. MaxRotate
      /\ turn[c].tried \cup {n} \in SUBSET Accounts
      /\ s \in Accounts \cup {Nobody} /\ a \in Accounts \cup {Nobody}
      /\ pc = "upstream" => a \in Accounts
  <2>1. turn[c].round \in 0 .. MaxRotate /\ turn[c].round < MaxRotate /\ MaxRotate \in Nat
    BY <1>1, SessionAssumption DEF Turn, Attempt
  <2>2. turn[c].tried \cup {n} \in SUBSET Accounts
    BY <1>1 DEF Turn
  <2> QED BY <2>1, <2>2
<1>5. turn' = [turn EXCEPT ![c] = t]
  BY DEF Attempted
<1> HIDE DEF h, a, s
<1>6. t \in Turn /\ t.pc = pc /\ t.at = a /\ t.chat = h
  BY <1>1, <1>3, <1>4 DEF Turn
<1> HIDE DEF t
<1> QED BY <1>2, <1>3, <1>4, <1>5, <1>6, PlacedMoves

LEMMA RotateTyped ==
    ASSUME TurnsPlaced, NEW c \in Convs, Rotate(c)
    PROVE  TurnsPlaced'
<1> DEFINE t == [turn[c] EXCEPT !.pc = "routed", !.at = Nobody]
<1>1. turn[c] \in Turn
  BY PlacedTurn
<1>2. t \in Turn /\ t.pc = "routed"
  BY <1>1 DEF Turn
<1>3. turn' = [turn EXCEPT ![c] = t]
  BY <1>1 DEF Rotate, TurnsPlaced
<1> HIDE DEF t
<1> QED BY <1>2, <1>3, PlacedMoves

LEMMA NamedTyped ==
    ASSUME TurnsPlaced, NEW c \in Convs
    PROVE  Named(c) \in 0 .. Chats /\ turn[c].id \in 0 .. Chats
<1>1. turn[c].chat \in 0 .. Chats /\ turn[c].id \in 0 .. Chats
  BY PlacedTurn DEF Turn
<1> QED BY <1>1, ConstantFacts DEF Named

LEMMA TurnStep == TInv /\ [Next]_vars => TurnsPlaced'
<1> SUFFICES ASSUME TInv, [Next]_vars PROVE TurnsPlaced'
  OBVIOUS
<1>0. TurnsPlaced /\ IndexInv /\ RestInv
  BY DEF TInv
<1>1. ASSUME turn' = turn PROVE TurnsPlaced'
  BY <1>0, <1>1 DEF TurnsPlaced
<1>2. ASSUME NEW c \in Convs, NEW more \in Increments, Ask(c, more) PROVE TurnsPlaced'
  BY <1>0, <1>2, AskTyped
<1>3. ASSUME NEW c \in Convs, NEW last \in Units, AskAgain(c, last) PROVE TurnsPlaced'
  BY <1>0, <1>3, AskAgainTyped
<1>4. ASSUME NEW c \in Convs, NEW first \in 1 .. MaxUnits, RouteExplicit(c, first)
      PROVE  TurnsPlaced'
  BY <1>0, <1>4, ExplicitTyped
<1>5. ASSUME NEW c \in Convs, RouteNative(c) \/ RouteAway(c) \/ RouteUnmatched(c)
      PROVE  TurnsPlaced'
  <2>1. \E r \in BOOLEAN : RouteFull(c, r)
    BY <1>5 DEF RouteNative, RouteAway, RouteUnmatched
  <2> QED BY <2>1, <1>0, FullTyped
<1>6. ASSUME NEW c \in Convs, Continue(c) PROVE TurnsPlaced'
  BY <1>0, <1>6, ContinueTyped
<1>7. ASSUME NEW c \in Convs, NEW n \in Accounts, Send(c, n) \/ NotSent(c, n)
      PROVE  TurnsPlaced'
  <2>1. Attempt(c, n) /\ \E pc \in {"upstream", "routed"} : Attempted(c, n, pc)
    BY <1>7 DEF Send, NotSent
  <2> QED BY <2>1, <1>0, AttemptTyped
<1>8. ASSUME NEW c \in Convs, NobodyLeft(c) \/ Succeed(c) \/ Fail(c) \/ FailWriting(c)
      PROVE  TurnsPlaced'
  <2>1. \E pc \in {"idle", "failed"} : Ended(c, pc, turn[c].id) \/ Ended(c, pc, Named(c))
    BY <1>8 DEF NobodyLeft, Succeed, Fail, FailWriting
  <2> QED BY <2>1, <1>0, NamedTyped, EndedTyped
<1>9. ASSUME NEW c \in Convs, Rotate(c) PROVE TurnsPlaced'
  BY <1>0, <1>9, RotateTyped
<1>10. ASSUME NEW n \in Accounts, HealthChange(n) PROVE TurnsPlaced'
  BY <1>1, <1>10 DEF HealthChange
<1>11. ASSUME Restart PROVE TurnsPlaced'
  <2>1. turn' = [c \in Convs |-> IF turn[c].pc = "idle" THEN turn[c]
                                 ELSE Rest(c, "failed", turn[c].id)]
    BY <1>11 DEF Restart
  <2>2. ASSUME NEW c \in Convs
        PROVE  (IF turn[c].pc = "idle" THEN turn[c] ELSE Rest(c, "failed", turn[c].id)) \in Placed
    <3>1. turn[c] \in Placed
      BY <1>0 DEF TurnsPlaced
    <3>2. Rest(c, "failed", turn[c].id) \in Placed
      BY <1>0, NamedTyped, RestTyped DEF Placed
    <3> QED BY <3>1, <3>2
  <2> QED BY <2>1, <2>2 DEF TurnsPlaced
<1>12. ASSUME Tick PROVE TurnsPlaced'
  BY <1>1, <1>12 DEF Tick
<1>13. CASE UNCHANGED vars
  BY <1>1, <1>13 DEF vars
<1> QED BY <1>2, <1>3, <1>4, <1>5, <1>6, <1>7, <1>8, <1>9, <1>10, <1>11, <1>12, <1>13 DEF Next

-----------------------------------------------------------------------------
(* The index and its limit. *)

\* Removing the i-th of a sequence leaves the others.
LEMMA RemovedKeepsOthers ==
    ASSUME NEW S, NEW s \in Seq(S), NEW i \in 1 .. Len(s)
    PROVE  /\ RemoveAt(s, i) \in Seq(S)
           /\ \A j \in 1 .. Len(s) : j # i =>
                \E l \in 1 .. Len(RemoveAt(s, i)) : RemoveAt(s, i)[l] = s[j]
<1> DEFINE a == SubSeq(s, 1, i - 1)
           b == SubSeq(s, i + 1, Len(s))
<1>1. Len(s) \in Nat /\ i \in 1 .. Len(s) /\ \A j \in 1 .. Len(s) : s[j] \in S
  BY LenProperties, ElementOfSeq
<1>2. /\ a \in Seq(S) /\ Len(a) = i - 1
      /\ \A j \in 1 .. i - 1 : a[j] = s[j]
  <2>1. 1 \in Int /\ i - 1 \in Int /\ \A j \in 1 .. i - 1 : s[j] \in S
    BY <1>1
  <2>2. /\ SubSeq(s, 1, i - 1) \in Seq(S)
        /\ Len(SubSeq(s, 1, i - 1)) = IF 1 <= i - 1 THEN i - 1 - 1 + 1 ELSE 0
        /\ \A j \in 1 .. i - 1 - 1 + 1 : SubSeq(s, 1, i - 1)[j] = s[1 + j - 1]
    BY <2>1, SubSeqProperties
  <2> QED BY <2>2, <1>1
<1>3. /\ b \in Seq(S) /\ Len(b) = Len(s) - i
      /\ \A j \in 1 .. Len(s) - i : b[j] = s[i + j]
  <2>1. i + 1 \in Int /\ Len(s) \in Int /\ \A j \in i + 1 .. Len(s) : s[j] \in S
    BY <1>1
  <2>2. /\ SubSeq(s, i + 1, Len(s)) \in Seq(S)
        /\ Len(SubSeq(s, i + 1, Len(s))) = IF i + 1 <= Len(s) THEN Len(s) - (i + 1) + 1 ELSE 0
        /\ \A j \in 1 .. Len(s) - (i + 1) + 1 : SubSeq(s, i + 1, Len(s))[j] = s[i + 1 + j - 1]
    BY <2>1, SubSeqProperties
  <2> QED BY <2>2, <1>1
<1>4. RemoveAt(s, i) = a \o b
  BY DEF RemoveAt
<1> HIDE DEF a, b
<1>5. /\ a \o b \in Seq(S) /\ Len(a \o b) = Len(s) - 1
      /\ \A j \in 1 .. Len(s) - 1 : (a \o b)[j] = IF j <= i - 1 THEN a[j] ELSE b[j - (i - 1)]
  <2>1. a \o b \in Seq(S) /\ Len(a \o b) = Len(a) + Len(b)
    BY <1>2, <1>3, ConcatProperties
  <2>2. \A j \in 1 .. Len(a) + Len(b) :
           (a \o b)[j] = IF j <= Len(a) THEN a[j] ELSE b[j - Len(a)]
    BY <1>2, <1>3, ConcatProperties
  <2> QED BY <2>1, <2>2, <1>1, <1>2, <1>3
<1>6. ASSUME NEW j \in 1 .. Len(s), j # i
      PROVE  \E l \in 1 .. Len(a \o b) : (a \o b)[l] = s[j]
  <2>1. CASE j < i
    <3>1. j \in 1 .. Len(s) - 1 /\ j \in 1 .. i - 1 /\ j <= i - 1
      BY <1>1, <2>1
    <3> QED BY <3>1, <1>2, <1>5
  <2>2. CASE j > i
    <3>1. /\ j - 1 \in 1 .. Len(s) - 1 /\ ~(j - 1 <= i - 1)
          /\ j - 1 - (i - 1) = j - i /\ j - i \in 1 .. Len(s) - i /\ i + (j - i) = j
      BY <1>1, <2>2
    <3>2. (a \o b)[j - 1] = b[j - i] /\ b[j - i] = s[j]
      BY <3>1, <1>3, <1>5
    <3> QED BY <3>1, <3>2, <1>5
  <2> QED BY <2>1, <2>2, <1>1, <1>6
<1> QED BY <1>4, <1>5, <1>6

\* register keeps within the limit: it makes room before it adds, and finds a
\* key to drop because every entry has been registered.
LEMMA RegisterIndex ==
    ASSUME IndexInv, NEW key \in Lists, NEW n \in Accounts, NEW chat \in 1 .. Chats,
           Register(key, n, chat)
    PROVE  IndexInv'
<1> DEFINE live == {i \in DOMAIN order : order[i] \in DOMAIN entries}
           kept == IF Evicts THEN Dropped(entries, {order[Oldest]}) ELSE entries
           ours == {k \in DOMAIN kept : kept[k].account = n /\ kept[k].chat = chat}
           ref  == [account |-> n, chat |-> chat,
                    tails |-> IF ours = {} THEN 0
                              ELSE kept[CHOOSE k \in ours : TRUE].tails + 1,
                    contended |-> key \in DOMAIN kept \ ours]
           rest == Dropped(kept, ours \cup {key})
           left == IF Evicts THEN RemoveAt(order, Oldest) ELSE order
<1>1. /\ entries' = [k \in DOMAIN rest \cup {key} |-> IF k = key THEN ref ELSE rest[k]]
      /\ order' = Append(left, key)
  BY DEF Register
<1>2. /\ FpMaxEntries \in Nat \ {0} /\ order \in Seq(Lists) /\ Len(order) \in Nat
      /\ DOMAIN order = 1 .. Len(order)
      /\ IsFiniteSet(DOMAIN entries) /\ Cardinality(DOMAIN entries) \in Nat
      /\ Cardinality(DOMAIN entries) <= FpMaxEntries
  BY SessionAssumption, FS_CardinalityType, LenProperties DEF IndexInv
<1>3. ASSUME Evicts PROVE Oldest \in live
  <2>1. DOMAIN entries # {}
    BY <1>2, <1>3, FS_EmptySet DEF Evicts
  <2>2. live # {} /\ live \in SUBSET Nat
    BY <2>1, <1>2 DEF IndexInv
  <2>3. \E i \in live : \A j \in live : i <= j
    <3> HIDE DEF live
    <3> QED BY <2>2, LeastOf
  <2>4. Oldest = CHOOSE i \in live : \A j \in live : i <= j
    BY DEF Oldest
  <2> HIDE DEF live
  <2> QED BY <2>3, <2>4
<1>4. /\ DOMAIN kept \subseteq DOMAIN entries /\ \A k \in DOMAIN kept : kept[k] = entries[k]
      /\ IsFiniteSet(DOMAIN kept) /\ Cardinality(DOMAIN kept) \in Nat
      /\ Cardinality(DOMAIN kept) < FpMaxEntries
  <2>1. CASE Evicts
    <3>1. /\ kept = Dropped(entries, {order[Oldest]})
          /\ order[Oldest] \in DOMAIN entries
      BY <2>1, <1>3
    <3> HIDE DEF kept
    <3>2. DOMAIN kept = DOMAIN entries \ {order[Oldest]} /\ \A k \in DOMAIN kept : kept[k] = entries[k]
      BY <3>1 DEF Dropped
    <3>3. IsFiniteSet(DOMAIN kept) /\ Cardinality(DOMAIN kept) = Cardinality(DOMAIN entries) - 1
      BY <3>1, <3>2, <1>2, FS_RemoveElement
    <3> QED BY <3>2, <3>3, <1>2, FS_CardinalityType
  <2>2. CASE ~Evicts
    <3>1. kept = entries /\ Cardinality(DOMAIN entries) < FpMaxEntries
      BY <2>2, <1>2 DEF Evicts
    <3> QED BY <3>1, <1>2
  <2> QED BY <2>1, <2>2
<1>5. left \in Seq(Lists) /\ \A k \in DOMAIN kept : \E i \in 1 .. Len(left) : left[i] = k
  <2>1. CASE Evicts
    <3>1. Oldest \in 1 .. Len(order) /\ left = RemoveAt(order, Oldest)
      BY <2>1, <1>2, <1>3
    <3>2. ASSUME NEW k \in DOMAIN kept
          PROVE  \E i \in 1 .. Len(order) : order[i] = k /\ i # Oldest
      <4>1. k \in DOMAIN entries /\ k # order[Oldest]
        BY <2>1, <3>2 DEF Dropped
      <4> QED BY <4>1, <1>2 DEF IndexInv
    <3> HIDE DEF left, kept
    <3> QED BY <3>1, <3>2, <1>2, RemovedKeepsOthers
  <2>2. CASE ~Evicts
    BY <2>2, <1>2 DEF IndexInv
  <2> QED BY <2>1, <2>2
<1>6. ref \in Ref
  <2>1. \A k \in ours : kept[k] \in Ref
    <3> HIDE DEF kept
    <3> QED BY <1>4 DEF IndexInv
  <2>2. ours # {} => (CHOOSE k \in ours : TRUE) \in ours
    <3> HIDE DEF ours
    <3> QED OBVIOUS
  <2>3. (IF ours = {} THEN 0 ELSE kept[CHOOSE k \in ours : TRUE].tails + 1) \in Nat
    <3> HIDE DEF kept, ours
    <3> QED BY <2>1, <2>2 DEF Ref
  <2>4. (key \in DOMAIN kept \ ours) \in BOOLEAN
    OBVIOUS
  <2> HIDE DEF kept, ours
  <2> QED BY <2>3, <2>4 DEF Ref
<1>7. DOMAIN rest \subseteq DOMAIN kept /\ \A k \in DOMAIN rest : rest[k] = kept[k]
  <2> HIDE DEF kept, ours
  <2> QED BY DEF Dropped
<1> HIDE DEF live, kept, ours, ref, rest, left
<1>8. DOMAIN entries' = DOMAIN rest \cup {key}
  BY <1>1
<1>9. IsFiniteSet(DOMAIN entries') /\ Cardinality(DOMAIN entries') <= FpMaxEntries
  <2>1. /\ IsFiniteSet(DOMAIN rest) /\ Cardinality(DOMAIN rest) <= Cardinality(DOMAIN kept)
        /\ Cardinality(DOMAIN rest) \in Nat
    BY <1>4, <1>7, FS_Subset, FS_CardinalityType
  <2>2. /\ IsFiniteSet(DOMAIN rest \cup {key})
        /\ Cardinality(DOMAIN rest \cup {key}) <= Cardinality(DOMAIN rest) + 1
    BY <2>1, FS_AddElement
  <2>3. Cardinality(DOMAIN rest \cup {key}) <= FpMaxEntries
    BY <2>1, <2>2, <1>2, <1>4, FS_CardinalityType
  <2> QED BY <2>2, <2>3, <1>8
<1>10. /\ order' \in Seq(Lists) /\ Len(order') = Len(left) + 1 /\ Len(left) \in Nat
       /\ \A i \in 1 .. Len(left) : order'[i] = left[i]
       /\ order'[Len(left) + 1] = key
  BY <1>1, <1>5
<1>11. \A k \in DOMAIN entries' : \E i \in DOMAIN order' : order'[i] = k
  <2>1. DOMAIN order' = 1 .. Len(left) + 1
    BY <1>10
  <2>2. ASSUME NEW k \in DOMAIN entries' PROVE \E i \in 1 .. Len(left) + 1 : order'[i] = k
    <3>1. CASE k = key
      BY <3>1, <1>10
    <3>2. CASE k \in DOMAIN kept
      BY <3>2, <1>5, <1>10
    <3> QED BY <3>1, <3>2, <1>7, <1>8
  <2> QED BY <2>1, <2>2
<1>12. DOMAIN entries' \subseteq Lists
  BY <1>4, <1>7, <1>8 DEF IndexInv
<1>13. \A k \in DOMAIN entries' : entries'[k] \in Ref
  BY <1>1, <1>4, <1>6, <1>7 DEF IndexInv
<1> QED BY <1>9, <1>10, <1>11, <1>12, <1>13 DEF IndexInv

LEMMA DroppedIndex ==
    ASSUME IndexInv, NEW keys, entries' = Dropped(entries, keys), order' = order
    PROVE  IndexInv'
<1>1. DOMAIN entries' \subseteq DOMAIN entries /\ \A k \in DOMAIN entries' : entries'[k] = entries[k]
  BY DEF Dropped
<1>2. IsFiniteSet(DOMAIN entries') /\ Cardinality(DOMAIN entries') <= FpMaxEntries
  <2>1. /\ IsFiniteSet(DOMAIN entries) /\ Cardinality(DOMAIN entries) <= FpMaxEntries
        /\ FpMaxEntries \in Nat
    BY SessionAssumption DEF IndexInv
  <2> QED BY <1>1, <2>1, FS_Subset, FS_CardinalityType
<1> QED BY <1>1, <1>2 DEF IndexInv

LEMMA IndexStep == TInv /\ [Next]_vars => IndexInv'
<1> SUFFICES ASSUME TInv, [Next]_vars PROVE IndexInv'
  OBVIOUS
<1>0. TurnsPlaced /\ IndexInv
  BY DEF TInv
<1>1. ASSUME UNCHANGED <<entries, order>> PROVE IndexInv'
  BY <1>0, <1>1 DEF IndexInv
<1>2. ASSUME NEW c \in Convs, RouteAway(c) \/ Fail(c) PROVE IndexInv'
  BY <1>0, <1>2, DroppedIndex DEF RouteAway, Fail
<1>3. ASSUME NEW c \in Convs, Succeed(c) PROVE IndexInv'
  <2>1. turn[c].msgs \in Lists /\ turn[c].at \in Accounts /\ turn[c].chat \in 1 .. Chats
    BY <1>0, <1>3, PlacedTurn DEF Succeed, Turn
  <2> QED BY <2>1, <1>0, <1>1, <1>3, RegisterIndex DEF Succeed
<1>4. ASSUME Restart PROVE IndexInv'
  <2>1. DOMAIN entries' = {} /\ order' = <<>> /\ <<>> \in Seq(Lists)
    BY <1>4 DEF Restart
  <2>2. IsFiniteSet({}) /\ Cardinality({}) = 0 /\ 0 <= FpMaxEntries
    BY FS_EmptySet, SessionAssumption
  <2> QED BY <2>1, <2>2 DEF IndexInv
<1>5. ASSUME NEW c \in Convs,
             \/ \E more \in Increments : Ask(c, more)
             \/ \E last \in Units : AskAgain(c, last)
             \/ \E first \in 1 .. MaxUnits : RouteExplicit(c, first)
             \/ RouteNative(c) \/ Continue(c) \/ RouteUnmatched(c)
             \/ \E n \in Accounts : Send(c, n) \/ NotSent(c, n)
             \/ NobodyLeft(c) \/ FailWriting(c) \/ Rotate(c)
      PROVE  IndexInv'
  BY <1>1, <1>5 DEF Ask, AskAgain, RouteExplicit, RouteNative, Continue, RouteUnmatched, Send,
                    NotSent, NobodyLeft, FailWriting, Rotate
<1>6. ASSUME (\E n \in Accounts : HealthChange(n)) \/ Tick \/ UNCHANGED vars
      PROVE  IndexInv'
  BY <1>1, <1>6 DEF HealthChange, Tick, vars
<1> QED BY <1>2, <1>3, <1>4, <1>5, <1>6 DEF Next

-----------------------------------------------------------------------------
(* The circuit breaker and the rest. *)

\* One tick leaves a list of stamps that still count.
LEMMA EventsKept ==
    ASSUME NEW n \in Nat, NEW h \in Seq(1 .. n)
    PROVE  WindowAged(h) \in Seq(1 .. n)
<1> DEFINE over == WindowOver(h)
           k    == Max(over \cup {0})
           l    == Len(h) - k
<1>1. over \in SUBSET (1 .. Len(h)) /\ Len(h) \in Nat
  BY LenProperties DEF WindowOver
<1>2. \E m \in over \cup {0} : \A j \in over \cup {0} : m >= j
  <2> HIDE DEF over
  <2>1. CASE over = {}
    BY <2>1
  <2>2. CASE over # {}
    <3>1. PICK i \in over : \A j \in over : j <= i
      BY <2>2, <1>1, GreatestOf
    <3> QED BY <3>1, <1>1
  <2> QED BY <2>1, <2>2
<1>3. k \in over \cup {0} /\ \A j \in over \cup {0} : k >= j
  <2> HIDE DEF over
  <2> QED BY <1>2 DEF Max
<1>4. WindowAged(h) = [i \in 1 .. l |-> h[i + k] - 1]
  BY DEF WindowAged
<1> HIDE DEF k
<1>5. k \in 0 .. Len(h) /\ l \in Nat
  BY <1>1, <1>3
<1>6. ASSUME NEW i \in 1 .. l
      PROVE  h[i + k] - 1 \in 1 .. n
  <2>1. i + k \in 1 .. Len(h) /\ i + k > k
    BY <1>1, <1>5
  <2>2. h[i + k] \in 1 .. n
    BY <2>1
  <2>3. i + k \notin over
    BY <2>1, <1>1, <1>3, <1>5
  <2>4. ~(h[i + k] <= 1)
    BY <2>1, <2>3 DEF WindowOver
  <2> QED BY <2>2, <2>4
<1> HIDE DEF l
<1> QED BY <1>4, <1>5, <1>6

LEMMA BreakerTypes ==
    ASSUME NEW b \in BreakerState
    PROVE  /\ NewCircuitBreaker \in BreakerState
           /\ Looked(b) \in BreakerState
           /\ \A e \in GuardEvent : Recorded(b, e) \in BreakerState
           /\ BreakerAged(b) \in BreakerState
<1> USE BreakerAssumption
<1>1. NewCircuitBreaker \in BreakerState
  <2>1. <<>> \in Seq(1 .. Window) /\ 0 \in 0 .. Duration
    OBVIOUS
  <2> QED BY <2>1 DEF NewCircuitBreaker, NoEvents, BreakerState
<1>2. Looked(b) \in BreakerState
  BY <1>1 DEF Looked
<1>3. ASSUME NEW e \in GuardEvent PROVE Recorded(b, e) \in BreakerState
  <2> DEFINE all   == Append(b.events[e], Window)
             kept  == IF Len(all) > Threshold THEN Tail(all) ELSE all
             trips == Len(kept) >= Threshold
             open  == IF trips THEN Duration ELSE b.openLeft
  <2>1. b.events[e] \in Seq(1 .. Window) /\ Window \in 1 .. Window
    BY DEF BreakerState
  <2>2. all \in Seq(1 .. Window) /\ all # <<>>
    BY <2>1
  <2>3. kept \in Seq(1 .. Window)
    <3> HIDE DEF all
    <3> QED BY <2>2, HeadTailProperties
  <2>4. open \in 0 .. Duration
    <3> HIDE DEF trips
    <3> QED BY DEF BreakerState
  <2>5. Recorded(b, e) = [b EXCEPT !.events = [b.events EXCEPT ![e] = kept],
                                   !.openLeft = open, !.tripped = b.tripped \/ trips]
    BY DEF Recorded, BreakerState
  <2>6. (b.tripped \/ trips) \in BOOLEAN
    OBVIOUS
  <2> HIDE DEF kept, trips, open
  <2>7. [b.events EXCEPT ![e] = kept] \in [GuardEvent -> Seq(1 .. Window)]
    BY <2>3 DEF BreakerState
  <2> QED BY <2>4, <2>5, <2>6, <2>7 DEF BreakerState
<1>4. BreakerAged(b) \in BreakerState
  <2>1. \A e \in GuardEvent : WindowAged(b.events[e]) \in Seq(1 .. Window)
    BY EventsKept DEF BreakerState
  <2>2. (IF b.openLeft > 0 THEN b.openLeft - 1 ELSE 0) \in 0 .. Duration
    BY DEF BreakerState
  <2>3. BreakerAged(b) =
          [b EXCEPT !.openLeft = IF b.openLeft > 0 THEN b.openLeft - 1 ELSE 0,
                    !.events = [e \in GuardEvent |-> WindowAged(b.events[e])]]
    BY DEF BreakerAged, BreakerState
  <2> DEFINE events == [e \in GuardEvent |-> WindowAged(b.events[e])]
             open   == IF b.openLeft > 0 THEN b.openLeft - 1 ELSE 0
  <2>4. events \in [GuardEvent -> Seq(1 .. Window)]
    BY <2>1
  <2>5. BreakerAged(b) = [b EXCEPT !.openLeft = open, !.events = events]
    BY <2>3
  <2> HIDE DEF events, open
  <2>6. open \in 0 .. Duration
    BY <2>2 DEF open
  <2> QED BY <2>4, <2>5, <2>6 DEF BreakerState
<1> QED BY <1>1, <1>2, <1>3, <1>4

LEMMA RestStep == TInv /\ [Next]_vars => RestInv'
<1> SUFFICES ASSUME TInv, [Next]_vars PROVE RestInv'
  OBVIOUS
<1>0. TurnsPlaced /\ RestInv
  BY DEF TInv
<1>1. breaker' \in BreakerState
  <2>1. breaker \in BreakerState /\ {"miss", "cross", "noinstruction"} \subseteq GuardEvent
    BY <1>0 DEF RestInv, GuardEvent
  <2>2. Looked(breaker) \in BreakerState
    BY <2>1, BreakerTypes
  <2>3. \/ breaker' = breaker \/ breaker' = Looked(breaker)
        \/ \E e \in {"miss", "cross"} : breaker' = Recorded(Looked(breaker), e)
        \/ breaker' = Recorded(breaker, "noinstruction")
        \/ breaker' = NewCircuitBreaker \/ breaker' = BreakerAged(breaker)
    <3>1. ASSUME NEW c \in Convs, RouteUnmatched(c)
          PROVE  \E e \in {"miss", "cross"} : breaker' = Recorded(Looked(breaker), e)
      BY <3>1 DEF RouteUnmatched
    <3>2. ASSUME NEW c \in Convs, RouteAway(c)
          PROVE  breaker' = Recorded(Looked(breaker), "miss")
      BY <3>2 DEF RouteAway
    <3>3. ASSUME NEW c \in Convs, Continue(c)
          PROVE  breaker' = Looked(breaker)
      BY <3>3 DEF Continue
    <3>4. ASSUME NEW c \in Convs, Succeed(c)
          PROVE  breaker' \in {breaker, Recorded(breaker, "noinstruction")}
      BY <3>4 DEF Succeed
    <3>5. ASSUME NEW c \in Convs,
                 \/ \E more \in Increments : Ask(c, more)
                 \/ \E last \in Units : AskAgain(c, last)
                 \/ \E first \in 1 .. MaxUnits : RouteExplicit(c, first)
                 \/ RouteNative(c)
                 \/ \E n \in Accounts : Send(c, n) \/ NotSent(c, n)
                 \/ NobodyLeft(c) \/ Fail(c) \/ FailWriting(c) \/ Rotate(c)
          PROVE  breaker' = breaker
      BY <3>5 DEF Ask, AskAgain, RouteExplicit, RouteNative, Send, NotSent, NobodyLeft, Fail,
                  FailWriting, Rotate
    <3>6. ASSUME (\E n \in Accounts : HealthChange(n)) \/ UNCHANGED vars
          PROVE  breaker' = breaker
      BY <3>6 DEF HealthChange, vars
    <3>7. Restart => breaker' = NewCircuitBreaker
      BY DEF Restart
    <3>8. Tick => breaker' = BreakerAged(breaker)
      BY DEF Tick
    <3> QED BY <3>1, <3>2, <3>3, <3>4, <3>5, <3>6, <3>7, <3>8 DEF Next
  <2> QED BY <2>1, <2>2, <2>3, BreakerTypes
<1>2. ASSUME UNCHANGED <<healthy, told, fresh, convAcct>> PROVE RestInv'
  BY <1>0, <1>1, <1>2 DEF RestInv
<1>3. ASSUME NEW c \in Convs, NEW n \in Accounts, NotSent(c, n) PROVE RestInv'
  <2>1. fresh' \in 0 .. Chats
    BY <1>0, <1>3, AttemptTyped DEF NotSent
  <2> QED BY <2>1, <1>0, <1>1, <1>3 DEF NotSent, RestInv
<1>4. ASSUME NEW c \in Convs, NEW n \in Accounts, Send(c, n) PROVE RestInv'
  <2>1. fresh' \in 0 .. Chats
    BY <1>0, <1>4, AttemptTyped DEF Send
  <2>2. Payload(c) \subseteq Lists
    <3>1. turn[c].msgs \in Lists
      BY <1>0, PlacedTurn DEF Turn
    <3> QED BY <3>1, PrefixIs DEF Payload, Context
  <2>3. told \in [Accounts \X (1 .. Chats) -> SUBSET Lists]
    BY <1>0 DEF RestInv
  <2> DEFINE p == <<n, turn'[c].chat>>
  <2>4. told' = [told EXCEPT ![p] = told[p] \cup Payload(c)]
    BY <1>4 DEF Send
  <2> HIDE DEF p
  <2>5. told' \in [Accounts \X (1 .. Chats) -> SUBSET Lists]
    BY <2>2, <2>3, <2>4
  <2> QED BY <2>1, <2>5, <1>0, <1>1, <1>4 DEF Send, RestInv
<1>5. ASSUME NEW c \in Convs, Succeed(c) PROVE RestInv'
  <2>1. turn[c].at \in Accounts
    BY <1>0, <1>5, PlacedTurn DEF Succeed
  <2>2. convAcct' \in [1 .. Chats -> Accounts \cup {Nobody}]
    BY <2>1, <1>0, <1>5 DEF Succeed, RestInv
  <2> QED BY <2>2, <1>0, <1>1, <1>5 DEF Succeed, RestInv
<1>6. ASSUME NEW c \in Convs, Rotate(c) PROVE RestInv'
  BY <1>0, <1>1, <1>6 DEF Rotate, RestInv
<1>7. ASSUME NEW n \in Accounts, HealthChange(n) PROVE RestInv'
  BY <1>0, <1>1, <1>7 DEF HealthChange, RestInv
<1>8. ASSUME Restart PROVE RestInv'
  BY <1>0, <1>1, <1>8 DEF Restart, RestInv
<1>9. ASSUME NEW c \in Convs,
             \/ \E more \in Increments : Ask(c, more)
             \/ \E last \in Units : AskAgain(c, last)
             \/ \E first \in 1 .. MaxUnits : RouteExplicit(c, first)
             \/ RouteNative(c) \/ Continue(c) \/ RouteAway(c) \/ RouteUnmatched(c)
             \/ NobodyLeft(c) \/ Fail(c) \/ FailWriting(c)
      PROVE  RestInv'
  BY <1>2, <1>9 DEF Ask, AskAgain, RouteExplicit, RouteNative, Continue, RouteAway,
                    RouteUnmatched, NobodyLeft, Fail, FailWriting
<1>10. ASSUME Tick \/ UNCHANGED vars PROVE RestInv'
  BY <1>2, <1>10 DEF Tick, vars
<1> QED BY <1>3, <1>4, <1>5, <1>6, <1>7, <1>8, <1>9, <1>10 DEF Next

LEMMA TInvInit == Init => TInv
<1> SUFFICES ASSUME Init PROVE TInv
  OBVIOUS
<1>1. NoTurn \in Placed
  <2>1. <<>> \in Lists
    <3>1. <<>> \in Seq(Units) /\ Len(<<>>) = 0 /\ 0 <= MaxUnits
      BY SessionAssumption
    <3> QED BY <3>1, ListIs
  <2>2. NoChat \in 0 .. Chats /\ 1 \in 1 .. MaxUnits + 1 /\ 0 \in 0 .. MaxRotate
    BY ConstantFacts, SessionAssumption
  <2> QED BY <2>1, <2>2 DEF NoTurn, Turn, Placed
<1>2. TurnsPlaced
  BY <1>1 DEF Init, TurnsPlaced
<1>3. IndexInv
  <2>1. DOMAIN entries = {} /\ order = <<>> /\ <<>> \in Seq(Lists)
    BY DEF Init
  <2>2. IsFiniteSet({}) /\ Cardinality({}) = 0 /\ 0 <= FpMaxEntries
    BY FS_EmptySet, SessionAssumption
  <2> QED BY <2>1, <2>2 DEF IndexInv
<1>4. RestInv
  <2>1. NewCircuitBreaker \in BreakerState
    <3>1. <<>> \in Seq(1 .. Window) /\ 0 \in 0 .. Duration
      BY BreakerAssumption
    <3> QED BY <3>1 DEF NewCircuitBreaker, NoEvents, BreakerState
  <2> QED BY <2>1, ConstantFacts DEF Init, RestInv
<1> QED BY <1>2, <1>3, <1>4 DEF TInv

\* For any accounts, conversations and settings: lists, chats and references keep
\* their types, the index keeps within its limit, and no turn tries more rounds
\* than it may.
THEOREM SessionTypes == Spec => []TypeOK
<1>1. TInv /\ [Next]_vars => TInv'
  BY TurnStep, IndexStep, RestStep DEF TInv
<1> QED BY TInvInit, <1>1, TInvIsTyped, PTL DEF Spec
=============================================================================
