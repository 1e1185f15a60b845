-------------------------- MODULE PromptAssemblyProofs --------------------------
(* Proofs about PromptAssembly: the prompt that is sent leaves the answer its *)
(* room, and its history is the newest part of the conversation without a     *)
(* gap, for conversations of any length, any costs of the messages and any    *)
(* size of the context.                                                       *)

(* The walk over the messages, newest first, keeps: what it has taken is the  *)
(* end of what is left of the conversation from the place it has reached, it  *)
(* cost what is spent, and what is spent stays within the budget of the       *)
(* input. What is left of the conversation is computed by a function over the *)
(* numbers of the messages; that such a function exists and is what the walk  *)
(* steps over is proved from the least number for which it would not.         *)
EXTENDS PromptAssembly, NaturalsInduction, WellFoundedInduction, TLAPS

Less == OpToRel(<, Nat)

\* Every set of numbers that is not empty has a least one.
LEMMA LeastExists ==
  ASSUME NEW T \in SUBSET Nat, T # {}
  PROVE  \E m \in T : \A k \in T : m <= k
  <1>1. IsWellFoundedOn(Less, Nat)
    BY NatLessThanWellFounded DEF OpToRel, Less
  <1>2. \A m, k \in Nat : <<k, m>> \notin Less => m <= k
    BY DEF OpToRel, Less
  <1>3. PICK m \in T : \A k \in T : <<k, m>> \notin Less
    BY <1>1, WFMin
  <1> QED
    BY <1>2, <1>3

-----------------------------------------------------------------------------
(* The messages of the conversation. *)

\* The messages that are left of the first n, for every n.
Left(msgs, gone, n) ==
  {f \in [0..n -> Seq(Messages)] :
     /\ f[0] = <<>>
     /\ \A i \in 1..n : f[i] = IF msgs[i] \in gone THEN f[i - 1] ELSE Append(f[i - 1], msgs[i])}

LEMMA LeftExists ==
  ASSUME NEW msgs \in Seq(Messages), NEW gone, NEW n \in 0..Len(msgs)
  PROVE  Left(msgs, gone, n) # {}
  <1> DEFINE T == {k \in Nat : k <= Len(msgs) /\ Left(msgs, gone, k) = {}}
  <1>1. Len(msgs) \in Nat /\ n \in Nat /\ n <= Len(msgs)
    OBVIOUS
  <1>2. SUFFICES T = {}
    BY <1>1
  <1>3. SUFFICES ASSUME T # {} PROVE FALSE
    OBVIOUS
  <1>4. PICK m \in T : \A k \in T : m <= k
    BY <1>3, LeastExists
  <1>5. CASE m = 0
    <2> DEFINE none == <<>>
               f == [i \in 0..m |-> none]
    <2>1. none \in Seq(Messages)
      OBVIOUS
    <2> HIDE DEF none
    <2>2. f \in [0..m -> Seq(Messages)] /\ f[0] = none
      BY <1>5, <2>1
    <2>3. f \in Left(msgs, gone, m)
      BY <1>5, <2>2 DEF Left, none
    <2> QED
      BY <1>4, <2>3
  <1>6. CASE m # 0
    <2>1. m \in Nat /\ m - 1 \in Nat /\ m - 1 < m /\ m \in 1..Len(msgs)
      BY <1>1, <1>4, <1>6
    <2>2. PICK f : f \in Left(msgs, gone, m - 1)
      <3>1. m - 1 \notin T
        BY <1>4, <2>1
      <3> QED
        BY <2>1, <3>1
    <2>3. f \in [0..m - 1 -> Seq(Messages)] /\ f[0] = <<>>
      BY <2>2 DEF Left
    <2>4. PICK last \in Seq(Messages) :
            last = IF msgs[m] \in gone THEN f[m - 1] ELSE Append(f[m - 1], msgs[m])
      <3>1. f[m - 1] \in Seq(Messages) /\ msgs[m] \in Messages
        BY <2>1, <2>3
      <3>2. Append(f[m - 1], msgs[m]) \in Seq(Messages)
        BY <3>1
      <3> QED
        BY <3>1, <3>2
    <2> DEFINE g == [i \in 0..m |-> IF i < m THEN f[i] ELSE last]
    <2>5. g \in [0..m -> Seq(Messages)] /\ g[0] = <<>>
      BY <2>1, <2>3
    <2>6. \A i \in 1..m :
            g[i] = IF msgs[i] \in gone THEN g[i - 1] ELSE Append(g[i - 1], msgs[i])
      <3> SUFFICES ASSUME NEW i \in 1..m
                   PROVE  g[i] = IF msgs[i] \in gone THEN g[i - 1] ELSE Append(g[i - 1], msgs[i])
        OBVIOUS
      <3>1. i - 1 \in 0..m - 1 /\ g[i - 1] = f[i - 1]
        BY <2>1
      <3>2. CASE i = m
        BY <2>1, <2>4, <3>1, <3>2
      <3>3. CASE i # m
        <4>1. i \in 1..m - 1 /\ g[i] = f[i]
          BY <2>1, <3>3
        <4> QED
          BY <2>2, <3>1, <4>1 DEF Left
      <3> QED
        BY <3>2, <3>3
    <2> QED
      BY <1>4, <2>5, <2>6 DEF Left
  <1> QED
    BY <1>5, <1>6

LEMMA WithoutTyped ==
  ASSUME NEW msgs \in Seq(Messages), NEW gone
  PROVE  Without(msgs, gone) \in Seq(Messages)
  <1> DEFINE n == Len(msgs)
             left == CHOOSE f : f = [i \in 0..n |->
                       IF i = 0 THEN <<>>
                       ELSE IF msgs[i] \in gone THEN f[i - 1] ELSE Append(f[i - 1], msgs[i])]
             Holds(i) == left[i] \in Seq(Messages)
             T == {k \in Nat : k \in 0..n /\ ~Holds(k)}
  <1>1. n \in Nat /\ n \in 0..n
    OBVIOUS
  <1>2. PICK f : f \in Left(msgs, gone, n)
    BY <1>1, LeftExists
  <1>3. f = [i \in 0..n |->
               IF i = 0 THEN <<>>
               ELSE IF msgs[i] \in gone THEN f[i - 1] ELSE Append(f[i - 1], msgs[i])]
    <2>1. f = [i \in 0..n |-> f[i]] /\ f[0] = <<>>
      BY <1>2 DEF Left
    <2>2. \A i \in 0..n : i # 0 =>
             f[i] = IF msgs[i] \in gone THEN f[i - 1] ELSE Append(f[i - 1], msgs[i])
      <3>1. \A i \in 0..n : i # 0 => i \in 1..n
        BY <1>1
      <3> QED
        BY <1>2, <3>1 DEF Left
    <2> QED
      BY <2>1, <2>2
  <1>4. left = [i \in 0..n |->
               IF i = 0 THEN <<>>
               ELSE IF msgs[i] \in gone THEN left[i - 1] ELSE Append(left[i - 1], msgs[i])]
    BY <1>3
  <1>5. Without(msgs, gone) = left[n]
    BY DEF Without
  <1> HIDE DEF left
  <1>6. T = {}
    <2> SUFFICES ASSUME T # {} PROVE FALSE
      OBVIOUS
    <2>1. PICK m \in T : \A k \in T : m <= k
      BY LeastExists
    <2>2. CASE m = 0
      <3>1. left[0] = <<>>
        BY <1>1, <1>4
      <3>2. Holds(0)
        BY <3>1
      <3> QED
        BY <2>1, <2>2, <3>2
    <2>3. CASE m # 0
      <3>1. m \in 1..n /\ m - 1 \in 0..n /\ m - 1 \in Nat /\ m - 1 < m
        BY <1>1, <2>1, <2>3
      <3>2. Holds(m - 1)
        BY <2>1, <3>1
      <3>3. left[m] = IF msgs[m] \in gone THEN left[m - 1] ELSE Append(left[m - 1], msgs[m])
        BY <1>4, <2>1, <2>3
      <3>4. msgs[m] \in Messages
        BY <3>1
      <3>5. Holds(m)
        BY <3>2, <3>3, <3>4
      <3> QED
        BY <2>1, <3>5
    <2> QED
      BY <2>2, <2>3
  <1> QED
    BY <1>1, <1>5, <1>6

LEMMA TokensTyped ==
  ASSUME PromptAssumption, NEW t \in Texts
  PROVE  Tokens(t) \in Nat
  <1>1. Chars[t] \in Nat
    BY DEF PromptAssumption
  <1>2. (Chars[t] + 1) \div 2 \in Nat /\ (Chars[t] + 3) \div 4 \in Nat
    BY <1>1
  <1> QED
    BY <1>2 DEF Tokens

\* What the store writes when the project has answered are messages.
Ready == job.request \in Nat /\ job.text \in Texts

LEMMA WrittenTyped ==
  ASSUME PromptAssumption, talk \in Seq(Messages), Ready
  PROVE  Written \in Seq(Messages)
  <1> DEFINE revised == [i \in 1..Len(talk) |->
                           IF talk[i].role = "user" /\ talk[i].request = job.target
                             THEN [talk[i] EXCEPT !.text = job.text] ELSE talk[i]]
             waiting == Message("assistant", job.request, Blank, TRUE)
             question == Message("user", job.request, job.text, TRUE)
  <1>1. revised \in Seq(Messages)
    <2>1. Len(talk) \in Nat /\ \A i \in 1..Len(talk) : talk[i] \in Messages
      OBVIOUS
    <2>2. PICK text \in Texts : text = job.text
      BY DEF Ready
    <2>3. \A m \in Messages : [m EXCEPT !.text = text] \in Messages
      BY DEF Messages
    <2>4. \A i \in 1..Len(talk) : revised[i] \in Messages
      BY <2>1, <2>2, <2>3
    <2> QED
      BY <2>1, <2>4
  <1>2. waiting \in Messages /\ question \in Messages
    <2>1. PICK a \in {"user", "assistant"}, u \in {"user", "assistant"} :
            a = "assistant" /\ u = "user"
      OBVIOUS
    <2>2. PICK t \in BOOLEAN : t
      OBVIOUS
    <2>3. [role |-> a, request |-> job.request, text |-> Blank, ok |-> t] \in Messages
      BY DEF Messages, Ready, PromptAssumption
    <2>4. [role |-> u, request |-> job.request, text |-> job.text, ok |-> t] \in Messages
      BY DEF Messages, Ready
    <2>5. /\ waiting = [role |-> a, request |-> job.request, text |-> Blank, ok |-> t]
          /\ question = [role |-> u, request |-> job.request, text |-> job.text, ok |-> t]
      BY <2>1, <2>2 DEF Message
    <2> QED
      BY <2>3, <2>4, <2>5
  <1>3. \A gone : Append(Without(revised, gone), waiting) \in Seq(Messages)
    <2> HIDE DEF revised, waiting
    <2> QED
      BY <1>1, <1>2, WithoutTyped
  <1>4. talk \o <<question, waiting>> \in Seq(Messages)
    <2> HIDE DEF question, waiting
    <2> QED
      BY <1>2
  <1>5. \/ Written = talk \o <<question, waiting>>
        \/ \E gone : Written = Append(Without(revised, gone), waiting)
    BY DEF Written
  <1> QED
    BY <1>3, <1>4, <1>5

-----------------------------------------------------------------------------
(* The inductive invariant. *)

Fit == {i \in 1..Len(job.read) : Eligible(job.read[i], job.request)}
Kept == {slice[k] : k \in 1..Len(slice)}

\* The history that has been taken is ascending, and is all that is fit and
\* newer than the place of the walk.
WalkInv ==
  /\ walkAt \in 0..Len(job.read)
  /\ slice \in Seq(Nat) /\ \A i, j \in 1..Len(slice) : i < j => slice[i] < slice[j]
  /\ Kept = {i \in Fit : walkAt < i}

\* It is within the share that the budget gave it.
RoomInv ==
  /\ job.ctx \in Nat /\ job.prompt \in Nat /\ job.predict \in Nat \cup {-1} /\ spent \in Nat
  /\ job.budget = Budget(job.ctx, job.prompt, job.predict)
  /\ slice # <<>> => job.budget.input > 0 /\ spent <= job.budget.input

StageInv ==
  /\ stage \in {"idle", "searching"} => slice = <<>>
  /\ stage = "searching" => Ready /\ spent = 0 /\ walkAt = 0
  /\ stage \in {"searching", "walking", "sent"} => job.read \in Seq(Messages)
  /\ stage = "walking" => WalkInv
  /\ stage \in {"walking", "sent"} => RoomInv

TypesInv == /\ talk \in Seq(Messages) /\ turns \in Nat /\ tuning \in Tunings
            /\ stage \in {"idle", "searching", "walking", "sent"}
Inv == TypesInv /\ StageInv /\ SliceIsTheNewest

LEMMA StartsKeeps ==
  ASSUME PromptAssumption, Inv, NEW kind, NEW target, NEW text \in Texts,
         Starts(kind, target, text)
  PROVE  Inv'
  <1>1. /\ stage' = "searching" /\ UNCHANGED <<talk, tuning>> /\ turns' = turns + 1
        /\ walkAt' = 0 /\ slice' = <<>> /\ spent' = 0
    BY DEF Starts
  <1>2. job'.request = turns + 1 /\ job'.text = text /\ job'.read = talk
    BY DEF Starts
  <1>3. TypesInv'
    BY <1>1 DEF Inv, TypesInv
  <1>4. StageInv'
    BY <1>1, <1>2 DEF Inv, TypesInv, StageInv, Ready
  <1>5. SliceIsTheNewest'
    BY <1>1 DEF SliceIsTheNewest
  <1> QED
    BY <1>3, <1>4, <1>5 DEF Inv

LEMMA AssemblesKeeps ==
  ASSUME PromptAssumption, Inv, NEW chars \in 0..RagMax, Assembles(chars)
  PROVE  Inv'
  <1> DEFINE tune == Resolved(tuning)
             prompt == Tokens(System) + chars \div 3 + Tokens(job.text)
  <1>1. /\ stage = "searching" /\ stage' = "walking" /\ talk' = Written
        /\ UNCHANGED <<tuning, slice, spent, turns>> /\ walkAt' = Len(job.read)
    BY DEF Assembles
  <1>2. /\ job'.request = job.request /\ job'.read = job.read
        /\ job'.ctx = tune.ctx /\ job'.predict = tune.predict /\ job'.prompt = prompt
        /\ job'.budget = Budget(tune.ctx, prompt, tune.predict)
    BY DEF Assembles
  <1>3. Ready /\ slice = <<>> /\ spent = 0 /\ job.read \in Seq(Messages)
    BY <1>1 DEF Inv, StageInv
  <1>4. tune.ctx \in Nat /\ tune.predict \in Nat \cup {-1}
    <2>1. PICK t \in [ctx : Nat, predict : Nat \cup {-1}] : t = tuning
      BY DEF Inv, TypesInv, PromptAssumption
    <2>2. Lesser(t.ctx, ModelWindow) \in Nat
      BY DEF Lesser, PromptAssumption
    <2> QED
      BY <2>1, <2>2 DEF Resolved
  <1>5. prompt \in Nat
    <2>1. Tokens(System) \in Nat /\ Tokens(job.text) \in Nat
      BY <1>3, TokensTyped DEF Ready, PromptAssumption
    <2>2. chars \div 3 \in Nat
      BY DEF PromptAssumption
    <2> QED
      BY <2>1, <2>2
  <1> HIDE DEF tune, prompt
  <1>6. TypesInv'
    BY <1>1, <1>3, WrittenTyped DEF Inv, TypesInv
  <1>7. RoomInv'
    BY <1>1, <1>2, <1>3, <1>4, <1>5 DEF RoomInv
  <1>8. WalkInv'
    <2>1. Len(job.read) \in Nat /\ slice' = <<>> /\ slice' \in Seq(Nat) /\ Len(slice') = 0
      BY <1>1, <1>3
    <2>2. Kept' = {}
      BY <2>1 DEF Kept
    <2>3. {i \in Fit' : walkAt' < i} = {}
      BY <1>1, <1>2, <2>1 DEF Fit
    <2>4. walkAt' \in 0..Len(job'.read)
      BY <1>1, <1>2, <2>1
    <2> QED
      BY <2>1, <2>2, <2>3, <2>4 DEF WalkInv
  <1>9. StageInv'
    BY <1>1, <1>2, <1>3, <1>7, <1>8 DEF StageInv
  <1>10. SliceIsTheNewest'
    BY <1>1 DEF SliceIsTheNewest
  <1> QED
    BY <1>6, <1>9, <1>10 DEF Inv

LEMMA SkipsKeeps ==
  ASSUME Inv, Skips
  PROVE  Inv'
  <1>1. /\ stage = "walking" /\ walkAt > 0 /\ walkAt' = walkAt - 1
        /\ ~Eligible(job.read[walkAt], job.request)
        /\ UNCHANGED <<talk, tuning, stage, job, slice, spent, turns>>
    BY DEF Skips
  <1>2. WalkInv /\ job.read \in Seq(Messages)
    BY <1>1 DEF Inv, StageInv
  <1>3. Len(job.read) \in Nat /\ walkAt \in Nat /\ walkAt \notin Fit
    BY <1>1, <1>2 DEF Fit, WalkInv
  <1>4. {i \in Fit : walkAt - 1 < i} = {i \in Fit : walkAt < i}
    <2>1. \A i \in Fit : i \in Nat
      BY <1>3 DEF Fit
    <2> QED
      BY <1>1, <1>3, <2>1
  <1>5. Fit' = Fit /\ Kept' = Kept
    BY <1>1 DEF Fit, Kept
  <1>6. WalkInv'
    BY <1>1, <1>2, <1>3, <1>4, <1>5 DEF WalkInv
  <1>7. TypesInv' /\ StageInv'
    BY <1>1, <1>2, <1>6 DEF Inv, TypesInv, StageInv, RoomInv
  <1>8. SliceIsTheNewest'
    BY <1>1 DEF SliceIsTheNewest
  <1> QED
    BY <1>7, <1>8 DEF Inv

LEMMA TakesKeeps ==
  ASSUME PromptAssumption, Inv, Takes
  PROVE  Inv'
  <1>1. /\ stage = "walking" /\ walkAt > 0 /\ walkAt' = walkAt - 1
        /\ job.budget.input > 0 /\ Eligible(job.read[walkAt], job.request)
        /\ ~Overflows(Tokens(job.read[walkAt].text))
        /\ spent' = spent + Tokens(job.read[walkAt].text)
        /\ slice' = <<walkAt>> \o slice
        /\ UNCHANGED <<talk, tuning, stage, job, turns>>
    BY DEF Takes
  <1>2. WalkInv /\ RoomInv /\ job.read \in Seq(Messages)
    BY <1>1 DEF Inv, StageInv
  <1>3. /\ Len(job.read) \in Nat /\ walkAt \in Nat /\ walkAt \in 1..Len(job.read)
        /\ slice \in Seq(Nat) /\ Len(slice) \in Nat
    BY <1>1, <1>2 DEF WalkInv
  <1>4. /\ slice' \in Seq(Nat) /\ Len(slice') = Len(slice) + 1 /\ slice'[1] = walkAt
        /\ \A k \in 1..Len(slice) : slice'[k + 1] = slice[k]
        /\ \A k \in 2..Len(slice) + 1 : slice'[k] = slice[k - 1]
    <2>1. /\ slice' \in Seq(Nat) /\ Len(slice') = Len(slice) + 1 /\ slice'[1] = walkAt
          /\ \A k \in 1..Len(slice) : slice'[k + 1] = slice[k]
      BY <1>1, <1>3
    <2>2. ASSUME NEW k \in 2..Len(slice) + 1 PROVE slice'[k] = slice[k - 1]
      <3>1. k - 1 \in 1..Len(slice) /\ (k - 1) + 1 = k
        BY <1>3
      <3> QED
        BY <2>1, <3>1
    <2> QED
      BY <2>1, <2>2
  <1>5. walkAt \in Fit /\ Fit' = Fit
    BY <1>1, <1>3 DEF Fit
  <1>6. \A k \in 1..Len(slice) : walkAt < slice[k]
    <2>1. \A k \in 1..Len(slice) : slice[k] \in Kept
      BY DEF Kept
    <2> QED
      BY <1>2, <2>1 DEF WalkInv
  <1>7. Kept' = Kept \union {walkAt}
    <2>1. ASSUME NEW k \in 1..Len(slice') PROVE slice'[k] \in Kept \union {walkAt}
      <3>1. CASE k = 1
        BY <1>4, <3>1
      <3>2. CASE k # 1
        <4>1. k \in 2..Len(slice) + 1 /\ k - 1 \in 1..Len(slice)
          BY <1>3, <1>4, <3>2
        <4> QED
          BY <1>4, <4>1 DEF Kept
      <3> QED
        BY <3>1, <3>2
    <2>2. ASSUME NEW k \in 1..Len(slice) PROVE slice[k] \in Kept'
      <3>1. k + 1 \in 1..Len(slice')
        BY <1>3, <1>4
      <3> QED
        BY <1>4, <3>1 DEF Kept
    <2>3. walkAt \in Kept'
      <3>1. 1 \in 1..Len(slice')
        BY <1>3, <1>4
      <3> QED
        BY <1>4, <3>1 DEF Kept
    <2> QED
      BY <2>1, <2>2, <2>3 DEF Kept
  <1>8. \A i, j \in 1..Len(slice') : i < j => slice'[i] < slice'[j]
    <2> SUFFICES ASSUME NEW i \in 1..Len(slice'), NEW j \in 1..Len(slice'), i < j
                 PROVE  slice'[i] < slice'[j]
      OBVIOUS
    <2>1. j \in 2..Len(slice) + 1 /\ j - 1 \in 1..Len(slice)
      BY <1>3, <1>4
    <2>4. slice'[j] = slice[j - 1]
      BY <1>4, <2>1
    <2>2. CASE i = 1
      BY <1>4, <1>6, <2>1, <2>2, <2>4
    <2>3. CASE i # 1
      <3>1. i \in 2..Len(slice) + 1 /\ i - 1 \in 1..Len(slice) /\ i - 1 < j - 1
        BY <1>3, <1>4, <2>1, <2>3
      <3>2. slice'[i] = slice[i - 1]
        BY <1>4, <3>1
      <3> QED
        BY <1>2, <2>1, <2>4, <3>1, <3>2 DEF WalkInv
    <2> QED
      BY <2>2, <2>3
  <1>9. {i \in Fit : walkAt - 1 < i} = {i \in Fit : walkAt < i} \union {walkAt}
    <2>1. \A i \in Fit : i \in Nat
      BY <1>3 DEF Fit
    <2>2. \A i \in Fit : walkAt - 1 < i <=> walkAt < i \/ i = walkAt
      BY <1>3, <2>1
    <2> HIDE DEF Fit
    <2> QED
      BY <1>5, <2>2
  <1>10. WalkInv'
    <2>1. walkAt' \in 0..Len(job'.read)
      BY <1>1, <1>3
    <2>2. Kept' = {i \in Fit' : walkAt' < i}
      BY <1>1, <1>2, <1>5, <1>7, <1>9 DEF WalkInv
    <2> QED
      BY <1>4, <1>8, <2>1, <2>2 DEF WalkInv
  <1>11. RoomInv'
    <2>1. job.read[walkAt].text \in Texts
      <3>1. job.read[walkAt] \in Messages
        BY <1>2, <1>3
      <3> QED
        BY <3>1 DEF Messages
    <2>2. Tokens(job.read[walkAt].text) \in Nat
      BY <2>1, TokensTyped
    <2>3. job.budget.input \in Int
      <3>1. job.budget = Budget(job.ctx, job.prompt, job.predict)
        BY <1>2 DEF RoomInv
      <3> QED
        BY <1>2, <3>1 DEF RoomInv, Budget, Positive, Lesser
    <2>4. spent' \in Nat /\ spent' <= job.budget.input
      BY <1>1, <1>2, <2>2, <2>3 DEF Overflows, RoomInv
    <2> QED
      BY <1>1, <1>2, <2>4 DEF RoomInv
  <1>12. TypesInv' /\ StageInv'
    BY <1>1, <1>2, <1>10, <1>11 DEF Inv, TypesInv, StageInv
  <1>13. SliceIsTheNewest'
    BY <1>1 DEF SliceIsTheNewest
  <1> QED
    BY <1>12, <1>13 DEF Inv

LEMMA SendsKeeps ==
  ASSUME Inv, Sends
  PROVE  Inv'
  <1>1. /\ stage = "walking" /\ Stops /\ stage' = "sent"
        /\ UNCHANGED <<talk, tuning, job, walkAt, slice, spent, turns>>
    BY DEF Sends
  <1>2. WalkInv /\ RoomInv /\ job.read \in Seq(Messages)
    BY <1>1 DEF Inv, StageInv
  <1>3. Len(job.read) \in Nat /\ walkAt \in Nat /\ \A i \in Fit : i \in Nat
    BY <1>2 DEF Fit, WalkInv
  <1>4. TypesInv' /\ StageInv'
    BY <1>1, <1>2 DEF Inv, TypesInv, StageInv, RoomInv
  <1>5. SliceIsTheNewest'
    <2> DEFINE rest == Fit \ Kept
    <2>1. rest = {i \in Fit : i <= walkAt}
      BY <1>2, <1>3 DEF WalkInv
    <2>2. Kept \subseteq Fit /\ \A i \in Kept, j \in rest : j < i
      BY <1>2, <1>3, <2>1 DEF WalkInv
    <2>3. ASSUME NEW i \in rest, \A j \in rest : j <= i
          PROVE  Overflows(Tokens(job.read[i].text)) \/ job.budget.input = 0
      <3>1. CASE job.budget.input = 0
        BY <3>1
      <3>2. CASE walkAt = 0
        <4>1. i \in 1..Len(job.read) /\ i <= 0
          BY <2>1, <3>2 DEF Fit
        <4> QED
          BY <1>3, <4>1
      <3>3. CASE /\ walkAt > 0 /\ Eligible(job.read[walkAt], job.request)
                 /\ Overflows(Tokens(job.read[walkAt].text))
        <4>1. walkAt \in rest
          BY <1>2, <1>3, <2>1, <3>3 DEF Fit, WalkInv
        <4>2. i = walkAt
          BY <1>3, <2>1, <2>3, <4>1
        <4> QED
          BY <3>3, <4>2
      <3> QED
        BY <1>1, <3>1, <3>2, <3>3 DEF Stops
    <2>4. UNCHANGED <<job, slice, spent>>
      BY <1>1
    <2>5. \A i, j \in 1..Len(slice) : i < j => slice[i] < slice[j]
      BY <1>2 DEF WalkInv
    <2> QED
      BY <2>2, <2>3, <2>4, <2>5 DEF SliceIsTheNewest, Fit, Kept, Overflows
  <1> QED
    BY <1>4, <1>5 DEF Inv

LEMMA AnswersKeeps ==
  ASSUME Inv, NEW text \in Texts, NEW ok \in BOOLEAN, Answers(text, ok)
  PROVE  Inv'
  <1>1. /\ stage' = "idle" /\ slice' = <<>> /\ UNCHANGED <<tuning, turns>>
        /\ talk' = IF talk = <<>> THEN talk
                   ELSE [talk EXCEPT ![Len(talk)].text = text, ![Len(talk)].ok = ok]
    BY DEF Answers
  <1>2. talk' \in Seq(Messages)
    <2>1. CASE talk = <<>>
      BY <1>1, <2>1 DEF Inv, TypesInv
    <2>2. CASE talk # <<>>
      <3> DEFINE last == [talk[Len(talk)] EXCEPT !.text = text, !.ok = ok]
      <3>1. talk \in Seq(Messages) /\ Len(talk) \in 1..Len(talk)
        BY <2>2 DEF Inv, TypesInv
      <3>2. last \in Messages
        <4>1. talk[Len(talk)] \in Messages
          BY <3>1
        <4>2. \A m \in Messages : [m EXCEPT !.text = text, !.ok = ok] \in Messages
          BY DEF Messages
        <4> QED
          BY <4>1, <4>2
      <3>3. talk' = [talk EXCEPT ![Len(talk)] = last]
        BY <1>1, <2>2, <3>1
      <3> HIDE DEF last
      <3> QED
        BY <3>1, <3>2, <3>3
    <2> QED
      BY <2>1, <2>2
  <1> QED
    BY <1>1, <1>2 DEF Inv, TypesInv, StageInv, SliceIsTheNewest

LEMMA TouchedKeeps ==
  ASSUME Inv, Touched, talk' \in Seq(Messages), tuning' \in Tunings
  PROVE  Inv'
  <1>1. UNCHANGED <<stage, job, walkAt, slice, spent, turns>>
    BY DEF Touched
  <1>2. TypesInv'
    BY <1>1 DEF Inv, TypesInv
  <1>3. StageInv' /\ SliceIsTheNewest'
    BY <1>1 DEF Inv, StageInv, WalkInv, RoomInv, Ready, Fit, Kept, SliceIsTheNewest, Overflows
  <1> QED
    BY <1>2, <1>3 DEF Inv

LEMMA Step ==
  ASSUME PromptAssumption, Inv, [Next]_promptVars
  PROVE  Inv'
  <1>1. ASSUME NEW t \in Texts, Send(t) PROVE Inv'
    BY <1>1, StartsKeeps DEF Send
  <1>2. ASSUME NEW i \in 1..Len(talk), NEW t \in Texts, Edit(i, t) PROVE Inv'
    BY <1>2, StartsKeeps DEF Edit
  <1>3. ASSUME NEW i \in 1..Len(talk), Deletes(i) PROVE Inv'
    <2>1. talk \in Seq(Messages) /\ tuning \in Tunings
      BY DEF Inv, TypesInv
    <2>2. talk' = SubSeq(talk, 1, i - 1) \o SubSeq(talk, i + 1, Len(talk)) /\ tuning' = tuning
      BY <1>3 DEF Deletes
    <2>3. /\ SubSeq(talk, 1, i - 1) \in Seq(Messages)
          /\ SubSeq(talk, i + 1, Len(talk)) \in Seq(Messages)
      BY <2>1
    <2>4. talk' \in Seq(Messages)
      BY <2>2, <2>3
    <2> QED
      BY <1>3, <2>1, <2>2, <2>4, TouchedKeeps DEF Deletes
  <1>4. ASSUME NEW tune \in Tunings, Tunes(tune) PROVE Inv'
    BY <1>4, TouchedKeeps DEF Tunes, Inv, TypesInv
  <1>5. CASE UNCHANGED promptVars
    BY <1>5 DEF promptVars, Inv, TypesInv, StageInv, WalkInv, RoomInv, Ready, Fit, Kept,
                SliceIsTheNewest, Overflows
  <1> QED
    BY <1>1, <1>2, <1>3, <1>4, <1>5, AssemblesKeeps, SkipsKeeps, TakesKeeps, SendsKeeps,
       AnswersKeeps DEF Next

LEMMA InvFits ==
  ASSUME PromptAssumption, Inv
  PROVE  PromptFits
  <1>1. AnswerKeepsItsRoom
    <2> SUFFICES ASSUME slice # <<>>
                 PROVE  job.predict >= 0 /\ job.prompt + spent + job.predict <= job.ctx
      BY DEF AnswerKeepsItsRoom
    <2>1. RoomInv
      BY DEF Inv, TypesInv, StageInv
    <2>2. /\ job.budget.input = Budget(job.ctx, job.prompt, job.predict).input
          /\ job.budget.input > 0 /\ spent <= job.budget.input
      BY <2>1 DEF RoomInv
    <2> QED
      BY <2>1, <2>2 DEF RoomInv, Budget, Positive, Lesser
  <1> QED
    BY <1>1 DEF Inv, PromptFits

(* Whatever is edited, deleted or tuned while a prompt is put together, the   *)
(* one that is sent fits: the reserve of the answer stays free, and no        *)
(* message is left out between two that are kept (useChatRequest.ts and       *)
(* token-budget.ts).                                                          *)
THEOREM PromptAlwaysFits ==
  ASSUME PromptAssumption
  PROVE  Spec => []PromptFits
  <1>1. Init => Inv
    <2> SUFFICES ASSUME Init
                 PROVE  Inv
      OBVIOUS
    <2>1. talk = <<>> /\ stage = "idle" /\ slice = <<>> /\ turns = 0 /\ tuning \in Tunings
      BY DEF Init
    <2>2. <<>> \in Seq(Messages)
      OBVIOUS
    <2>3. TypesInv
      BY <2>1, <2>2 DEF TypesInv
    <2> QED
      BY <2>1, <2>3 DEF Inv, StageInv, SliceIsTheNewest
  <1> QED
    BY <1>1, Step, InvFits, PTL DEF Spec

===============================================================================
