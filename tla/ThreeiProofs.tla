---------------------------- MODULE ThreeiProofs ----------------------------
(***************************************************************************)
(* Proof that a verdict of a subtree policy is still good when it is acted *)
(* on, for any number of cages, threads and ids, although it is given      *)
(* under locks that are released by then.                                  *)
(*                                                                         *)
(* The argument: the calls do nothing to the lineage but walk, so what is  *)
(* proved of the lineage holds here.  An id that was found inside is that  *)
(* of a cage below the caller, or soon will be, and a cage keeps its set   *)
(* until it begins to exit, which the call's history notes.                *)
(***************************************************************************)
EXTENDS Threei, LineageProofs

\* A call asks about its own ids.
CallTyped ==
  /\ CallTypeOK
  /\ \A t \in Thread : InCall(t) =>
       \A i \in 1 .. Len(call[t].todo) : call[t].todo[i] \subseteq Ids(call[t].r)

\* A walk is the first question of its thread's call.
WalksCall ==
  \A t \in Thread : op[t].name = "walk" =>
    /\ At(t, "judge") /\ how \in {"walk", "filter_walk"}
    /\ op[t].root = call[t].r.self /\ op[t].ids = Head(call[t].todo)

\* c is the cage the call's policy was asked about, inside the caller's subtree,
\* or it has exited.
Found(t, c) == c \in gone[t] \/ (c \in Coming /\ call[t].r.self \in Line[c])
Kept(t, c)  == c \in gone[t] \/ (Alive(c) /\ call[t].r.self \in ancestors[c])

\* c is in a question that is still to be answered.
Awaits(t, c) == \E i \in 1 .. Len(call[t].todo) : c \in call[t].todo[i]

\* What a call in progress knows.
Knows(t) ==
  /\ Alive(call[t].r.self) \/ call[t].r.self \in gone[t]
  /\ \A c \in Cage : life[c] = "exiting" => c \in gone[t]
  /\ ~At(t, "refused") => \A c \in Ids(call[t].r) : Awaits(t, c) \/ Found(t, c)
  /\ call[t].within => \A c \in Ids(call[t].r) : Kept(t, c)
  /\ At(t, "refused") /\ call[t].within => Ids(call[t].r) \cap gone[t] # {}

CallInv == \A t \in Thread : InCall(t) => Knows(t)

ThreeiInv == CallTyped /\ WalksCall /\ CallInv

-----------------------------------------------------------------------------
(* The calls                                                               *)

\* The ids of a request are cages.
LEMMA IdsCages ==
  ASSUME NEW r \in Requests
  PROVE  /\ r.self \in Cage /\ Ids(r) \in SUBSET Cage
         /\ Questioned(r) \in Seq(SUBSET Cage) /\ Len(Questioned(r)) > 0
         /\ \A i \in 1 .. Len(Questioned(r)) : Questioned(r)[i] \subseteq Ids(r)
         /\ \A c \in Ids(r) : \E i \in 1 .. Len(Questioned(r)) : c \in Questioned(r)[i]
<1>1. r.self \in Cage /\ r.target \in Cage /\ \A i \in 1 .. Ncheck : r.args[i] \in Cage
  BY ThreeiOK
<1>2. Ids(r) \in SUBSET Cage
  BY <1>1 DEF Ids
<1>3. CASE how \in Batched
  BY <1>1, <1>2, <1>3 DEF Questioned
<1>4. CASE how \notin Batched
  <2> DEFINE q == OneByOne(r)
  <2>1. Ncheck \in Nat
    BY ThreeiOK
  <2>2. /\ q = [i \in 1 .. Ncheck + 1 |-> {IF i = 1 THEN r.target ELSE r.args[i - 1]}]
        /\ \A i \in 1 .. Ncheck + 1 : i # 1 => i - 1 \in 1 .. Ncheck
    BY <2>1 DEF OneByOne
  <2>3. q \in [1 .. Ncheck + 1 -> SUBSET Cage]
    BY <1>1, <2>1, <2>2
  <2>4. q \in Seq(SUBSET Cage) /\ Len(q) = Ncheck + 1
    BY <2>1, <2>3
  <2>5. \A i \in 1 .. Ncheck + 1 : q[i] \subseteq Ids(r)
    BY <2>1, <2>2 DEF Ids
  <2>6. ASSUME NEW c \in Ids(r) PROVE \E i \in 1 .. Ncheck + 1 : c \in q[i]
    <3>1. CASE c = r.target
      BY <2>1, <2>2, <3>1
    <3>2. ASSUME NEW i \in 1 .. Ncheck, c = r.args[i] PROVE c \in q[i + 1] /\ i + 1 \in 1 .. Ncheck + 1
      BY <2>1, <2>2, <3>2
    <3> QED BY <3>1, <3>2 DEF Ids
  <2>7. Questioned(r) = q
    BY <1>4 DEF Questioned
  <2> HIDE DEF q
  <2> QED BY <1>1, <1>2, <2>1, <2>4, <2>5, <2>6, <2>7
<1> QED BY <1>3, <1>4

\* What a verdict makes of a call.
LEMMA RuledCall ==
  ASSUME NEW c \in Calls, c.pc = "judge", c.todo # <<>>, NEW ok \in BOOLEAN
  PROVE  /\ Ruled(c, ok) \in Calls
         /\ Ruled(c, ok).r = c.r /\ Ruled(c, ok).within = c.within
         /\ Ruled(c, ok).pc = "judge" <=> Ruled(c, ok).todo # <<>>
         /\ Ruled(c, ok).pc = "refused" <=> ~ok
         /\ \A i \in 1 .. Len(Ruled(c, ok).todo) :
              i + 1 \in 1 .. Len(c.todo) /\ Ruled(c, ok).todo[i] = c.todo[i + 1]
         /\ ok => \A i \in 1 .. Len(c.todo) : i # 1 =>
              i - 1 \in 1 .. Len(Ruled(c, ok).todo) /\ Ruled(c, ok).todo[i - 1] = c.todo[i]
         /\ Head(c.todo) = c.todo[1] /\ 1 \in 1 .. Len(c.todo) /\ Head(c.todo) \in SUBSET Cage
<1>1. c.todo \in Seq(SUBSET Cage) /\ Len(c.todo) \in Nat /\ Len(c.todo) > 0
  BY DEF Calls
<1>2. \A n \in Nat : (n > 0 => n = 1 \/ n > 1) /\ (n > 1 => n - 1 # 0)
  OBVIOUS
<1>3. c = [pc |-> "judge", r |-> c.r, todo |-> c.todo, within |-> c.within]
  BY DEF Calls
<1>4. Head(c.todo) = c.todo[1] /\ 1 \in 1 .. Len(c.todo) /\ Head(c.todo) \in SUBSET Cage
  BY <1>1
<1>5. CASE ok /\ Len(c.todo) > 1
  <2> DEFINE d == [pc |-> "judge", r |-> c.r, todo |-> Tail(c.todo), within |-> c.within]
  <2>1. Ruled(c, ok) = d
    BY <1>5, <1>3 DEF Ruled
  <2>2. /\ Tail(c.todo) \in Seq(SUBSET Cage) /\ Len(Tail(c.todo)) = Len(c.todo) - 1
        /\ \A i \in 1 .. Len(c.todo) - 1 : Tail(c.todo)[i] = c.todo[i + 1]
    BY <1>1, <1>5
  <2>3. d \in Calls
    BY <2>2 DEF Calls
  <2>4. d.pc = "judge" /\ d.r = c.r /\ d.within = c.within /\ d.todo = Tail(c.todo)
    OBVIOUS
  <2> HIDE DEF d
  <2>5. \A i \in 1 .. Len(d.todo) : i + 1 \in 1 .. Len(c.todo) /\ d.todo[i] = c.todo[i + 1]
    BY <1>1, <2>2, <2>4
  <2>6. \A i \in 1 .. Len(c.todo) : i # 1 =>
          i - 1 \in 1 .. Len(d.todo) /\ d.todo[i - 1] = c.todo[i]
    BY <1>1, <2>2, <2>4
  <2>7. Len(Tail(c.todo)) # 0
    BY <1>1, <1>2, <1>5, <2>2, Zenon
  <2>8. d.todo # <<>>
    <3>1. Len(<<>>) = 0
      OBVIOUS
    <3> QED BY <2>4, <2>7, <3>1, Zenon
  <2> QED BY <1>4, <1>5, <2>1, <2>3, <2>4, <2>5, <2>6, <2>8
<1>6. CASE ~(ok /\ Len(c.todo) > 1)
  <2> DEFINE pc == IF ok THEN "leaf" ELSE "refused"
  <2> DEFINE d == [pc |-> pc, r |-> c.r, todo |-> <<>>, within |-> c.within]
  <2>1. Ruled(c, ok) = d
    BY <1>6, <1>3 DEF Ruled
  <2>2. d \in Calls
    BY DEF Calls
  <2>3. d.pc = pc /\ d.r = c.r /\ d.within = c.within /\ d.todo = <<>> /\ Len(d.todo) = 0
    OBVIOUS
  <2>4. Len(c.todo) > 1 \/ Len(c.todo) = 1
    BY <1>1, <1>2, Zenon
  <2>5. ok => \A i \in 1 .. Len(c.todo) : i = 1
    BY <1>6, <2>4
  <2>6. d.pc # "judge" /\ (d.pc = "refused" <=> ~ok)
    BY <2>3
  <2> HIDE DEF d
  <2>7. \A i \in 1 .. Len(d.todo) : FALSE
    BY <2>3
  <2> QED BY <1>4, <2>1, <2>2, <2>3, <2>5, <2>6, <2>7
<1> QED BY <1>5, <1>6

\* A call that is being judged.
LEMMA Judging ==
  ASSUME CallTyped, NEW t \in Thread, At(t, "judge")
  PROVE  /\ InCall(t) /\ call[t] \in Calls /\ call[t].pc = "judge" /\ call[t].todo # <<>>
         /\ call[t].r \in Requests /\ SubtreeOf(call[t].r) = call[t].r.self
         /\ Head(call[t].todo) \subseteq Ids(call[t].r)
         /\ <<call[t].r.self, Head(call[t].todo)>> \in Questions
<1>1. InCall(t) /\ call[t] \in Calls
  BY DEF At, InCall, NoCall, CallTyped, CallTypeOK
<1>2. call[t].todo # <<>> /\ call[t].pc = "judge"
  BY <1>1 DEF At, CallTyped, CallTypeOK
<1>3. Head(call[t].todo) = call[t].todo[1] /\ 1 \in 1 .. Len(call[t].todo)
  BY <1>1, <1>2, RuledCall
<1>4. Head(call[t].todo) \subseteq Ids(call[t].r) /\ call[t].r \in Requests
  BY <1>1, <1>3 DEF CallTyped, Calls
<1> QED BY <1>1, <1>2, <1>4, ThreeiOK DEF SubtreeOf

\* Every step of the composition is a step of the lineage, or none.
LEMMA StepNext == CallTyped /\ [ThreeiNext]_tvars => [Next]_vars
<1> SUFFICES ASSUME CallTyped, [ThreeiNext]_tvars PROVE [Next]_vars
  OBVIOUS
<1>1. CASE UNCHANGED tvars
  BY <1>1 DEF tvars
<1>2. ASSUME NEW t \in Thread, NEW r \in Requests, Make(t, r) PROVE UNCHANGED vars
  BY <1>2 DEF Make, lineage, vars
<1>3. ASSUME NEW t \in Thread, NEW p \in Cage, NEW c \in Cage, Fork(t, p, c) PROVE Next
  BY <1>3 DEF Fork, Next, Begin
<1>4. ASSUME NEW t \in Thread, NEW c \in Cage, Exit(t, c) PROVE Next
  BY <1>4 DEF Exit, Next, Begin
<1>5. ASSUME NEW t \in Thread, AskWalk(t) PROVE Next
  <2>1. CASE WalkHop(t)
    BY <2>1 DEF Next, Proceed
  <2>2. CASE WalkStart(t, SubtreeOf(call[t].r), Head(call[t].todo))
    <3>1. PICK q \in Questions : q = <<call[t].r.self, Head(call[t].todo)>>
      BY <1>5, Judging DEF AskWalk
    <3>2. q[1] = SubtreeOf(call[t].r) /\ q[2] = Head(call[t].todo)
      BY <3>1 DEF SubtreeOf
    <3>3. WalkStart(t, q[1], q[2])
      BY <2>2, <3>2, Zenon
    <3> QED BY <3>3 DEF Next, Begin
  <2> QED BY <1>5, <2>1, <2>2 DEF AskWalk
<1>6. ASSUME NEW t \in Thread, AskBits(t) \/ Finish(t) PROVE UNCHANGED vars
  BY <1>6 DEF AskBits, Finish, lineage, vars
<1>7. ASSUME NEW t \in Thread, GoOn(t) PROVE Next
  BY <1>7 DEF GoOn, Next, Proceed
<1> QED BY <1>1, <1>2, <1>3, <1>4, <1>5, <1>6, <1>7 DEF ThreeiNext, Step

\* How a question changes the calls.
LEMMA AskedCall ==
  ASSUME CallTyped, NEW t \in Thread, At(t, "judge"), NEW ok \in BOOLEAN,
         call' = [call EXCEPT ![t] = Ruled(call[t], ok)], UNCHANGED <<how, gone>>
  PROVE  CallTyped'
<1>1. call[t] \in Calls /\ call[t].pc = "judge" /\ call[t].todo # <<>> /\ InCall(t)
  BY Judging
<1>2. PICK d \in Calls : d = Ruled(call[t], ok)
  BY <1>1, RuledCall
<1>3. /\ d.r = call[t].r /\ (d.pc = "judge" <=> d.todo # <<>>)
      /\ \A i \in 1 .. Len(d.todo) :
           i + 1 \in 1 .. Len(call[t].todo) /\ d.todo[i] = call[t].todo[i + 1]
  BY <1>1, <1>2, RuledCall
<1>4. call' = [call EXCEPT ![t] = d] /\ call'[t] = d /\ \A u \in Thread : u # t => call'[u] = call[u]
  BY <1>2 DEF CallTyped, CallTypeOK
<1>5. CallTypeOK'
  <2>1. call' \in [Thread -> {NoCall} \cup Calls] /\ how' \in Hows /\ gone' \in [Thread -> SUBSET Cage]
    BY <1>4 DEF CallTyped, CallTypeOK
  <2>2. \A u \in Thread : call'[u] # NoCall => (call'[u].pc = "judge" <=> call'[u].todo # <<>>)
    BY <1>3, <1>4 DEF CallTyped, CallTypeOK, InCall, At
  <2> QED BY <2>1, <2>2 DEF CallTypeOK, InCall, At
<1>6. \A i \in 1 .. Len(d.todo) : d.todo[i] \subseteq Ids(d.r)
  BY <1>1, <1>3 DEF CallTyped
<1> QED BY <1>4, <1>5, <1>6 DEF CallTyped, InCall

\* The types of the calls are inductive, given those of the lineage.
LEMMA NextCallTyped == TypeOK /\ CallTyped /\ [ThreeiNext]_tvars => CallTyped'
<1> SUFFICES ASSUME TypeOK, CallTyped, [ThreeiNext]_tvars PROVE CallTyped'
  OBVIOUS
<1>1. ASSUME UNCHANGED <<how, call>>, gone' \in [Thread -> SUBSET Cage] PROVE CallTyped'
  BY <1>1 DEF CallTyped, CallTypeOK, InCall, At
<1>2. CASE UNCHANGED tvars
  BY <1>1, <1>2 DEF tvars, CallTyped, CallTypeOK
<1>3. ASSUME NEW t \in Thread, NEW r \in Requests, Make(t, r) PROVE CallTyped'
  <2> DEFINE q == Questioned(r)
  <2> DEFINE d == [pc |-> "judge", r |-> r, todo |-> q, within |-> Within(r)]
  <2>1. /\ q \in Seq(SUBSET Cage) /\ q # <<>>
        /\ \A i \in 1 .. Len(q) : q[i] \subseteq Ids(r)
    BY IdsCages
  <2>2. Within(r) \in BOOLEAN
    BY DEF Within
  <2>3. d \in Calls /\ d.pc = "judge" /\ d.todo = q /\ d.r = r
    BY <2>1, <2>2 DEF Calls
  <2>4. call' = [call EXCEPT ![t] = d] /\ how' = how /\ gone' \in [Thread -> SUBSET Cage]
    BY <1>3 DEF Make, CallTyped, CallTypeOK
  <2> HIDE DEF d, q
  <2>5. call'[t] = d /\ \A u \in Thread : u # t => call'[u] = call[u]
    BY <2>4 DEF CallTyped, CallTypeOK
  <2>6. CallTypeOK'
    BY <2>1, <2>3, <2>4, <2>5 DEF CallTyped, CallTypeOK, InCall, At
  <2> QED BY <2>1, <2>3, <2>5, <2>6 DEF CallTyped, InCall
<1>4. ASSUME NEW t \in Thread, NEW p \in Cage, NEW c \in Cage, Fork(t, p, c) PROVE CallTyped'
  BY <1>1, <1>4 DEF Fork, CallTyped, CallTypeOK
<1>5. ASSUME NEW t \in Thread, NEW c \in Cage, Exit(t, c) PROVE CallTyped'
  BY <1>1, <1>5 DEF Exit, CallTyped, CallTypeOK
<1>6. ASSUME NEW t \in Thread, AskWalk(t) PROVE CallTyped'
  <2>1. verdict'[t] \in BOOLEAN
    BY StepNext, NextType DEF TypeOK
  <2>2. PICK ok \in BOOLEAN : ok = verdict'[t]
    BY <2>1
  <2>3. CASE op'[t].name = "walk"
    <3>1. call' = call /\ UNCHANGED <<how, gone>>
      BY <1>6, <2>3 DEF AskWalk, Heed, CallTyped, CallTypeOK
    <3> QED BY <1>1, <3>1 DEF CallTyped, CallTypeOK
  <2>4. CASE op'[t].name # "walk"
    <3>1. call' = [call EXCEPT ![t] = Ruled(call[t], ok)] /\ UNCHANGED <<how, gone>>
      BY <1>6, <2>2, <2>4 DEF AskWalk, Heed
    <3> QED BY <1>6, <3>1, AskedCall DEF AskWalk
  <2> QED BY <2>3, <2>4
<1>7. ASSUME NEW t \in Thread, AskBits(t) PROVE CallTyped'
  <2>1. PICK ok \in BOOLEAN : ok = InSubtreeBits(SubtreeOf(call[t].r), Head(call[t].todo))
    BY DEF InSubtreeBits
  <2>2. call' = [call EXCEPT ![t] = Ruled(call[t], ok)] /\ UNCHANGED <<how, gone>>
    BY <1>7, <2>1 DEF AskBits
  <2> QED BY <1>7, <2>2, AskedCall DEF AskBits
<1>8. ASSUME NEW t \in Thread, Finish(t) PROVE CallTyped'
  <2>1. /\ call'[t] = NoCall /\ \A u \in Thread : u # t => call'[u] = call[u]
        /\ call' \in [Thread -> {NoCall} \cup Calls]
        /\ how' = how /\ gone' \in [Thread -> SUBSET Cage]
    BY <1>8 DEF Finish, CallTyped, CallTypeOK
  <2> QED BY <2>1 DEF CallTyped, CallTypeOK, InCall, At
<1>9. ASSUME NEW t \in Thread, GoOn(t) PROVE CallTyped'
  BY <1>1, <1>9 DEF GoOn, CallTyped, CallTypeOK
<1> QED BY <1>2, <1>3, <1>4, <1>5, <1>6, <1>7, <1>8, <1>9 DEF ThreeiNext, Step

-----------------------------------------------------------------------------
(* What a call knows                                                       *)

\* An answer of either kind of check, about ids that may have exited.
LEMMA Verdict ==
  ASSUME Inv, CallTyped, CallInv, NEW t \in Thread, At(t, "judge"), NEW ok \in BOOLEAN,
         UNCHANGED <<parent, ancestors, life, how, gone>>,
         call' = [call EXCEPT ![t] = Ruled(call[t], ok)],
         LET self == call[t].r.self
             ids  == Head(call[t].todo)
         IN  \/ ok <=> \A c \in ids : Inside(self, c)
             \/ ok <=> \A c \in ids : self \in ancestors[c]
  PROVE  CallInv'
<1>1. /\ InCall(t) /\ call[t] \in Calls /\ call[t].pc = "judge" /\ call[t].todo # <<>>
      /\ call[t].r \in Requests /\ Head(call[t].todo) \subseteq Ids(call[t].r)
  BY Judging
<1>2. PICK r \in Requests, ids \in SUBSET Cage :
        r = call[t].r /\ ids = Head(call[t].todo) /\ ids \subseteq Ids(r)
  BY <1>1, IdsCages
<1>3. Knows(t)
  BY <1>1 DEF CallInv
<1>4. PICK d \in Calls : d = Ruled(call[t], ok)
  BY <1>1, RuledCall
<1>5. /\ d.r = r /\ d.within = call[t].within /\ (d.pc = "refused" <=> ~ok)
      /\ ok => \A i \in 1 .. Len(call[t].todo) : i # 1 =>
                 i - 1 \in 1 .. Len(d.todo) /\ d.todo[i - 1] = call[t].todo[i]
      /\ ids = call[t].todo[1]
  BY <1>1, <1>2, <1>4, RuledCall
<1>6. call'[t] = d /\ \A u \in Thread : u # t => call'[u] = call[u]
  BY <1>4 DEF CallTyped, CallTypeOK
<1>7. Coming' = Coming /\ Line' = Line
  BY DEF Coming, Line, Alive
<1>8. r.self \in Cage /\ Ids(r) \in SUBSET Cage
  BY IdsCages
<1>9. ASSUME ok, NEW c \in ids PROVE Found(t, c)
  <2>1. CASE Inside(r.self, c)
    <3>1. CASE c = r.self
      BY <1>2, <1>3, <1>8, <3>1 DEF Knows, Found, Inv, Tree, Linked, Coming, Line, Alive
    <3>2. CASE c # r.self
      BY <1>2, <2>1, <3>2 DEF Inside, Found
    <3> QED BY <3>1, <3>2
  <2>2. CASE r.self \in ancestors[c]
    <3>1. life[c] \in {"alive", "exiting"}
      BY <1>2, <1>9, <2>2 DEF Inv, Bare, TypeOK, Life
    <3>2. CASE life[c] = "exiting"
      BY <1>3, <1>9, <3>2 DEF Knows, Found
    <3>3. CASE life[c] = "alive"
      BY <1>2, <1>9, <2>2, <3>3 DEF Found, Coming, Line, Alive
    <3> QED BY <3>1, <3>2, <3>3
  <2> QED BY <1>2, <1>9, <2>1, <2>2
<1>10. ASSUME ~ok, call[t].within PROVE Ids(r) \cap gone[t] # {}
  <2>1. PICK c \in ids : ~Inside(r.self, c) \/ r.self \notin ancestors[c]
    BY <1>2, <1>10
  <2>2. Kept(t, c)
    BY <1>2, <1>3, <1>10 DEF Knows
  <2>3. c \in gone[t]
    BY <1>2, <2>1, <2>2 DEF Kept, Inside, Coming, Line, Alive
  <2> QED BY <1>2, <2>3
<1>11. ASSUME ok, NEW c \in Ids(r)
       PROVE  Found(t, c) \/ \E i \in 1 .. Len(d.todo) : c \in d.todo[i]
  <2>1. Awaits(t, c) \/ Found(t, c)
    BY <1>1, <1>2, <1>3, <1>11 DEF Knows, At
  <2>2. ASSUME NEW i \in 1 .. Len(call[t].todo), c \in call[t].todo[i]
        PROVE  Found(t, c) \/ \E j \in 1 .. Len(d.todo) : c \in d.todo[j]
    <3>1. CASE i = 1
      BY <1>5, <1>9, <1>11, <2>2, <3>1
    <3>2. CASE i # 1
      BY <1>5, <1>11, <2>2, <3>2
    <3> QED BY <3>1, <3>2
  <2> QED BY <2>1, <2>2 DEF Awaits
<1>12. Knows(t)'
  <2>1. \A c : (Found(t, c)' <=> Found(t, c)) /\ (Kept(t, c)' <=> Kept(t, c))
    BY <1>2, <1>5, <1>6, <1>7 DEF Found, Kept, Alive
  <2>2. /\ (Alive(r.self) \/ r.self \in gone[t])'
        /\ \A c \in Cage : life'[c] = "exiting" => c \in gone'[t]
        /\ call[t].within => \A c \in Ids(r) : Kept(t, c)
    BY <1>2, <1>3 DEF Knows, Alive
  <2>3. ASSUME d.pc # "refused", NEW c \in Ids(r) PROVE Awaits(t, c)' \/ Found(t, c)'
    BY <1>5, <1>6, <1>11, <2>1, <2>3 DEF Awaits
  <2>4. d.pc = "refused" /\ d.within => Ids(r) \cap gone'[t] # {}
    BY <1>5, <1>10
  <2> QED BY <1>5, <1>6, <2>1, <2>2, <2>3, <2>4 DEF Knows, At
<1>13. ASSUME NEW u \in Thread, u # t, InCall(u)' PROVE Knows(u)'
  BY <1>6, <1>7, <1>13 DEF CallInv, Knows, Found, Kept, Awaits, At, InCall, Alive
<1> QED BY <1>12, <1>13 DEF CallInv

\* Forks and exits beside a call leave it what it knows.
LEMMA Beside ==
  ASSUME Inv, CallTyped, CallInv, [Next]_vars, call' = call,
         \A u \in Thread : InCall(u) => gone[u] \subseteq gone'[u],
         \A u \in Thread : InCall(u) =>
           \A c \in Cage : life'[c] = "exiting" => c \in gone'[u]
  PROVE  CallInv'
<1> SUFFICES ASSUME NEW u \in Thread, InCall(u) PROVE Knows(u)'
  BY DEF CallInv, InCall
<1>1. call[u] \in Calls /\ Knows(u)
  BY DEF CallInv, CallTyped, CallTypeOK, InCall
<1>2. PICK r \in Requests : r = call[u].r /\ r = call'[u].r
  BY <1>1 DEF Calls
<1>3. r.self \in Cage /\ Ids(r) \in SUBSET Cage
  BY IdsCages
<1>4. \A c \in Cage : life'[c] # "exiting" =>
        /\ c \in Coming => c \in Coming' /\ Line'[c] = Line[c]
        /\ Alive(c) => Alive(c)' /\ ancestors'[c] = ancestors[c]
  BY Lasting DEF Inv
<1>5. ASSUME NEW c \in Cage PROVE (Found(u, c) => Found(u, c)') /\ (Kept(u, c) => Kept(u, c)')
  BY <1>2, <1>4 DEF Found, Kept
<1>6. (Alive(r.self) \/ r.self \in gone[u])'
  BY <1>1, <1>2, <1>3, <1>4 DEF Knows
<1>7. \A c : Awaits(u, c)' <=> Awaits(u, c)
  BY DEF Awaits
<1> QED BY <1>1, <1>2, <1>3, <1>5, <1>6, <1>7 DEF Knows, At

-----------------------------------------------------------------------------
(* The steps                                                               *)

\* The walk of a call asks its first question, and is exact.
LEMMA AskedWalk ==
  ASSUME Inv, CallTyped, WalksCall, NEW t \in Thread, AskWalk(t)
  PROVE  /\ UNCHANGED <<parent, ancestors, life, how, gone>>
         /\ \A u \in Thread : u # t => op'[u] = op[u]
         /\ op'[t].name = "walk" =>
              call' = call /\ op'[t].root = call[t].r.self /\ op'[t].ids = Head(call[t].todo)
         /\ op'[t].name # "walk" =>
              \E ok \in BOOLEAN :
                /\ call' = [call EXCEPT ![t] = Ruled(call[t], ok)]
                /\ ok <=> \A c \in Head(call[t].todo) : Inside(call[t].r.self, c)
<1>1. /\ At(t, "judge") /\ (call' = call \/ op'[t].name # "walk")
      /\ op'[t].name # "walk" => call' = [call EXCEPT ![t] = Ruled(call[t], verdict'[t])]
      /\ UNCHANGED <<how, gone>>
  BY DEF AskWalk, Heed, CallTyped, CallTypeOK
<1>2. /\ TypeOK /\ op \in [Thread -> Ops] /\ verdict \in [Thread -> BOOLEAN]
  BY DEF Inv, TypeOK
<1>3. CASE WalkHop(t)
  <2>1. op[t].name = "walk" /\ op[t].root = call[t].r.self /\ op[t].ids = Head(call[t].todo)
    BY <1>3 DEF WalkHop, WalksCall
  <2>2. UNCHANGED <<parent, ancestors, life>> /\ \A u \in Thread : u # t => op'[u] = op[u]
    BY <1>2, <1>3 DEF WalkHop, Advance, Answered
  <2>3. op'[t].name = "walk" => op'[t].root = op[t].root /\ op'[t].ids = op[t].ids
    BY <1>2, <1>3 DEF WalkHop, Advance, Answered, Walking, Idle
  <2>4. op'[t].name # "walk" =>
          /\ verdict'[t] \in BOOLEAN
          /\ verdict'[t] <=> \A c \in Head(call[t].todo) : Inside(call[t].r.self, c)
    BY <1>3, <2>1, Exact
  <2> QED BY <1>1, <2>1, <2>2, <2>3, <2>4
<1>4. CASE WalkStart(t, SubtreeOf(call[t].r), Head(call[t].todo))
  <2>1. call[t].r \in Requests /\ Head(call[t].todo) \subseteq Ids(call[t].r)
    BY <1>1, Judging DEF AskWalk
  <2>2. PICK root \in Cage, ids \in SUBSET Cage : root = call[t].r.self /\ ids = Head(call[t].todo)
    BY <2>1, IdsCages
  <2>3. PICK sure \in BOOLEAN : sure = \A c \in ids : Alive(c)
    OBVIOUS
  <2>4. Advance(t, root, ids, ids \ {root}, sure) /\ UNCHANGED <<parent, ancestors, life>>
    BY <1>4, <2>2, <2>3 DEF WalkStart, SubtreeOf
  <2>5. CASE ids \ {root} = {} /\ Answered(t, TRUE)
    <3>1. /\ op'[t].name # "walk" /\ verdict'[t] = TRUE
          /\ \A u \in Thread : u # t => op'[u] = op[u]
      BY <1>2, <2>5 DEF Answered, Idle
    <3>2. \A c \in ids : Inside(root, c)
      BY <2>5 DEF Inside
    <3> QED BY <1>1, <2>2, <2>4, <3>1, <3>2
  <2>6. ASSUME NEW c \in ids, NEW todo \in SUBSET Cage,
               op' = [op EXCEPT ![t] = Walking(root, ids, todo, c, c, sure)]
        PROVE  /\ op'[t].name = "walk" /\ op'[t].root = root /\ op'[t].ids = ids
               /\ \A u \in Thread : u # t => op'[u] = op[u]
    BY <1>2, <2>6 DEF Walking
  <2>7. \/ ids \ {root} = {} /\ Answered(t, TRUE)
        \/ \E c \in ids, todo \in SUBSET Cage :
             op' = [op EXCEPT ![t] = Walking(root, ids, todo, c, c, sure)]
    <3>1. \A c : (ids \ {root}) \ {c} \in SUBSET Cage
      OBVIOUS
    <3> QED BY <2>4, <3>1 DEF Advance
  <2>8. CASE \E c \in ids, todo \in SUBSET Cage :
               op' = [op EXCEPT ![t] = Walking(root, ids, todo, c, c, sure)]
    <3>1. /\ op'[t].name = "walk" /\ op'[t].root = root /\ op'[t].ids = ids
          /\ \A u \in Thread : u # t => op'[u] = op[u]
      BY <2>6, <2>8
    <3> QED BY <1>1, <2>2, <2>4, <3>1
  <2> QED BY <2>5, <2>7, <2>8
<1> QED BY <1>3, <1>4 DEF AskWalk

\* A walk stays with its call.
LEMMA NextWalksCall == Inv /\ CallTyped /\ WalksCall /\ [ThreeiNext]_tvars => WalksCall'
<1> SUFFICES ASSUME Inv, CallTyped, WalksCall, [ThreeiNext]_tvars PROVE WalksCall'
  OBVIOUS
<1>1. op \in [Thread -> Ops] /\ call \in [Thread -> {NoCall} \cup Calls]
  BY DEF Inv, TypeOK, CallTyped, CallTypeOK
<1>2. ASSUME NEW t \in Thread, how' = how, op'[t].name # "walk",
             \A u \in Thread : u # t => op'[u] = op[u] /\ call'[u] = call[u]
      PROVE  WalksCall'
  BY <1>2 DEF WalksCall, At
<1>3. CASE UNCHANGED tvars
  BY <1>3 DEF tvars, vars, WalksCall, At
<1>4. ASSUME NEW t \in Thread, NEW r \in Requests, Make(t, r) PROVE WalksCall'
  BY <1>1, <1>2, <1>4 DEF Make, lineage, Idle
<1>5. ASSUME NEW t \in Thread, NEW p \in Cage, NEW c \in Cage, Fork(t, p, c) PROVE WalksCall'
  BY <1>1, <1>2, <1>5 DEF Fork, ForkLink, Forking
<1>6. ASSUME NEW t \in Thread, NEW c \in Cage, Exit(t, c) PROVE WalksCall'
  BY <1>1, <1>2, <1>6 DEF Exit, ExitUnlink, Exiting
<1>7. ASSUME NEW t \in Thread, AskWalk(t) PROVE WalksCall'
  <2>1. \A u \in Thread : u # t => call'[u] = call[u]
    BY <1>1, <1>7 DEF AskWalk, Heed
  <2>2. CASE op'[t].name = "walk"
    <3>1. /\ call' = call /\ op'[t].root = call[t].r.self /\ op'[t].ids = Head(call[t].todo)
          /\ how' = how /\ \A u \in Thread : u # t => op'[u] = op[u]
      BY <1>7, <2>2, AskedWalk
    <3>2. At(t, "judge") /\ how \in {"walk", "filter_walk"}
      BY <1>7 DEF AskWalk
    <3> QED BY <3>1, <3>2 DEF WalksCall, At
  <2>3. CASE op'[t].name # "walk"
    BY <1>2, <1>7, <2>1, <2>3, AskedWalk
  <2> QED BY <2>2, <2>3
<1>8. ASSUME NEW t \in Thread, AskBits(t) PROVE WalksCall'
  <2>1. op[t].name # "walk"
    BY <1>8 DEF AskBits, WalksCall
  <2> QED BY <1>1, <1>2, <1>8, <2>1 DEF AskBits, lineage
<1>9. ASSUME NEW t \in Thread, Finish(t) PROVE WalksCall'
  <2>1. op[t].name # "walk"
    BY <1>9 DEF Finish, WalksCall, At
  <2> QED BY <1>1, <1>2, <1>9, <2>1 DEF Finish, lineage
<1>10. ASSUME NEW t \in Thread, GoOn(t) PROVE WalksCall'
  BY <1>1, <1>2, <1>10 DEF GoOn, ForkRank, ForkDepth, ForkCopy, ExitClear, Forking, Idle
<1> QED BY <1>3, <1>4, <1>5, <1>6, <1>7, <1>8, <1>9, <1>10 DEF ThreeiNext, Step

\* What the calls know is inductive while no cage outlives its parent.
LEMMA NextCallInv ==
  ASSUME Inv, Reached, CallTyped, WalksCall, CallInv, [ThreeiNext]_tvars
  PROVE  CallInv'
<1>1. [Next]_vars /\ call \in [Thread -> {NoCall} \cup Calls] /\ gone \in [Thread -> SUBSET Cage]
  BY StepNext DEF CallTyped, CallTypeOK
<1>2. ASSUME call' = call, gone' = gone, \A c \in Cage : life'[c] = "exiting" => life[c] = "exiting"
      PROVE  CallInv'
  BY <1>1, <1>2, Beside DEF CallInv, Knows
<1>3. CASE UNCHANGED tvars
  BY <1>2, <1>3 DEF tvars, vars
<1>4. ASSUME NEW t \in Thread, NEW r \in Requests, Make(t, r) PROVE CallInv'
  <2> DEFINE d == [pc |-> "judge", r |-> r, todo |-> Questioned(r), within |-> Within(r)]
  <2>1. /\ UNCHANGED <<parent, ancestors, life>> /\ Alive(r.self)
        /\ call' = [call EXCEPT ![t] = d]
        /\ gone' = [gone EXCEPT ![t] = {c \in Cage : life[c] = "exiting"}]
    BY <1>4 DEF Make, lineage
  <2>2. d.r = r /\ d.pc = "judge" /\ d.todo = Questioned(r) /\ d.within = Within(r)
    OBVIOUS
  <2> HIDE DEF d
  <2>3. /\ call'[t] = d /\ gone'[t] = {c \in Cage : life[c] = "exiting"}
        /\ \A u \in Thread : u # t => call'[u] = call[u] /\ gone'[u] = gone[u]
    BY <1>1, <2>1
  <2>4. Coming' = Coming /\ Line' = Line
    BY <2>1 DEF Coming, Line, Alive
  <2>5. ASSUME NEW u \in Thread, u # t, InCall(u)' PROVE Knows(u)'
    BY <2>1, <2>3, <2>4, <2>5 DEF CallInv, Knows, Found, Kept, Awaits, At, InCall, Alive
  <2>6. \A c \in Ids(r) : Awaits(t, c)'
    BY <2>2, <2>3, IdsCages DEF Awaits
  <2>7. Within(r) => \A c \in Ids(r) : Kept(t, c)'
    <3>1. ASSUME Within(r), NEW c \in Ids(r) PROVE Alive(c) /\ r.self \in ancestors[c]
      <4>1. c \in Cage /\ Alive(c) /\ r.self \in Upward(c)
        BY <3>1, IdsCages DEF Within
      <4> QED BY <4>1, BitsUpward
    <3> QED BY <2>1, <2>2, <2>3, <3>1 DEF Kept, Alive
  <2>8. Knows(t)'
    BY <2>1, <2>2, <2>3, <2>6, <2>7 DEF Knows, At, Alive
  <2> QED BY <2>5, <2>8 DEF CallInv
<1>5. ASSUME NEW t \in Thread, NEW p \in Cage, NEW c \in Cage, Fork(t, p, c) PROVE CallInv'
  BY <1>2, <1>5 DEF Fork, ForkLink, Inv, TypeOK
<1>6. ASSUME NEW t \in Thread, NEW c \in Cage, Exit(t, c) PROVE CallInv'
  <2>1. /\ call' = call /\ \A d \in Cage : life'[d] = "exiting" => d = c \/ life[d] = "exiting"
        /\ gone' = [u \in Thread |-> IF InCall(u) THEN gone[u] \cup {c} ELSE {}]
    BY <1>6 DEF Exit, ExitUnlink, Inv, TypeOK
  <2>2. \A u \in Thread : InCall(u) => gone'[u] = gone[u] \cup {c}
    BY <2>1
  <2>3. ASSUME NEW u \in Thread, InCall(u), NEW d \in Cage, life'[d] = "exiting"
        PROVE  d \in gone'[u]
    BY <2>1, <2>2, <2>3 DEF CallInv, Knows
  <2>4. \A u \in Thread : InCall(u) => gone[u] \subseteq gone'[u]
    BY <2>2
  <2> QED BY <1>1, <2>1, <2>3, <2>4, Beside
<1>7. ASSUME NEW t \in Thread, AskWalk(t) PROVE CallInv'
  <2>1. CASE op'[t].name = "walk"
    BY <1>2, <1>7, <2>1, AskedWalk
  <2>2. CASE op'[t].name # "walk"
    <3>1. PICK ok \in BOOLEAN :
            /\ call' = [call EXCEPT ![t] = Ruled(call[t], ok)]
            /\ ok <=> \A c \in Head(call[t].todo) : Inside(call[t].r.self, c)
      BY <1>7, <2>2, AskedWalk
    <3>2. UNCHANGED <<parent, ancestors, life, how, gone>> /\ At(t, "judge")
      BY <1>7, AskedWalk DEF AskWalk
    <3> QED BY <3>1, <3>2, Verdict
  <2> QED BY <2>1, <2>2
<1>8. ASSUME NEW t \in Thread, AskBits(t) PROVE CallInv'
  <2>1. PICK ok \in BOOLEAN : ok = InSubtreeBits(SubtreeOf(call[t].r), Head(call[t].todo))
    BY DEF InSubtreeBits
  <2>2. /\ call' = [call EXCEPT ![t] = Ruled(call[t], ok)] /\ At(t, "judge")
        /\ UNCHANGED <<parent, ancestors, life, how, gone>>
    BY <1>8, <2>1 DEF AskBits, lineage
  <2>3. ok <=> \A c \in Head(call[t].todo) : call[t].r.self \in ancestors[c]
    BY <2>1 DEF InSubtreeBits, SubtreeOf
  <2> QED BY <2>2, <2>3, Verdict
<1>9. ASSUME NEW t \in Thread, Finish(t) PROVE CallInv'
  <2>1. /\ UNCHANGED <<parent, ancestors, life>> /\ call'[t] = NoCall
        /\ \A u \in Thread : u # t => call'[u] = call[u] /\ gone'[u] = gone[u]
    BY <1>1, <1>9 DEF Finish, lineage
  <2>2. Coming' = Coming /\ Line' = Line
    BY <2>1 DEF Coming, Line, Alive
  <2> QED BY <2>1, <2>2 DEF CallInv, Knows, Found, Kept, Awaits, At, InCall, Alive
<1>10. ASSUME NEW t \in Thread, GoOn(t) PROVE CallInv'
  <2>1. call' = call /\ gone' = gone /\ (ForkRank(t) \/ ForkDepth(t) \/ ForkCopy(t) \/ ExitClear(t))
    BY <1>10 DEF GoOn
  <2>2. \A c \in Cage : life'[c] = "exiting" => life[c] = "exiting"
    BY <2>1, Completed DEF Inv, ForkRank, ForkDepth
  <2> QED BY <1>2, <2>1, <2>2
<1> QED BY <1>3, <1>4, <1>5, <1>6, <1>7, <1>8, <1>9, <1>10 DEF ThreeiNext, Step

-----------------------------------------------------------------------------
(* The theorems                                                            *)

\* No call is in progress initially.
LEMMA InitCalls == ThreeiInit => Inv /\ Reached /\ ThreeiInv
<1> SUFFICES ASSUME ThreeiInit PROVE Inv /\ Reached /\ ThreeiInv
  OBVIOUS
<1>1. Inv
  BY InitInv DEF ThreeiInit
<1>2. Reached
  BY LineageOK DEF ThreeiInit, Init, Reached, UpClosed, Alive
<1>3. CallTyped /\ WalksCall /\ CallInv
  BY DEF ThreeiInit, Init, Idle, CallTyped, CallTypeOK, WalksCall, CallInv, InCall
<1> QED BY <1>1, <1>2, <1>3 DEF ThreeiInv

\* The calls keep their types, orphans or not, and always have a question left
\* until they have their verdict.
THEOREM CallTypes == ThreeiSpec => []CallTypeOK
<1>1. ThreeiInit => TypeOK /\ CallTyped
  BY InitCalls DEF Inv, ThreeiInv
<1>2. TypeOK /\ CallTyped /\ [ThreeiNext]_tvars => (TypeOK /\ CallTyped)'
  BY StepNext, NextType, NextCallTyped
<1>3. CallTyped => CallTypeOK
  BY DEF CallTyped
<1> QED BY <1>1, <1>2, <1>3, PTL DEF ThreeiSpec

\* make_syscall over a changing lineage does nothing to the lineage that forks,
\* exits and walks alone would not do, so all that holds of the lineage holds
\* while calls are made.
THEOREM Composes == ThreeiSpec => Spec
<1>1. ThreeiInit => Init /\ TypeOK /\ CallTyped
  BY InitCalls DEF Inv, ThreeiInv, ThreeiInit
<1>2. TypeOK /\ CallTyped /\ [ThreeiNext]_tvars => (TypeOK /\ CallTyped)' /\ [Next]_vars
  BY StepNext, NextType, NextCallTyped
<1> QED BY <1>1, <1>2, PTL DEF ThreeiSpec, Spec

\* The invariant of the composition, while no cage outlives its parent.
LEMMA Calling == ~Orphans /\ ThreeiSpec => [](Inv /\ Reached /\ ThreeiInv)
<1>1. ~Orphans /\ Inv /\ Reached /\ ThreeiInv /\ [ThreeiNext]_tvars
        => (Inv /\ Reached /\ ThreeiInv)'
  BY StepNext, NextInv, NextReached, NextCallTyped, NextWalksCall, NextCallInv DEF ThreeiInv, Inv
<1>2. ~Orphans => [](~Orphans)
  OBVIOUS
<1> QED BY <1>1, <1>2, InitCalls, PTL DEF ThreeiSpec

\* The leaf acts inside the caller's subtree: under all four policies, every id
\* that still is the cage the policy was asked about is below the caller,
\* whatever was forked or has exited since the verdict.
THEOREM LeafTheorem == ~Orphans /\ ThreeiSpec => []LeafInside
<1>1. Inv /\ Reached /\ ThreeiInv => LeafInside
  <2> SUFFICES ASSUME Inv, Reached, ThreeiInv, NEW t \in Thread, At(t, "leaf"),
                      NEW c \in Ids(call[t].r), Alive(c), c \notin gone[t]
               PROVE  call[t].r.self \in Upward(c)
    BY DEF LeafInside
  <2>1. InCall(t) /\ call[t] \in Calls /\ call[t].pc = "leaf"
    BY DEF At, InCall, NoCall, ThreeiInv, CallTyped, CallTypeOK
  <2>2. call[t].r \in Requests /\ call[t].todo = <<>>
    BY <2>1 DEF Calls, ThreeiInv, CallTyped, CallTypeOK, At
  <2>3. c \in Cage /\ (Awaits(t, c) \/ Found(t, c))
    BY <2>1, <2>2, IdsCages DEF ThreeiInv, CallInv, Knows, At
  <2>4. ~Awaits(t, c)
    BY <2>2 DEF Awaits
  <2>5. c \in Cage /\ call[t].r.self \in ancestors[c]
    BY <2>2, <2>3, <2>4, IdsCages DEF Found, Line
  <2> QED BY <2>5, BitsUpward
<1> QED BY <1>1, Calling, PTL

\* A caller is refused access to its own living descendants only if one of them
\* has exited since the call was made.
THEOREM ServedTheorem == ~Orphans /\ ThreeiSpec => []DescendantsServed
<1>1. ThreeiInv => DescendantsServed
  BY DEF ThreeiInv, CallInv, Knows, DescendantsServed, At, InCall, NoCall
<1> QED BY <1>1, Calling, PTL
=============================================================================
