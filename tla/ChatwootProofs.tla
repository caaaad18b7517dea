--------------------------- MODULE ChatwootProofs ---------------------------
(***************************************************************************)
(* Proofs about ChatwootDelivery, for any messages, handlers and faults:   *)
(* what is deleted has been posted, and to the right person; contacts,     *)
(* conversations and posts are repeated only for a cause.                  *)
(*                                                                         *)
(* Proofs about Conversation, for any updates, connectors and replies, and *)
(* a change of ANONYMIZE_USERS: a reply reaches who wrote, a writer has    *)
(* one contact, and neither updates nor replies are lost without a cause.  *)
(***************************************************************************)
EXTENDS ChatwootDelivery, Conversation, SequenceTheorems, FiniteSetTheorems, TLAPS

-----------------------------------------------------------------------------
(* What Chatwoot keeps only grows.                                         *)

Rightful(c, u) == contacts[c] = u \/ <<u, contacts[c]>> \in Lookalike

Kept ==
  /\ contacts \in Seq(Users) /\ convs \in Seq(Nat) /\ posts \in Seq([job : Jobs, conv : Nat])
  /\ \A i \in 1..Len(convs) : convs[i] \in 1..Len(contacts)
  /\ \A i \in 1..Len(posts) :
       /\ posts[i].conv \in 1..Len(convs)
       /\ Rightful(convs[posts[i].conv], Sender[posts[i].job])

(* What a call knows is there, and of the sender of its message.           *)
Knows(c) ==
  /\ c.contact # 0 =>
       c.contact \in 1..Len(contacts) /\ Rightful(c.contact, Sender[c.job])
  /\ c.op \in {"listConvs", "addConv", "upload", "post"} \/ (c.op = "addContact" /\ c.answered)
       => c.contact # 0
  /\ c.conv # 0 => c.conv \in 1..Len(convs) /\ convs[c.conv] = c.contact
  /\ c.op \in {"upload", "post"} \/ (c.op = "addConv" /\ c.answered) => c.conv # 0
  /\ c.op = "upload" /\ ~c.answered => c.left > 0
  /\ c.op = "post" /\ c.answered => \E i \in 1..Len(posts) : posts[i].job = c.job

Finished ==
  /\ job \in [Jobs -> {"queued", "done", "archived"}]
  /\ \A j \in Jobs : job[j] = "done" => \E i \in 1..Len(posts) : posts[i].job = j

Underway ==
  /\ call \in [Handlers -> Calls \cup {Idle}]
  /\ \A h \in Handlers : Running(h) => Knows(call[h])
  /\ late \subseteq Calls
  /\ \A r \in late : Knows(r) /\ r.op \in {"addContact", "addConv", "post"} /\ ~r.answered

Budgeted == budget \in [Faults -> Nat]

IInv == Kept /\ Finished /\ Underway /\ Budgeted

Extends(t, s) == Len(s) <= Len(t) /\ \A i \in 1..Len(s) : t[i] = s[i]
Grows == Extends(contacts', contacts) /\ Extends(convs', convs) /\ Extends(posts', posts)

LEMMA Lengths ==
  ASSUME Kept
  PROVE  /\ Len(contacts) \in Nat /\ Len(convs) \in Nat /\ Len(posts) \in Nat
         /\ \A i \in 1..Len(contacts) : contacts[i] \in Users
         /\ \A i \in 1..Len(convs) : convs[i] \in Nat
         /\ \A i \in 1..Len(posts) : posts[i].job \in Jobs /\ posts[i].conv \in Nat
<1>1. Len(contacts) \in Nat /\ Len(convs) \in Nat /\ Len(posts) \in Nat
  BY LenProperties DEF Kept
<1>2. /\ \A i \in 1..Len(contacts) : contacts[i] \in Users
      /\ \A i \in 1..Len(convs) : convs[i] \in Nat
  BY ElementOfSeq DEF Kept
<1>3. \A i \in 1..Len(posts) : posts[i] \in [job : Jobs, conv : Nat]
  BY ElementOfSeq DEF Kept
<1> QED BY <1>1, <1>2, <1>3

LEMMA KnowsStays ==
  ASSUME Kept, Kept', Grows, NEW c \in Calls, Knows(c)
  PROVE  Knows(c)'
<1>1. Len(contacts) \in Nat /\ Len(convs) \in Nat /\ Len(posts) \in Nat
  BY Lengths
<1>2. Len(contacts') \in Nat /\ Len(convs') \in Nat /\ Len(posts') \in Nat
  BY LenProperties DEF Kept
<1>3. c.contact # 0 => c.contact \in 1..Len(contacts') /\ contacts'[c.contact] = contacts[c.contact]
  BY <1>1, <1>2 DEF Knows, Grows, Extends
<1>4. c.conv # 0 => c.conv \in 1..Len(convs') /\ convs'[c.conv] = convs[c.conv]
  BY <1>1, <1>2 DEF Knows, Grows, Extends
<1>5. c.op = "post" /\ c.answered => \E i \in 1..Len(posts') : posts'[i].job = c.job
  BY <1>1, <1>2 DEF Knows, Grows, Extends
<1> QED BY <1>3, <1>4, <1>5 DEF Knows, Rightful

LEMMA FinishedStays ==
  ASSUME Kept, Kept', Finished, Grows, UNCHANGED job
  PROVE  Finished'
<1>1. Len(posts) \in Nat /\ Len(posts') \in Nat
  BY LenProperties DEF Kept
<1> QED BY <1>1 DEF Finished, Grows, Extends

(* The three ways in which Chatwoot grows.                                 *)
LEMMA ContactGrows ==
  ASSUME Kept, NEW u \in Users, contacts' = Append(contacts, u), UNCHANGED <<convs, posts>>
  PROVE  /\ Kept' /\ Grows
         /\ Len(contacts') = Len(contacts) + 1 /\ contacts'[Len(contacts) + 1] = u
<1>1. Len(contacts) \in Nat /\ Len(convs) \in Nat /\ Len(posts) \in Nat
  BY Lengths
<1>2. /\ contacts' \in Seq(Users) /\ Len(contacts') = Len(contacts) + 1
      /\ contacts'[Len(contacts) + 1] = u
      /\ \A i \in 1..Len(contacts) : contacts'[i] = contacts[i]
  BY AppendProperties DEF Kept
<1>3. Grows
  BY <1>1, <1>2 DEF Grows, Extends
<1>4. \A i \in 1..Len(convs) :
        convs[i] \in 1..Len(contacts') /\ contacts'[convs[i]] = contacts[convs[i]]
  BY <1>1, <1>2 DEF Kept
<1>5. Kept'
  BY <1>2, <1>4 DEF Kept, Rightful
<1> QED BY <1>2, <1>3, <1>5

LEMMA ConvGrows ==
  ASSUME Kept, NEW c \in 1..Len(contacts), convs' = Append(convs, c),
         UNCHANGED <<contacts, posts>>
  PROVE  /\ Kept' /\ Grows
         /\ Len(convs') = Len(convs) + 1 /\ convs'[Len(convs) + 1] = c
<1>1. Len(contacts) \in Nat /\ Len(convs) \in Nat /\ Len(posts) \in Nat
  BY Lengths
<1>2. /\ convs' \in Seq(Nat) /\ Len(convs') = Len(convs) + 1
      /\ convs'[Len(convs) + 1] = c
      /\ \A i \in 1..Len(convs) : convs'[i] = convs[i]
  <2>1. convs \in Seq(Nat) /\ c \in Nat
    BY <1>1 DEF Kept
  <2> QED BY <2>1, AppendProperties
<1>3. Grows
  BY <1>1, <1>2 DEF Grows, Extends
<1>4. \A i \in 1..Len(convs') : convs'[i] \in 1..Len(contacts)
  BY <1>1, <1>2 DEF Kept
<1>5. \A i \in 1..Len(posts) :
        posts[i].conv \in 1..Len(convs') /\ convs'[posts[i].conv] = convs[posts[i].conv]
  BY <1>1, <1>2 DEF Kept
<1>6. Kept'
  BY <1>2, <1>4, <1>5 DEF Kept, Rightful
<1> QED BY <1>2, <1>3, <1>6

LEMMA PostGrows ==
  ASSUME Kept, NEW j \in Jobs, NEW v \in 1..Len(convs), Rightful(convs[v], Sender[j]),
         posts' = Append(posts, [job |-> j, conv |-> v]), UNCHANGED <<contacts, convs>>
  PROVE  /\ Kept' /\ Grows
         /\ \E i \in 1..Len(posts') : posts'[i].job = j
<1> DEFINE p == [job |-> j, conv |-> v]
<1>1. Len(contacts) \in Nat /\ Len(convs) \in Nat /\ Len(posts) \in Nat
  BY Lengths
<1>2. p \in [job : Jobs, conv : Nat] /\ p.job = j /\ p.conv = v
  BY <1>1
<1> HIDE DEF p
<1>3. /\ posts' \in Seq([job : Jobs, conv : Nat]) /\ Len(posts') = Len(posts) + 1
      /\ posts'[Len(posts) + 1] = p
      /\ \A i \in 1..Len(posts) : posts'[i] = posts[i]
  BY <1>2, AppendProperties DEF Kept, p
<1>4. Grows
  BY <1>1, <1>3 DEF Grows, Extends
<1>5. ASSUME NEW i \in 1..Len(posts')
      PROVE  posts'[i].conv \in 1..Len(convs) /\ Rightful(convs[posts'[i].conv], Sender[posts'[i].job])
  <2>1. CASE i = Len(posts) + 1
    BY <1>2, <1>3, <2>1
  <2>2. CASE i \in 1..Len(posts)
    BY <1>3, <2>2 DEF Kept
  <2> QED BY <1>1, <1>3, <2>1, <2>2
<1>6. Kept'
  BY <1>3, <1>5 DEF Kept, Rightful
<1>7. Len(posts) + 1 \in 1..Len(posts')
  BY <1>1, <1>3
<1> QED BY <1>2, <1>3, <1>4, <1>6, <1>7

-----------------------------------------------------------------------------
(* The handlers.                                                           *)

LEMMA SenderType == ASSUME NEW j \in Jobs PROVE Sender[j] \in Users /\ Files[j] \in Nat
BY ChatwootDeliveryAssumption

LEMMA RunningType ==
  ASSUME Underway, NEW h \in Handlers, Running(h)
  PROVE  call[h] \in Calls /\ Knows(call[h])
BY DEF Underway, Running, Idle

(* A handler ends, or takes up the answer c to its request.                *)
LEMMA HandlerMoves ==
  ASSUME IInv, Kept', Grows, NEW h \in Handlers, NEW c,
         call' = [call EXCEPT ![h] = c], UNCHANGED late,
         c = Idle \/ (c \in Calls /\ Knows(c)')
  PROVE  Underway'
<1>1. \A g \in Handlers \ {h} : Running(g) => Knows(call[g])'
  BY RunningType, KnowsStays DEF IInv, Underway
<1>2. \A r \in late : Knows(r)'
  BY KnowsStays DEF IInv, Underway
<1>3. call' \in [Handlers -> Calls \cup {Idle}]
  BY DEF IInv, Underway
<1>4. ASSUME NEW g \in Handlers, Running(g)' PROVE Knows(call[g])'
  <2>1. CASE g = h
    <3>1. call'[g] = c /\ c # Idle
      BY <1>4, <2>1 DEF IInv, Underway, Running, Idle
    <3> QED BY <3>1
  <2>2. CASE g # h
    <3>1. call'[g] = call[g] /\ Running(g)
      BY <1>4, <2>2 DEF IInv, Underway, Running
    <3> QED BY <1>1, <2>2, <3>1
  <2> QED BY <2>1, <2>2
<1> QED BY <1>2, <1>3, <1>4 DEF IInv, Underway

LEMMA NothingGrows == ASSUME Kept, UNCHANGED chatwoot PROVE Kept' /\ Grows
BY Lengths DEF chatwoot, Kept, Rightful, Grows, Extends

LEMMA SpendType == ASSUME Budgeted, NEW f \in Faults, Spend(f) PROVE Budgeted'
BY DEF Budgeted, Spend

LEMMA StartKeeps ==
  ASSUME IInv, NEW h \in Handlers, NEW j \in Jobs, Start(h, j)
  PROVE  IInv'
<1> SUFFICES ASSUME NEW c, c = [Idle EXCEPT !.op = "search", !.job = j, !.left = Files[j]]
             PROVE  IInv'
  OBVIOUS
<1>1. Kept' /\ Grows
  BY NothingGrows DEF IInv, Start
<1>2. Finished'
  BY <1>1, FinishedStays DEF IInv, Start
<1>3. Budgeted'
  BY SpendType DEF IInv, Start, Faults, Budgeted
<1>4. /\ c \in Calls
      /\ c.op = "search" /\ c.contact = 0 /\ c.conv = 0
  BY SenderType DEF Idle, Calls, Ops
<1>5. Knows(c)'
  BY <1>4 DEF Knows
<1>6. call' = [call EXCEPT ![h] = c] /\ UNCHANGED late
  BY DEF Start
<1>7. Underway'
  BY <1>1, <1>4, <1>5, <1>6, HandlerMoves
<1> QED BY <1>1, <1>2, <1>3, <1>7 DEF IInv

LEMMA AnswerKeeps ==
  ASSUME IInv, NEW h \in Handlers, Running(h), Kept', Grows, UNCHANGED <<job, late, budget>>,
         NEW k \in Nat, NEW v \in Nat, NEW n \in Nat, Answer(h, k, v, n),
         NEW c, c = [call[h] EXCEPT !.answered = TRUE, !.contact = k, !.conv = v, !.left = n],
         Knows(c)'
  PROVE  IInv'
<1>1. call[h] \in Calls
  BY RunningType DEF IInv
<1>2. c \in Calls
  BY <1>1 DEF Calls
<1>3. call' = [call EXCEPT ![h] = c]
  BY <1>1 DEF Answer, IInv, Underway, Calls
<1>4. Underway'
  BY <1>2, <1>3, HandlerMoves
<1> QED BY <1>4, FinishedStays DEF IInv, Budgeted

LEMMA PerformedKeeps ==
  ASSUME IInv, NEW h \in Handlers, Performed(h)
  PROVE  IInv'
<1>1. Running(h)
  BY DEF Performed, Search, AddContact, ListConvs, AddConv, Upload, Post, Sent, Running
<1>2. /\ call[h] \in Calls /\ Knows(call[h])
      /\ call[h].job \in Jobs /\ Sender[call[h].job] \in Users
      /\ call[h].contact \in Nat /\ call[h].conv \in Nat /\ call[h].left \in Nat
  BY <1>1, RunningType, SenderType DEF IInv, Calls
<1>3. Kept /\ Len(contacts) \in Nat /\ Len(convs) \in Nat /\ Len(posts) \in Nat
  BY Lengths DEF IInv
<1>4. CASE Search(h)
  <2>1. Kept' /\ Grows /\ UNCHANGED <<contacts, convs, posts, job, late, budget>>
        /\ call[h].op = "search"
    BY <1>3, <1>4, NothingGrows DEF Search, chatwoot, Sent
  <2>2. PICK k \in IF Found(Sender[call[h].job]) = {} THEN {0} ELSE Found(Sender[call[h].job]) :
          Answer(h, k, 0, call[h].left)
    BY <1>4 DEF Search
  <2>3. k \in Nat /\ (k # 0 => k \in 1..Len(contacts) /\ Rightful(k, Sender[call[h].job]))
    BY <1>3, <2>2 DEF Found, Rightful
  <2> SUFFICES ASSUME NEW c,
                      c = [call[h] EXCEPT !.answered = TRUE, !.contact = k, !.conv = 0,
                                          !.left = call[h].left]
               PROVE  IInv'
    OBVIOUS
  <2>4. c.op = "search" /\ c.contact = k /\ c.conv = 0 /\ c.job = call[h].job
    BY <1>2, <2>1 DEF Calls
  <2>5. Knows(c)'
    BY <2>1, <2>3, <2>4 DEF Knows, Rightful
  <2> QED BY <1>1, <1>2, <2>1, <2>2, <2>3, <2>5, AnswerKeeps
<1>5. CASE AddContact(h)
  <2>1. /\ contacts' = Append(contacts, Sender[call[h].job])
        /\ UNCHANGED <<convs, posts, job, late, budget>> /\ call[h].op = "addContact"
        /\ Answer(h, Len(contacts) + 1, 0, call[h].left)
    BY <1>5 DEF AddContact, Sent
  <2>2. /\ Kept' /\ Grows /\ Len(contacts') = Len(contacts) + 1
        /\ contacts'[Len(contacts) + 1] = Sender[call[h].job]
    BY <1>2, <1>3, <2>1, ContactGrows
  <2> SUFFICES ASSUME NEW k, k = Len(contacts) + 1, NEW c,
                      c = [call[h] EXCEPT !.answered = TRUE, !.contact = k, !.conv = 0,
                                          !.left = call[h].left]
               PROVE  IInv'
    OBVIOUS
  <2>3. c.op = "addContact" /\ c.contact = k /\ c.conv = 0 /\ c.job = call[h].job
    BY <1>2, <2>1 DEF Calls
  <2>4. k \in 1..Len(contacts') /\ k # 0 /\ k \in Nat
    BY <1>3, <2>2
  <2>5. Knows(c)'
    BY <2>2, <2>3, <2>4 DEF Knows, Rightful
  <2> QED BY <1>1, <1>2, <2>1, <2>2, <2>4, <2>5, AnswerKeeps
<1>6. CASE ListConvs(h)
  <2>1. Kept' /\ Grows /\ UNCHANGED <<contacts, convs, posts, job, late, budget>>
        /\ call[h].op = "listConvs"
    BY <1>3, <1>6, NothingGrows DEF ListConvs, chatwoot, Sent
  <2>2. PICK v \in IF Of(convs, call[h].contact) = {} THEN {0} ELSE Of(convs, call[h].contact) :
          Answer(h, call[h].contact, v, call[h].left)
    BY <1>6 DEF ListConvs
  <2>3. v \in Nat /\ (v # 0 => v \in 1..Len(convs) /\ convs[v] = call[h].contact)
    BY <1>3, <2>2 DEF Of
  <2> SUFFICES ASSUME NEW c,
                      c = [call[h] EXCEPT !.answered = TRUE, !.contact = call[h].contact,
                                          !.conv = v, !.left = call[h].left]
               PROVE  IInv'
    OBVIOUS
  <2>4. c.op = "listConvs" /\ c.contact = call[h].contact /\ c.conv = v /\ c.job = call[h].job
    BY <1>2, <2>1 DEF Calls
  <2>5. Knows(c)'
    BY <1>2, <2>1, <2>3, <2>4 DEF Knows, Rightful
  <2> QED BY <1>1, <1>2, <2>1, <2>2, <2>3, <2>5, AnswerKeeps
<1>7. CASE AddConv(h)
  <2>1. /\ convs' = Append(convs, call[h].contact)
        /\ UNCHANGED <<contacts, posts, job, late, budget>> /\ call[h].op = "addConv"
        /\ Answer(h, call[h].contact, Len(convs) + 1, call[h].left)
    BY <1>7 DEF AddConv, Sent
  <2>2. call[h].contact \in 1..Len(contacts) /\ call[h].contact # 0
        /\ Rightful(call[h].contact, Sender[call[h].job])
    BY <1>2, <2>1 DEF Knows
  <2>3. /\ Kept' /\ Grows /\ Len(convs') = Len(convs) + 1
        /\ convs'[Len(convs) + 1] = call[h].contact
    BY <1>3, <2>1, <2>2, ConvGrows
  <2> SUFFICES ASSUME NEW v, v = Len(convs) + 1, NEW c,
                      c = [call[h] EXCEPT !.answered = TRUE, !.contact = call[h].contact,
                                          !.conv = v, !.left = call[h].left]
               PROVE  IInv'
    OBVIOUS
  <2>4. c.op = "addConv" /\ c.contact = call[h].contact /\ c.conv = v /\ c.job = call[h].job
    BY <1>2, <2>1 DEF Calls
  <2>5. v \in 1..Len(convs') /\ v # 0 /\ v \in Nat
    BY <1>3, <2>3
  <2>6. Knows(c)'
    BY <2>1, <2>2, <2>3, <2>4, <2>5 DEF Knows, Rightful
  <2> QED BY <1>1, <1>2, <2>1, <2>3, <2>5, <2>6, AnswerKeeps
<1>8. CASE Upload(h)
  <2>1. Kept' /\ Grows /\ UNCHANGED <<contacts, convs, posts, job, late, budget>>
        /\ call[h].op = "upload" /\ ~call[h].answered
        /\ Answer(h, call[h].contact, call[h].conv, call[h].left - 1)
    BY <1>3, <1>8, NothingGrows DEF Upload, chatwoot, Sent
  <2> SUFFICES ASSUME NEW n, n = call[h].left - 1, NEW c,
                      c = [call[h] EXCEPT !.answered = TRUE, !.contact = call[h].contact,
                                          !.conv = call[h].conv, !.left = n]
               PROVE  IInv'
    OBVIOUS
  <2>2. n \in Nat
    BY <1>2, <2>1 DEF Knows
  <2>3. c.op = "upload" /\ c.contact = call[h].contact /\ c.conv = call[h].conv
        /\ c.job = call[h].job /\ c.answered = TRUE
    BY <1>2, <2>1 DEF Calls
  <2>4. Knows(c)'
    BY <1>2, <2>1, <2>3 DEF Knows, Rightful
  <2> QED BY <1>1, <1>2, <2>1, <2>2, <2>4, AnswerKeeps
<1>9. CASE Post(h)
  <2>1. /\ posts' = Append(posts, [job |-> call[h].job, conv |-> call[h].conv])
        /\ UNCHANGED <<contacts, convs, job, late, budget>> /\ call[h].op = "post"
        /\ Answer(h, call[h].contact, call[h].conv, 0)
    BY <1>9 DEF Post, Sent
  <2>2. /\ call[h].conv \in 1..Len(convs) /\ convs[call[h].conv] = call[h].contact
        /\ Rightful(convs[call[h].conv], Sender[call[h].job])
    BY <1>2, <2>1 DEF Knows
  <2>3. Kept' /\ Grows /\ \E i \in 1..Len(posts') : posts'[i].job = call[h].job
    BY <1>2, <1>3, <2>1, <2>2, PostGrows
  <2> SUFFICES ASSUME NEW c,
                      c = [call[h] EXCEPT !.answered = TRUE, !.contact = call[h].contact,
                                          !.conv = call[h].conv, !.left = 0]
               PROVE  IInv'
    OBVIOUS
  <2>4. c.op = "post" /\ c.contact = call[h].contact /\ c.conv = call[h].conv
        /\ c.job = call[h].job
    BY <1>2, <2>1 DEF Calls
  <2>5. Knows(c)'
    BY <1>2, <2>1, <2>3, <2>4 DEF Knows, Rightful
  <2> QED BY <1>1, <1>2, <2>1, <2>3, <2>5, AnswerKeeps
<1> QED BY <1>4, <1>5, <1>6, <1>7, <1>8, <1>9 DEF Performed

LEMMA ProceedKeeps ==
  ASSUME IInv, NEW h \in Handlers, Proceed(h)
  PROVE  IInv'
<1>1. call[h].answered /\ call[h].op # "post" /\ call[h].op # "none"
  <2>1. call[h].answered
    BY DEF Proceed
  <2>2. call[h] # Idle
    BY <2>1 DEF Idle
  <2>3. call[h] \in Calls
    BY <2>2 DEF IInv, Underway
  <2> QED BY <2>1, <2>3 DEF Proceed, Calls, Ops
<1>2. call[h] \in Calls /\ Knows(call[h])
  BY <1>1, RunningType DEF IInv, Running
<1>3. Kept' /\ Grows /\ UNCHANGED <<contacts, convs, posts, late, job, budget>>
  BY NothingGrows DEF IInv, Proceed, chatwoot
<1> SUFFICES ASSUME NEW op, op = Following(call[h]), NEW c,
                    c = [call[h] EXCEPT !.op = op, !.answered = FALSE]
             PROVE  IInv'
  OBVIOUS
<1>4. call[h].op \in {"search", "addContact", "listConvs", "addConv", "upload"}
  BY <1>1, <1>2 DEF Calls, Ops
<1>5. Content(call[h]) \in {"upload", "post"}
      /\ (Content(call[h]) = "upload" => call[h].left > 0)
  BY DEF Content
<1>6. /\ op \in Ops
      /\ op \in {"listConvs", "addConv", "upload", "post"} => call[h].contact # 0
      /\ op \in {"upload", "post"} => call[h].conv # 0
      /\ op = "upload" => call[h].left > 0
  <2>1. CASE call[h].op = "search"
    <3>1. op = IF call[h].contact = 0 THEN "addContact" ELSE "listConvs"
      BY <2>1 DEF Following
    <3> QED BY <3>1 DEF Ops
  <2>2. CASE call[h].op = "addContact"
    <3>1. op = "addConv"
      BY <2>2 DEF Following
    <3> QED BY <1>1, <1>2, <2>2, <3>1 DEF Ops, Knows
  <2>3. CASE call[h].op = "listConvs"
    <3>1. op = IF call[h].conv = 0 THEN "addConv" ELSE Content(call[h])
      BY <2>3 DEF Following
    <3> QED BY <1>2, <1>5, <2>3, <3>1 DEF Ops, Knows
  <2>4. CASE call[h].op \in {"addConv", "upload"}
    <3>1. op = Content(call[h])
      BY <2>4 DEF Following
    <3> QED BY <1>1, <1>2, <1>5, <2>4, <3>1 DEF Ops, Knows
  <2> QED BY <1>4, <2>1, <2>2, <2>3, <2>4
<1>7. /\ c \in Calls /\ c.op = op /\ c.answered = FALSE /\ c.contact = call[h].contact
      /\ c.conv = call[h].conv /\ c.job = call[h].job /\ c.left = call[h].left
  BY <1>2, <1>6 DEF Calls
<1>8. Knows(c)'
  BY <1>2, <1>3, <1>6, <1>7 DEF Knows, Rightful
<1>9. call' = [call EXCEPT ![h] = c]
  BY <1>2 DEF Proceed, IInv, Underway, Calls
<1>10. Underway'
  BY <1>3, <1>7, <1>8, <1>9, HandlerMoves
<1> QED BY <1>3, <1>10, FinishedStays DEF IInv, Budgeted

(* A delivery ends; its message is done only if it has been posted.        *)
LEMMA EndKeeps ==
  ASSUME IInv, NEW h \in Handlers, End(h), UNCHANGED <<chatwoot, late>>, Budgeted',
         NEW to \in {"queued", "done", "archived"}, Running(h), Settle(call[h].job, to),
         to = "done" => call[h].op = "post" /\ call[h].answered
  PROVE  IInv'
<1>1. Kept' /\ Grows /\ UNCHANGED posts
  BY NothingGrows DEF IInv, chatwoot
<1>2. Underway'
  BY <1>1, HandlerMoves DEF End
<1>3. call[h] \in Calls /\ Knows(call[h])
  BY RunningType DEF IInv
<1>4. Finished'
  <2>1. call[h].job \in Jobs
    BY <1>3 DEF Calls
  <2>2. to = "done" => \E i \in 1..Len(posts) : posts[i].job = call[h].job
    BY <1>3 DEF Knows
  <2> QED BY <1>1, <2>1, <2>2 DEF IInv, Finished, Settle
<1> QED BY <1>1, <1>2, <1>4 DEF IInv

LEMMA BreakKeeps == ASSUME IInv, NEW h \in Handlers, Break(h) PROVE IInv'
<1>1. Kept' /\ Grows /\ UNCHANGED <<contacts, convs, posts, job>>
  BY NothingGrows DEF IInv, Break, chatwoot
<1>2. Budgeted'
  BY SpendType DEF IInv, Break, Faults
<1>3. Finished'
  BY <1>1, FinishedStays DEF IInv
<1>4. call[h] \in Calls /\ Knows(call[h])
  BY RunningType DEF IInv, Break
<1>5. ASSUME NEW r \in late' PROVE r \in Calls /\ Knows(r)'
                                   /\ r.op \in {"addContact", "addConv", "post"} /\ ~r.answered
  <2>1. CASE r \in late
    BY <1>1, <2>1, KnowsStays DEF IInv, Underway
  <2>2. CASE r \notin late
    <3>1. /\ r = [call[h] EXCEPT !.left = budget["break"]] /\ ~call[h].answered
          /\ call[h].op \in {"addContact", "addConv", "post"}
      BY <2>2 DEF Break
    <3>2. budget["break"] \in Nat
      BY DEF IInv, Budgeted, Faults
    <3>3. r \in Calls
      BY <1>4, <3>1, <3>2 DEF Calls
    <3>4. r.op = call[h].op /\ r.answered = call[h].answered /\ r.contact = call[h].contact
          /\ r.conv = call[h].conv /\ r.job = call[h].job
      BY <1>4, <3>1 DEF Calls
    <3>5. Knows(r)
      BY <1>4, <3>1, <3>4 DEF Knows
    <3> QED BY <1>1, <3>1, <3>3, <3>4, <3>5, KnowsStays DEF IInv
  <2> QED BY <2>1, <2>2
<1>6. ASSUME NEW g \in Handlers, Running(g)' PROVE Knows(call[g])'
  <2>1. g # h /\ call'[g] = call[g] /\ Running(g)
    BY <1>6 DEF Break, End, Running, Idle, IInv, Underway
  <2> QED BY <1>1, <2>1, RunningType, KnowsStays DEF IInv
<1>7. call' \in [Handlers -> Calls \cup {Idle}]
  BY DEF Break, End, IInv, Underway
<1>8. Underway'
  BY <1>5, <1>6, <1>7 DEF Underway
<1> QED BY <1>1, <1>2, <1>3, <1>8 DEF IInv

LEMMA EndsKeep ==
  ASSUME IInv, NEW h \in Handlers, Return(h) \/ Refuse(h) \/ Page(h)
  PROVE  IInv'
<1>1. CASE Return(h)
  <2>1. Running(h) /\ Budgeted'
    BY <1>1 DEF Return, Running, IInv, Budgeted
  <2> QED BY <1>1, <2>1, EndKeeps DEF Return
<1>2. CASE Refuse(h)
  <2>1. Budgeted'
    BY <1>2, SpendType DEF Refuse, IInv, Budgeted, Faults
  <2> QED BY <1>2, <2>1, EndKeeps DEF Refuse
<1>3. CASE Page(h)
  <2>1. Budgeted'
    BY <1>3, SpendType DEF Page, IInv, Faults
  <2> QED BY <1>3, <2>1, EndKeeps DEF Page
<1> QED BY <1>1, <1>2, <1>3

(* A request that is performed late does what it would have done in time.  *)
LEMMA LateKeeps == ASSUME IInv, PerformLate PROVE IInv'
<1>1. PICK r \in late :
        /\ late' = late \ {r}
        /\ contacts' = IF r.op = "addContact" THEN Append(contacts, Sender[r.job]) ELSE contacts
        /\ convs' = IF r.op = "addConv" THEN Append(convs, r.contact) ELSE convs
        /\ posts' = IF r.op = "post" THEN Append(posts, [job |-> r.job, conv |-> r.conv]) ELSE posts
  BY DEF PerformLate
<1>2. r \in Calls /\ Knows(r) /\ r.op \in {"addContact", "addConv", "post"} /\ r.job \in Jobs
      /\ Sender[r.job] \in Users
  BY SenderType DEF IInv, Underway, Calls
<1>3. Kept' /\ Grows
  <2>1. CASE r.op = "addContact"
    BY <1>1, <1>2, <2>1, ContactGrows DEF IInv
  <2>2. CASE r.op = "addConv"
    <3>1. r.contact \in 1..Len(contacts)
      BY <1>2, <2>2 DEF Knows
    <3> QED BY <1>1, <2>2, <3>1, ConvGrows DEF IInv
  <2>3. CASE r.op = "post"
    <3>1. r.conv \in 1..Len(convs) /\ Rightful(convs[r.conv], Sender[r.job])
      BY <1>2, <2>3 DEF Knows
    <3> QED BY <1>1, <1>2, <2>3, <3>1, PostGrows DEF IInv
  <2> QED BY <1>2, <2>1, <2>2, <2>3
<1>4. UNCHANGED <<call, job, budget>>
  BY DEF PerformLate
<1>5. Finished'
  BY <1>3, <1>4, FinishedStays DEF IInv
<1>6. \A h \in Handlers : Running(h) => Knows(call[h])'
  BY <1>3, <1>4, RunningType, KnowsStays DEF IInv
<1>7. \A q \in late' : q \in Calls /\ Knows(q)'
                       /\ q.op \in {"addContact", "addConv", "post"} /\ ~q.answered
  BY <1>1, <1>3, KnowsStays DEF IInv, Underway
<1>8. Underway'
  BY <1>4, <1>6, <1>7 DEF IInv, Underway, Running
<1> QED BY <1>3, <1>4, <1>5, <1>8 DEF IInv, Budgeted

LEMMA InvInit == Init => IInv
<1> SUFFICES ASSUME Init PROVE IInv
  OBVIOUS
<1>1. contacts \in Seq(Users) /\ convs = <<>> /\ posts = <<>>
  BY ChatwootDeliveryAssumption DEF Init
<1>2. Kept
  BY <1>1, EmptySeq DEF Kept
<1>3. Finished
  BY DEF Init, Finished
<1>4. call = [h \in Handlers |-> Idle] /\ late = {} /\ Idle.op = "none"
  BY DEF Init, Idle
<1>5. Underway
  BY <1>4 DEF Underway, Running
<1>6. Budgeted
  BY ChatwootDeliveryAssumption DEF Init, Budgeted
<1> QED BY <1>2, <1>3, <1>5, <1>6 DEF IInv

LEMMA InvStep == IInv /\ [Next]_vars => IInv'
<1> SUFFICES ASSUME IInv, [Next]_vars PROVE IInv'
  OBVIOUS
<1>1. CASE UNCHANGED vars
  <2>1. Kept' /\ Grows /\ UNCHANGED <<contacts, convs, posts, late, call, job, budget>>
    BY <1>1, NothingGrows DEF IInv, vars, chatwoot
  <2>2. Finished' /\ Budgeted'
    BY <2>1, FinishedStays DEF IInv, Budgeted
  <2>3. Underway'
    BY <2>1 DEF IInv, Underway, Running, Knows, Rightful
  <2> QED BY <2>1, <2>2, <2>3 DEF IInv
<1>2. ASSUME NEW h \in Handlers, NEW j \in Jobs, Start(h, j) PROVE IInv'
  BY <1>2, StartKeeps
<1>3. ASSUME NEW h \in Handlers,
             Performed(h) \/ Proceed(h) \/ Return(h) \/ Break(h) \/ Refuse(h) \/ Page(h)
      PROVE  IInv'
  BY <1>3, PerformedKeeps, ProceedKeeps, EndsKeep, BreakKeeps
<1> QED BY <1>1, <1>2, <1>3, LateKeeps DEF Next

(* Every variable keeps to its type; the ids that handlers hold are those  *)
(* of contacts and conversations there are (cw_client.py:60-101).          *)
THEOREM TypeCorrect == Spec => []TypeOK
<1>1. ASSUME IInv PROVE TypeOK
  <2>1. convs \in Seq(1..Len(contacts))
    <3>1. /\ convs \in Seq(Nat) /\ Len(convs) \in Nat
          /\ \A i \in 1..Len(convs) : convs[i] \in 1..Len(contacts)
      BY <1>1, LenProperties DEF IInv, Kept
    <3>2. convs \in [1..Len(convs) -> 1..Len(contacts)]
      BY <3>1, LenProperties
    <3> QED BY <3>1, <3>2, SeqDef
  <2>2. posts \in Seq([job : Jobs, conv : 1..Len(convs)])
    <3> DEFINE T == [job : Jobs, conv : 1..Len(convs)]
    <3>1. posts \in Seq([job : Jobs, conv : Nat]) /\ Len(posts) \in Nat
      BY <1>1, LenProperties DEF IInv, Kept
    <3>2. \A i \in 1..Len(posts) : posts[i] \in [job : Jobs, conv : Nat]
      BY <3>1, ElementOfSeq
    <3>3. \A i \in 1..Len(posts) : posts[i].conv \in 1..Len(convs)
      BY <1>1 DEF IInv, Kept
    <3>4. \A i \in 1..Len(posts) : posts[i] \in T
      BY <3>2, <3>3
    <3> HIDE DEF T
    <3>5. posts \in [1..Len(posts) -> T]
      BY <3>1, <3>4, LenProperties
    <3>6. posts \in Seq(T)
      BY <3>1, <3>5, SeqDef
    <3> QED BY <3>6 DEF T
  <2> QED BY <1>1, <2>1, <2>2 DEF IInv, Kept, Finished, Underway, Budgeted, TypeOK
<1> QED BY <1>1, InvInit, InvStep, PTL DEF Spec

(* However deliveries overlap and break off, and however late their        *)
(* requests are performed, a message is deleted only when it has been      *)
(* posted, and to its sender's conversation (cw_client.py:60-101).         *)
THEOREM DoneAlwaysPosted == Spec => []DoneIsPosted
<1>1. IInv => DoneIsPosted
  BY DEF IInv, Kept, Finished, DoneIsPosted, Owner, Rightful
<1> QED BY <1>1, InvInit, InvStep, PTL DEF Spec

-----------------------------------------------------------------------------
(* Counting.  What there is, what handlers may yet add to it and what late *)
(* requests may add is together no more than the faults explain.           *)

Adds(c, u) ==
  /\ (c.op = "search" /\ c.answered /\ c.contact = 0) \/ (c.op = "addContact" /\ ~c.answered)
  /\ Sender[c.job] = u
Opens(c, v) ==
  /\ \/ c.op = "addContact" /\ c.answered
     \/ c.op = "listConvs" /\ c.answered /\ c.conv = 0
     \/ c.op = "addConv" /\ ~c.answered
  /\ c.contact = v
Brings(c, j) == c.op # "none" /\ ~(c.op = "post" /\ c.answered) /\ c.job = j

Adding(u) == {h \in Handlers : Adds(call[h], u)}
Opening(v) == {h \in Handlers : Opens(call[h], v)}
Bringing(j) == {h \in Handlers : Brings(call[h], j)}
LateContacts(u) == {r \in late : r.op = "addContact" /\ Sender[r.job] = u}
LateConvs(v) == {r \in late : r.op = "addConv" /\ r.contact = v}
LatePosts(j) == {r \in late : r.op = "post" /\ r.job = j}
Free(j) == IF job[j] = "queued" /\ ~Leased(j) THEN 1 ELSE 0

Total(S, T, U) == Cardinality(S) + Cardinality(T) + Cardinality(U)
Few(S, T, U, n) == Cardinality(U) <= n /\ Total(S, T, U) <= Cardinality(Handlers) + n

ContactsFew(u) == Few(Of(contacts, u), Adding(u), LateContacts(u), Used("break"))
ConvsFew(v) == Few(Of(convs, v), Opening(v), LateConvs(v), Used("break"))
PostsFew(j) ==
  Total(Copies(j), Bringing(j), LatePosts(j)) + Free(j) <= 1 + Used("break") + Used("expire")

FewContacts == \A u \in Users : ContactsFew(u)
FewConvs == \A v \in Nat : ConvsFew(v)
FewPosts == \A j \in Jobs : PostsFew(j)

Counted == IsFiniteSet(late) /\ FewContacts /\ FewConvs /\ FewPosts

LEMMA CardLess ==
  ASSUME NEW S, IsFiniteSet(S), NEW T \in SUBSET S
  PROVE  /\ IsFiniteSet(T) /\ Cardinality(T) \in Nat /\ Cardinality(S) \in Nat
         /\ Cardinality(T) <= Cardinality(S)
         /\ \A x \in S : x \notin T => Cardinality(T) <= Cardinality(S) - 1
<1>1. /\ IsFiniteSet(T) /\ Cardinality(T) \in Nat /\ Cardinality(S) \in Nat
      /\ Cardinality(T) <= Cardinality(S) /\ (Cardinality(S) = Cardinality(T) => S = T)
  BY FS_Subset, FS_CardinalityType
<1> QED BY <1>1

LEMMA CardMore ==
  ASSUME NEW S, IsFiniteSet(S), NEW x, NEW T \in SUBSET (S \cup {x})
  PROVE  /\ IsFiniteSet(T) /\ Cardinality(T) \in Nat /\ Cardinality(S) \in Nat
         /\ Cardinality(T) <= Cardinality(S) + 1
<1>1. /\ IsFiniteSet(S \cup {x})
      /\ Cardinality(S \cup {x}) = Cardinality(S) \/ Cardinality(S \cup {x}) = Cardinality(S) + 1
  BY FS_AddElement
<1> QED BY <1>1, CardLess, FS_CardinalityType

(* Nothing is added.                                                       *)
LEMMA Steady ==
  ASSUME NEW S, NEW T, NEW U, IsFiniteSet(S), IsFiniteSet(T), IsFiniteSet(U),
         NEW S1 \in SUBSET S, NEW T1 \in SUBSET T, NEW U1 \in SUBSET U
  PROVE  /\ Total(S, T, U) \in Nat /\ Total(S1, T1, U1) \in Nat
         /\ Total(S1, T1, U1) <= Total(S, T, U)
         /\ \A x \in T : x \notin T1 => Total(S1, T1, U1) <= Total(S, T, U) - 1
<1>1. /\ Cardinality(S) \in Nat /\ Cardinality(T) \in Nat /\ Cardinality(U) \in Nat
      /\ Cardinality(S1) \in Nat /\ Cardinality(T1) \in Nat /\ Cardinality(U1) \in Nat
      /\ Cardinality(S1) <= Cardinality(S) /\ Cardinality(T1) <= Cardinality(T)
      /\ Cardinality(U1) <= Cardinality(U)
  BY CardLess
<1>2. \A x \in T : x \notin T1 => Cardinality(T1) <= Cardinality(T) - 1
  BY CardLess
<1> QED BY <1>1, <1>2 DEF Total

(* A handler adds what was expected of it.                                 *)
LEMMA Fulfil ==
  ASSUME NEW S, NEW T, NEW U, IsFiniteSet(S), IsFiniteSet(T), IsFiniteSet(U),
         NEW x, NEW S1 \in SUBSET (S \cup {x}), NEW y \in T, NEW T1 \in SUBSET (T \ {y}),
         NEW U1 \in SUBSET U
  PROVE  Total(S1, T1, U1) \in Nat /\ Total(S1, T1, U1) <= Total(S, T, U)
<1>1. /\ Cardinality(S) \in Nat /\ Cardinality(S1) \in Nat
      /\ Cardinality(S1) <= Cardinality(S) + 1
  BY CardMore
<1>2. /\ Cardinality(T) \in Nat /\ Cardinality(T1) \in Nat
      /\ Cardinality(T1) <= Cardinality(T) - 1
  <2>1. T1 \in SUBSET T /\ y \notin T1
    OBVIOUS
  <2> QED BY <2>1, CardLess
<1>3. Cardinality(U) \in Nat /\ Cardinality(U1) \in Nat /\ Cardinality(U1) <= Cardinality(U)
  BY CardLess
<1> QED BY <1>1, <1>2, <1>3 DEF Total

(* A late request adds what it was to.                                     *)
LEMMA FulfilLate ==
  ASSUME NEW S, NEW T, NEW U, IsFiniteSet(S), IsFiniteSet(T), IsFiniteSet(U),
         NEW x, NEW S1 \in SUBSET (S \cup {x}), NEW T1 \in SUBSET T,
         NEW y \in U, NEW U1 \in SUBSET (U \ {y})
  PROVE  Total(S1, T1, U1) \in Nat /\ Total(S1, T1, U1) <= Total(S, T, U)
<1>1. Total(S1, T1, U1) = Total(S1, U1, T1) /\ Total(S, T, U) = Total(S, U, T)
  <2>1. /\ Cardinality(T) \in Nat /\ Cardinality(T1) \in Nat
        /\ Cardinality(U) \in Nat /\ Cardinality(U1) \in Nat
    BY CardLess
  <2>2. Cardinality(S) \in Nat /\ Cardinality(S1) \in Nat
    BY CardMore
  <2> QED BY <2>1, <2>2 DEF Total
<1>2. Total(S1, U1, T1) \in Nat /\ Total(S1, U1, T1) <= Total(S, U, T)
  BY Fulfil
<1> QED BY <1>1, <1>2

(* A request is left to be performed late.                                 *)
LEMMA Leave ==
  ASSUME NEW S, NEW T, NEW U, IsFiniteSet(S), IsFiniteSet(T), IsFiniteSet(U),
         NEW S1 \in SUBSET S, NEW T1 \in SUBSET T, NEW x, NEW U1 \in SUBSET (U \cup {x})
  PROVE  /\ Total(S1, T1, U1) \in Nat /\ Total(S1, T1, U1) <= Total(S, T, U) + 1
         /\ \A y \in T : y \notin T1 => Total(S1, T1, U1) <= Total(S, T, U)
<1>1. /\ Cardinality(S) \in Nat /\ Cardinality(T) \in Nat
      /\ Cardinality(S1) \in Nat /\ Cardinality(T1) \in Nat
      /\ Cardinality(S1) <= Cardinality(S) /\ Cardinality(T1) <= Cardinality(T)
  BY CardLess
<1>2. \A y \in T : y \notin T1 => Cardinality(T1) <= Cardinality(T) - 1
  BY CardLess
<1>3. /\ Cardinality(U) \in Nat /\ Cardinality(U1) \in Nat
      /\ Cardinality(U1) <= Cardinality(U) + 1
  BY CardMore
<1> QED BY <1>1, <1>2, <1>3 DEF Total

(* The same of what is few.                                                *)
LEMMA FewLess ==
  ASSUME NEW S, NEW T, NEW U, IsFiniteSet(S), IsFiniteSet(T), IsFiniteSet(U),
         NEW S1 \in SUBSET S, NEW T1 \in SUBSET T, NEW U1 \in SUBSET U,
         NEW n \in Int, Few(S, T, U, n)
  PROVE  Few(S1, T1, U1, n)
<1>1. Cardinality(Handlers) \in Nat
  BY FS_CardinalityType, ChatwootDeliveryAssumption
<1>2. /\ Cardinality(U1) \in Nat /\ Cardinality(U) \in Nat
      /\ Cardinality(U1) <= Cardinality(U)
  BY CardLess
<1>3. /\ Total(S, T, U) \in Nat /\ Total(S1, T1, U1) \in Nat
      /\ Total(S1, T1, U1) <= Total(S, T, U)
  BY Steady
<1> QED BY <1>1, <1>2, <1>3 DEF Few

LEMMA FewFulfil ==
  ASSUME NEW S, NEW T, NEW U, IsFiniteSet(S), IsFiniteSet(T), IsFiniteSet(U),
         NEW x, NEW S1 \in SUBSET (S \cup {x}), NEW y \in T, NEW T1 \in SUBSET (T \ {y}),
         NEW n \in Int, Few(S, T, U, n)
  PROVE  Few(S1, T1, U, n)
<1>1. Cardinality(Handlers) \in Nat
  BY FS_CardinalityType, ChatwootDeliveryAssumption
<1>2. Total(S, T, U) \in Nat
  BY FS_CardinalityType DEF Total
<1>3. Total(S1, T1, U) \in Nat /\ Total(S1, T1, U) <= Total(S, T, U)
  BY Fulfil
<1> QED BY <1>1, <1>2, <1>3 DEF Few

LEMMA FewFulfilLate ==
  ASSUME NEW S, NEW T, NEW U, IsFiniteSet(S), IsFiniteSet(T), IsFiniteSet(U),
         NEW x, NEW S1 \in SUBSET (S \cup {x}), NEW y \in U, NEW U1 \in SUBSET (U \ {y}),
         NEW n \in Int, Few(S, T, U, n)
  PROVE  Few(S1, T, U1, n)
<1>1. Cardinality(Handlers) \in Nat
  BY FS_CardinalityType, ChatwootDeliveryAssumption
<1>2. Total(S, T, U) \in Nat
  BY FS_CardinalityType DEF Total
<1>3. Total(S1, T, U1) \in Nat /\ Total(S1, T, U1) <= Total(S, T, U)
  BY FulfilLate
<1>4. /\ Cardinality(U1) \in Nat /\ Cardinality(U) \in Nat
      /\ Cardinality(U1) <= Cardinality(U)
  <2>1. U1 \in SUBSET U
    OBVIOUS
  <2> QED BY <2>1, CardLess
<1> QED BY <1>1, <1>2, <1>3, <1>4 DEF Few

LEMMA FewLeave ==
  ASSUME NEW S, NEW T, NEW U, IsFiniteSet(S), IsFiniteSet(T), IsFiniteSet(U),
         NEW T1 \in SUBSET T, NEW x, NEW U1 \in SUBSET (U \cup {x}),
         NEW n \in Int, Few(S, T, U, n)
  PROVE  Few(S, T1, U1, n + 1)
<1>1. Cardinality(Handlers) \in Nat
  BY FS_CardinalityType, ChatwootDeliveryAssumption
<1>2. Total(S, T, U) \in Nat
  BY FS_CardinalityType DEF Total
<1>3. Total(S, T1, U1) \in Nat /\ Total(S, T1, U1) <= Total(S, T, U) + 1
  <2>1. S \in SUBSET S
    OBVIOUS
  <2> QED BY <2>1, Leave
<1>4. /\ Cardinality(U1) \in Nat /\ Cardinality(U) \in Nat
      /\ Cardinality(U1) <= Cardinality(U) + 1
  BY CardMore
<1> QED BY <1>1, <1>2, <1>3, <1>4 DEF Few

(* While there is none, every handler may add one.                         *)
LEMMA FewNone ==
  ASSUME NEW S, NEW T, NEW U, IsFiniteSet(U), NEW T1 \in SUBSET Handlers,
         NEW n \in Int, Few(S, T, U, n)
  PROVE  Few({}, T1, U, n)
<1>1. /\ Cardinality(T1) \in Nat /\ Cardinality(Handlers) \in Nat
      /\ Cardinality(T1) <= Cardinality(Handlers)
  BY CardLess, ChatwootDeliveryAssumption
<1>2. Cardinality({}) = 0 /\ Cardinality(U) \in Nat
  BY FS_EmptySet, FS_CardinalityType
<1> QED BY <1>1, <1>2 DEF Few, Total

LEMMA OfAppend ==
  ASSUME NEW T, NEW s \in Seq(T), NEW y \in T, NEW x
  PROVE  /\ Of(Append(s, y), x) \subseteq Of(s, x) \cup {Len(s) + 1}
         /\ y # x => Of(Append(s, y), x) = Of(s, x)
<1>1. /\ Len(s) \in Nat /\ Len(Append(s, y)) = Len(s) + 1
      /\ Append(s, y)[Len(s) + 1] = y
      /\ \A i \in 1..Len(s) : Append(s, y)[i] = s[i]
  BY LenProperties, AppendProperties
<1> QED BY <1>1 DEF Of

LEMMA Finite ==
  ASSUME IInv, IsFiniteSet(late), NEW x
  PROVE  /\ IsFiniteSet(Of(contacts, x)) /\ IsFiniteSet(Of(convs, x)) /\ IsFiniteSet(Copies(x))
         /\ IsFiniteSet(Adding(x)) /\ IsFiniteSet(Opening(x)) /\ IsFiniteSet(Bringing(x))
         /\ IsFiniteSet(LateContacts(x)) /\ IsFiniteSet(LateConvs(x)) /\ IsFiniteSet(LatePosts(x))
<1>1. \A n \in Nat : IsFiniteSet(1..n)
  BY FS_Interval
<1>2. Len(contacts) \in Nat /\ Len(convs) \in Nat /\ Len(posts) \in Nat
  BY Lengths DEF IInv
<1>3. /\ Of(contacts, x) \in SUBSET (1..Len(contacts)) /\ Of(convs, x) \in SUBSET (1..Len(convs))
      /\ Copies(x) \in SUBSET (1..Len(posts))
  BY DEF Of, Copies
<1>4. IsFiniteSet(Handlers)
  BY ChatwootDeliveryAssumption
<1>5. Adding(x) \in SUBSET Handlers /\ Opening(x) \in SUBSET Handlers /\ Bringing(x) \in SUBSET Handlers
  BY DEF Adding, Opening, Bringing
<1>6. /\ LateContacts(x) \in SUBSET late /\ LateConvs(x) \in SUBSET late
      /\ LatePosts(x) \in SUBSET late
  BY DEF LateContacts, LateConvs, LatePosts
<1> QED BY <1>1, <1>2, <1>3, <1>4, <1>5, <1>6, FS_Subset

LEMMA UsedType == ASSUME Budgeted, NEW f \in Faults PROVE Used(f) \in Int
BY ChatwootDeliveryAssumption DEF Budgeted, Used

LEMMA SpendUsed ==
  ASSUME Budgeted, NEW f \in Faults, Spend(f), NEW e \in Faults
  PROVE  Used(e)' = IF e = f THEN Used(e) + 1 ELSE Used(e)
<1>1. budget[e] \in Nat /\ budget[f] \in Nat /\ Budget[e] \in Nat
  BY ChatwootDeliveryAssumption DEF Budgeted
<1>2. budget'[e] = IF e = f THEN budget[e] - 1 ELSE budget[e]
  BY DEF Budgeted, Spend
<1> QED BY <1>1, <1>2 DEF Used

(* What a step changes of a handler.                                       *)
OthersStay(h) == \A g \in Handlers \ {h} : call'[g] = call[g]

LEMMA StartMoves ==
  ASSUME IInv, NEW h \in Handlers, NEW j \in Jobs, Start(h, j)
  PROVE  /\ OthersStay(h) /\ call'[h].op = "search" /\ call'[h].answered = FALSE
         /\ call'[h].job = j /\ call'[h] # Idle
         /\ UNCHANGED <<contacts, convs, posts, late, job>>
         /\ IF Leased(j) THEN Spend("expire") ELSE UNCHANGED budget
BY DEF Start, OthersStay, IInv, Underway, Idle, chatwoot

LEMMA AnswerMoves ==
  ASSUME IInv, NEW h \in Handlers, NEW k, NEW v, NEW n, Answer(h, k, v, n), Running(h)
  PROVE  /\ OthersStay(h) /\ call'[h].answered = TRUE /\ call'[h].contact = k
         /\ call'[h].conv = v /\ call'[h].op = call[h].op /\ call'[h].job = call[h].job
<1>1. call[h] \in Calls
  BY RunningType DEF IInv
<1> QED BY <1>1 DEF Answer, OthersStay, IInv, Underway, Calls

LEMMA ProceedMoves ==
  ASSUME IInv, NEW h \in Handlers, Proceed(h)
  PROVE  /\ OthersStay(h) /\ call'[h].answered = FALSE /\ call'[h].contact = call[h].contact
         /\ call'[h].op = Following(call[h]) /\ call'[h].job = call[h].job
         /\ call[h].op \in {"search", "addContact", "listConvs", "addConv", "upload"}
         /\ call[h].answered
         /\ UNCHANGED <<contacts, convs, posts, late, job, budget>>
<1>1. call[h].answered /\ call[h] # Idle
  BY DEF Proceed, Idle
<1>2. call[h] \in Calls
  BY <1>1 DEF IInv, Underway
<1> QED BY <1>1, <1>2 DEF Proceed, OthersStay, IInv, Underway, Calls, Ops, chatwoot

LEMMA EndMoves ==
  ASSUME IInv, NEW h \in Handlers, Return(h) \/ Break(h) \/ Refuse(h) \/ Page(h)
  PROVE  /\ OthersStay(h) /\ call'[h] = Idle /\ Running(h) /\ call[h] \in Calls
         /\ UNCHANGED <<contacts, convs, posts>>
<1>1. Running(h)
  BY DEF Return, Break, Refuse, Page, Running
<1>2. End(h) /\ UNCHANGED <<contacts, convs, posts>>
  BY DEF Return, Break, Refuse, Page, chatwoot
<1>3. call'[h] = Idle /\ OthersStay(h)
  BY <1>2 DEF End, OthersStay, IInv, Underway
<1> QED BY <1>1, <1>2, <1>3, RunningType DEF IInv

(* The requests: what each is answered with.                               *)
LEMMA PerformedMoves ==
  ASSUME IInv, NEW h \in Handlers, Performed(h)
  PROVE  /\ OthersStay(h) /\ call'[h].answered = TRUE /\ ~call[h].answered /\ Running(h)
         /\ call'[h].op = call[h].op /\ call'[h].job = call[h].job /\ call[h] \in Calls
         /\ UNCHANGED <<late, job, budget>>
<1>1. Running(h) /\ ~call[h].answered /\ UNCHANGED <<late, job, budget>>
  BY DEF Performed, Search, AddContact, ListConvs, AddConv, Upload, Post, Sent, Running
<1>2. \E k, v, n : Answer(h, k, v, n)
  BY DEF Performed, Search, AddContact, ListConvs, AddConv, Upload, Post
<1> QED BY <1>1, <1>2, AnswerMoves, RunningType DEF IInv

-----------------------------------------------------------------------------
(* Contacts.                                                               *)

LEMMA AddingShrinks ==
  ASSUME NEW h \in Handlers, OthersStay(h), NEW u, Adds(call'[h], u) => Adds(call[h], u)
  PROVE  /\ Adding(u)' \subseteq Adding(u)
         /\ ~Adds(call'[h], u) => Adding(u)' \subseteq Adding(u) \ {h}
BY DEF Adding, OthersStay, Adds

LEMMA BreakUsed ==
  ASSUME IInv, IInv'
  PROVE  /\ Used("break") \in Int /\ Used("break")' \in Int
         /\ Used("expire") \in Int /\ Used("expire")' \in Int
         /\ UNCHANGED budget => Used("break")' = Used("break") /\ Used("expire")' = Used("expire")
         /\ Spend("expire") => Used("break")' = Used("break") /\ Used("expire")' = Used("expire") + 1
         /\ Spend("reject") => Used("break")' = Used("break") /\ Used("expire")' = Used("expire")
         /\ Spend("break") => Used("break")' = Used("break") + 1 /\ Used("expire")' = Used("expire")
<1>1. /\ Used("break") \in Int /\ Used("break")' \in Int
      /\ Used("expire") \in Int /\ Used("expire")' \in Int
  BY ChatwootDeliveryAssumption DEF IInv, Faults, Budgeted, Used
<1>2. /\ UNCHANGED budget => Used("break")' = Used("break") /\ Used("expire")' = Used("expire")
  BY DEF Used
<1> QED BY <1>1, <1>2, SpendUsed DEF IInv, Faults

LEMMA ContactsStep ==
  ASSUME IInv, IInv', IsFiniteSet(late), NEW u \in Users, ContactsFew(u), [Next]_vars
  PROVE  ContactsFew(u)'
<1> DEFINE S == Of(contacts, u)   T == Adding(u)   U == LateContacts(u)   n == Used("break")
<1>1. /\ IsFiniteSet(S) /\ IsFiniteSet(T) /\ IsFiniteSet(U) /\ n \in Int /\ n' \in Int
      /\ Few(S, T, U, n)
  BY Finite, BreakUsed DEF ContactsFew
<1>2. /\ UNCHANGED contacts => S' = S
      /\ UNCHANGED late => U' = U
      /\ UNCHANGED call => T' = T
  BY DEF Of, LateContacts, Adding
<1> SUFFICES Few(S', T', U', n')
  BY DEF ContactsFew, Few, Total
<1> HIDE DEF S, T, U, n
<1>3. CASE UNCHANGED vars
  <2>1. S' = S /\ T' = T /\ U' = U /\ n' = n
    BY <1>2, <1>3 DEF vars, chatwoot, n, Used
  <2> QED BY <1>1, <2>1
<1>4. ASSUME NEW h \in Handlers, NEW j \in Jobs, Start(h, j) PROVE Few(S', T', U', n')
  <2>1. /\ ~Adds(call'[h], u) /\ OthersStay(h)
        /\ UNCHANGED contacts /\ UNCHANGED late
        /\ IF Leased(j) THEN Spend("expire") ELSE UNCHANGED budget
    BY <1>4, StartMoves DEF Adds
  <2>2. n' = n
    BY <2>1, BreakUsed DEF n
  <2>3. T' \subseteq T
    BY <2>1, AddingShrinks DEF T
  <2> QED BY <1>1, <1>2, <2>1, <2>2, <2>3, FewLess
<1>5. ASSUME NEW h \in Handlers, Performed(h) PROVE Few(S', T', U', n')
  <2>1. /\ OthersStay(h) /\ call'[h].answered = TRUE /\ ~call[h].answered /\ Running(h)
        /\ call'[h].op = call[h].op /\ call'[h].job = call[h].job /\ call[h] \in Calls
        /\ UNCHANGED late /\ UNCHANGED budget
    BY <1>5, PerformedMoves
  <2>2. U' = U /\ n' = n
    BY <1>2, <2>1, BreakUsed DEF n
  <2>3. CASE Search(h) /\ Adds(call'[h], u)
    <3>1. PICK k \in IF Found(Sender[call[h].job]) = {} THEN {0} ELSE Found(Sender[call[h].job]) :
            Answer(h, k, 0, call[h].left)
      BY <2>3 DEF Search
    <3>2. k = 0 /\ Sender[call[h].job] = u
      BY <2>1, <2>3, <3>1, AnswerMoves DEF Adds
    <3>3. Len(contacts) \in Nat
      BY Lengths DEF IInv
    <3>4. Found(u) = {}
      BY <3>1, <3>2, <3>3 DEF Found
    <3>5. S' = {}
      BY <2>3, <3>4 DEF Found, S, Of, Search, chatwoot
    <3>6. T' \subseteq Handlers
      BY DEF T, Adding
    <3> QED BY <1>1, <2>2, <3>5, <3>6, FewNone
  <2>4. CASE AddContact(h)
    <3>1. contacts' = Append(contacts, Sender[call[h].job]) /\ call[h].op = "addContact"
      BY <2>4 DEF AddContact, Sent
    <3>2. Sender[call[h].job] \in Users /\ contacts \in Seq(Users)
      BY <2>1, SenderType DEF Calls, IInv, Kept
    <3>3. ~Adds(call'[h], u)
      BY <2>1, <3>1 DEF Adds
    <3>4. T' \subseteq T \ {h}
      BY <2>1, <3>3, AddingShrinks DEF T
    <3>5. CASE Sender[call[h].job] = u
      <4>1. h \in T
        BY <2>1, <3>1, <3>5 DEF T, Adding, Adds
      <4>2. S' \subseteq S \cup {Len(contacts) + 1}
        BY <3>1, <3>2, OfAppend DEF S, Of
      <4>3. PICK x : S' \in SUBSET (S \cup {x})
        BY <4>2
      <4>5. T' \in SUBSET (T \ {h})
        BY <3>4
      <4>4. Few(S', T', U, n)
        BY <1>1, <4>1, <4>3, <4>5, FewFulfil
      <4> QED BY <2>2, <4>4
    <3>6. CASE Sender[call[h].job] # u
      <4>1. S' = S
        BY <3>1, <3>2, <3>6, OfAppend DEF S, Of
      <4> QED BY <1>1, <2>2, <3>4, <4>1, FewLess
    <3> QED BY <3>5, <3>6
  <2>5. CASE ~AddContact(h) /\ ~(Search(h) /\ Adds(call'[h], u))
    <3>1. UNCHANGED contacts /\ ~Adds(call'[h], u)
      BY <1>5, <2>1, <2>5 DEF Performed, Search, ListConvs, AddConv, Upload, Post, chatwoot, Adds, Sent
    <3>2. T' \subseteq T
      BY <2>1, <3>1, AddingShrinks DEF T
    <3> QED BY <1>1, <1>2, <2>2, <3>1, <3>2, FewLess
  <2> QED BY <2>3, <2>4, <2>5
<1>6. ASSUME NEW h \in Handlers, Proceed(h) PROVE Few(S', T', U', n')
  <2>1. /\ Adds(call'[h], u) => Adds(call[h], u)
        /\ OthersStay(h) /\ UNCHANGED contacts /\ UNCHANGED late /\ UNCHANGED budget
    BY <1>6, ProceedMoves DEF Adds, Following, Content
  <2>2. T' \subseteq T /\ n' = n
    BY <2>1, AddingShrinks, BreakUsed DEF T, n
  <2> QED BY <1>1, <1>2, <2>1, <2>2, FewLess
<1>7. ASSUME NEW h \in Handlers, Return(h) \/ Break(h) \/ Refuse(h) \/ Page(h)
      PROVE  Few(S', T', U', n')
  <2>1. OthersStay(h) /\ ~Adds(call'[h], u) /\ UNCHANGED contacts
    BY <1>7, EndMoves DEF Adds, Idle
  <2>2. S' = S /\ T' \subseteq T
    BY <1>2, <2>1, AddingShrinks DEF T
  <2>3. CASE Break(h)
    <3>1. n' = n + 1
      BY <2>3, BreakUsed DEF Break, n
    <3>2. \E x : U' \subseteq U \cup {x}
      BY <2>3 DEF Break, U, LateContacts
    <3> QED BY <1>1, <2>2, <3>1, <3>2, FewLeave
  <2>4. CASE ~Break(h)
    <3>1. UNCHANGED late /\ (UNCHANGED budget \/ Spend("reject"))
      BY <1>7, <2>4 DEF Return, Refuse, Page
    <3>2. n' = n
      BY <3>1, BreakUsed DEF n
    <3> QED BY <1>1, <1>2, <2>2, <3>1, <3>2, FewLess
  <2> QED BY <2>3, <2>4
<1>8. CASE PerformLate
  <2>1. PICK r \in late :
          /\ late' = late \ {r}
          /\ contacts' = IF r.op = "addContact" THEN Append(contacts, Sender[r.job]) ELSE contacts
    BY <1>8 DEF PerformLate
  <2>2. T' = T /\ n' = n /\ U' \subseteq U
    BY <1>2, <1>8, <2>1, BreakUsed DEF PerformLate, U, LateContacts, n
  <2>3. r \in Calls /\ Sender[r.job] \in Users /\ contacts \in Seq(Users)
    BY SenderType DEF IInv, Underway, Calls, Kept
  <2>4. CASE r.op = "addContact" /\ Sender[r.job] = u
    <3>1. r \in U /\ U' \subseteq U \ {r}
      BY <2>1, <2>4 DEF U, LateContacts
    <3>2. Of(Append(contacts, Sender[r.job]), u) \subseteq S \cup {Len(contacts) + 1}
      BY <2>3, OfAppend, Zenon DEF S
    <3>3. contacts' = Append(contacts, Sender[r.job])
      BY <2>1, <2>4
    <3>4. S' = Of(Append(contacts, Sender[r.job]), u)
      BY <3>3 DEF S, Of
    <3>5. \E x : S' \in SUBSET (S \cup {x})
      BY <3>2, <3>4, Zenon
    <3>6. U' \in SUBSET (U \ {r})
      BY <3>1
    <3>7. Few(S', T, U', n)
      BY <1>1, <3>1, <3>5, <3>6, FewFulfilLate, Zenon
    <3> QED BY <2>2, <3>7
  <2>5. CASE ~(r.op = "addContact" /\ Sender[r.job] = u)
    <3>1. S' = S
      BY <1>2, <2>1, <2>3, <2>5, OfAppend DEF S, Of
    <3> QED BY <1>1, <2>2, <3>1, FewLess
  <2> QED BY <2>4, <2>5
<1> QED BY <1>3, <1>4, <1>5, <1>6, <1>7, <1>8 DEF Next

-----------------------------------------------------------------------------
(* Conversations.                                                          *)

LEMMA OpeningShrinks ==
  ASSUME NEW h \in Handlers, OthersStay(h), NEW v, Opens(call'[h], v) => Opens(call[h], v)
  PROVE  /\ Opening(v)' \subseteq Opening(v)
         /\ ~Opens(call'[h], v) => Opening(v)' \subseteq Opening(v) \ {h}
BY DEF Opening, OthersStay, Opens

LEMMA ConvsStep ==
  ASSUME IInv, IInv', IsFiniteSet(late), NEW v \in Nat, ConvsFew(v), [Next]_vars
  PROVE  ConvsFew(v)'
<1> DEFINE S == Of(convs, v)   T == Opening(v)   U == LateConvs(v)   n == Used("break")
<1>1. /\ IsFiniteSet(S) /\ IsFiniteSet(T) /\ IsFiniteSet(U) /\ n \in Int /\ n' \in Int
      /\ Few(S, T, U, n)
  BY Finite, BreakUsed DEF ConvsFew
<1>2. /\ UNCHANGED convs => S' = S
      /\ UNCHANGED late => U' = U
      /\ UNCHANGED call => T' = T
  BY DEF Of, LateConvs, Opening
<1> SUFFICES Few(S', T', U', n')
  BY DEF ConvsFew, Few, Total
<1> HIDE DEF S, T, U, n
<1>3. CASE UNCHANGED vars
  <2>1. S' = S /\ T' = T /\ U' = U /\ n' = n
    BY <1>2, <1>3 DEF vars, chatwoot, n, Used
  <2> QED BY <1>1, <2>1
<1>4. ASSUME NEW h \in Handlers, NEW j \in Jobs, Start(h, j) PROVE Few(S', T', U', n')
  <2>1. /\ ~Opens(call'[h], v) /\ OthersStay(h)
        /\ UNCHANGED convs /\ UNCHANGED late
        /\ IF Leased(j) THEN Spend("expire") ELSE UNCHANGED budget
    BY <1>4, StartMoves DEF Opens
  <2>2. n' = n
    BY <2>1, BreakUsed DEF n
  <2>3. T' \subseteq T
    BY <2>1, OpeningShrinks DEF T
  <2> QED BY <1>1, <1>2, <2>1, <2>2, <2>3, FewLess
<1>5. ASSUME NEW h \in Handlers, Performed(h) PROVE Few(S', T', U', n')
  <2>1. /\ OthersStay(h) /\ call'[h].answered = TRUE /\ ~call[h].answered /\ Running(h)
        /\ call'[h].op = call[h].op /\ call[h] \in Calls
        /\ UNCHANGED late /\ UNCHANGED budget
    BY <1>5, PerformedMoves
  <2>2. U' = U /\ n' = n
    BY <1>2, <2>1, BreakUsed DEF n
  <2>3. /\ Len(convs) \in Nat /\ Len(contacts) \in Nat /\ convs \in Seq(Nat)
        /\ \A i \in 1..Len(convs) : convs[i] \in 1..Len(contacts)
    BY Lengths DEF IInv, Kept
  <2>4. CASE (AddContact(h) \/ ListConvs(h)) /\ Opens(call'[h], v)
    <3>1. S = {}
      <4>1. CASE AddContact(h)
        <5>1. call'[h].contact = Len(contacts) + 1
          BY <2>1, <4>1, AnswerMoves DEF AddContact
        <5>2. v = Len(contacts) + 1
          BY <2>4, <5>1 DEF Opens
        <5> QED BY <2>3, <5>2 DEF S, Of
      <4>2. CASE ListConvs(h)
        <5>1. PICK k \in IF Of(convs, call[h].contact) = {} THEN {0} ELSE Of(convs, call[h].contact) :
                Answer(h, call[h].contact, k, call[h].left)
          BY <4>2 DEF ListConvs
        <5>2. call'[h].contact = call[h].contact /\ call'[h].conv = k /\ call'[h].op = "listConvs"
          BY <2>1, <4>2, <5>1, AnswerMoves DEF ListConvs, Sent
        <5>3. v = call[h].contact /\ k = 0
          BY <2>4, <5>2 DEF Opens
        <5> QED BY <2>3, <5>1, <5>3 DEF S, Of
      <4> QED BY <2>4, <4>1, <4>2
    <3>2. S' = {}
      BY <1>2, <2>4, <3>1 DEF AddContact, ListConvs, chatwoot
    <3>3. T' \subseteq Handlers
      BY DEF T, Opening
    <3> QED BY <1>1, <2>2, <3>2, <3>3, FewNone
  <2>5. CASE AddConv(h)
    <3>1. convs' = Append(convs, call[h].contact) /\ call[h].op = "addConv" /\ call[h].contact \in Nat
      BY <2>1, <2>5 DEF AddConv, Sent, Calls
    <3>2. ~Opens(call'[h], v)
      BY <2>1, <3>1 DEF Opens
    <3>3. T' \subseteq T \ {h}
      BY <2>1, <3>2, OpeningShrinks DEF T
    <3>4. CASE call[h].contact = v
      <4>1. h \in T
        BY <2>1, <3>1, <3>4 DEF T, Opening, Opens
      <4>2. S' \subseteq S \cup {Len(convs) + 1}
        BY <2>3, <3>1, OfAppend DEF S, Of
      <4>3. PICK x : S' \in SUBSET (S \cup {x})
        BY <4>2
      <4>4. T' \in SUBSET (T \ {h})
        BY <3>3
      <4>5. Few(S', T', U, n)
        BY <1>1, <4>1, <4>3, <4>4, FewFulfil
      <4> QED BY <2>2, <4>5
    <3>5. CASE call[h].contact # v
      <4>1. S' = S
        BY <2>3, <3>1, <3>5, OfAppend DEF S, Of
      <4> QED BY <1>1, <2>2, <3>3, <4>1, FewLess
    <3> QED BY <3>4, <3>5
  <2>6. CASE ~AddConv(h) /\ ~((AddContact(h) \/ ListConvs(h)) /\ Opens(call'[h], v))
    <3>1. UNCHANGED convs /\ ~Opens(call'[h], v)
      BY <1>5, <2>1, <2>6
         DEF Performed, Search, AddContact, ListConvs, Upload, Post, chatwoot, Opens, Sent
    <3>2. T' \subseteq T
      BY <2>1, <3>1, OpeningShrinks DEF T
    <3> QED BY <1>1, <1>2, <2>2, <3>1, <3>2, FewLess
  <2> QED BY <2>4, <2>5, <2>6
<1>6. ASSUME NEW h \in Handlers, Proceed(h) PROVE Few(S', T', U', n')
  <2>1. /\ Opens(call'[h], v) => Opens(call[h], v)
        /\ OthersStay(h) /\ UNCHANGED convs /\ UNCHANGED late /\ UNCHANGED budget
    BY <1>6, ProceedMoves DEF Opens, Following, Content
  <2>2. T' \subseteq T /\ n' = n
    BY <2>1, OpeningShrinks, BreakUsed DEF T, n
  <2> QED BY <1>1, <1>2, <2>1, <2>2, FewLess
<1>7. ASSUME NEW h \in Handlers, Return(h) \/ Break(h) \/ Refuse(h) \/ Page(h)
      PROVE  Few(S', T', U', n')
  <2>1. OthersStay(h) /\ ~Opens(call'[h], v) /\ UNCHANGED convs
    BY <1>7, EndMoves DEF Opens, Idle
  <2>2. S' = S /\ T' \subseteq T
    BY <1>2, <2>1, OpeningShrinks DEF T
  <2>3. CASE Break(h)
    <3>1. n' = n + 1
      BY <2>3, BreakUsed DEF Break, n
    <3>2. \E x : U' \subseteq U \cup {x}
      BY <2>3 DEF Break, U, LateConvs
    <3> QED BY <1>1, <2>2, <3>1, <3>2, FewLeave
  <2>4. CASE ~Break(h)
    <3>1. UNCHANGED late /\ (UNCHANGED budget \/ Spend("reject"))
      BY <1>7, <2>4 DEF Return, Refuse, Page
    <3>2. n' = n
      BY <3>1, BreakUsed DEF n
    <3> QED BY <1>1, <1>2, <2>2, <3>1, <3>2, FewLess
  <2> QED BY <2>3, <2>4
<1>8. CASE PerformLate
  <2>1. PICK r \in late :
          /\ late' = late \ {r}
          /\ convs' = IF r.op = "addConv" THEN Append(convs, r.contact) ELSE convs
    BY <1>8 DEF PerformLate
  <2>2. T' = T /\ n' = n /\ U' \subseteq U
    BY <1>2, <1>8, <2>1, BreakUsed DEF PerformLate, U, LateConvs, n
  <2>3. r.contact \in Nat /\ convs \in Seq(Nat)
    BY DEF IInv, Underway, Calls, Kept
  <2>4. CASE r.op = "addConv" /\ r.contact = v
    <3>1. r \in U /\ U' \subseteq U \ {r}
      BY <2>1, <2>4 DEF U, LateConvs
    <3>2. Of(Append(convs, r.contact), v) \subseteq S \cup {Len(convs) + 1}
      BY <2>3, OfAppend, Zenon DEF S
    <3>3. convs' = Append(convs, r.contact)
      BY <2>1, <2>4
    <3>4. S' = Of(Append(convs, r.contact), v)
      BY <3>3 DEF S, Of
    <3>5. \E x : S' \in SUBSET (S \cup {x})
      BY <3>2, <3>4, Zenon
    <3>6. U' \in SUBSET (U \ {r})
      BY <3>1
    <3>7. Few(S', T, U', n)
      BY <1>1, <3>1, <3>5, <3>6, FewFulfilLate, Zenon
    <3> QED BY <2>2, <3>7
  <2>5. CASE ~(r.op = "addConv" /\ r.contact = v)
    <3>1. S' = S
      BY <1>2, <2>1, <2>3, <2>5, OfAppend DEF S, Of
    <3> QED BY <1>1, <2>2, <3>1, FewLess
  <2> QED BY <2>4, <2>5
<1> QED BY <1>3, <1>4, <1>5, <1>6, <1>7, <1>8 DEF Next

-----------------------------------------------------------------------------
(* Posts.                                                                  *)

LEMMA BringingShrinks ==
  ASSUME NEW h \in Handlers, OthersStay(h), NEW j
  PROVE  /\ Bringing(j)' \subseteq Bringing(j) \cup {h}
         /\ (Brings(call'[h], j) => Brings(call[h], j)) => Bringing(j)' \subseteq Bringing(j)
         /\ ~Brings(call'[h], j) => Bringing(j)' \subseteq Bringing(j) \ {h}
BY DEF Bringing, OthersStay, Brings

(* A message that nobody works on is not free again by a step of a handler *)
(* that works on another.                                                  *)
LEMMA FreeStays ==
  ASSUME NEW h \in Handlers, OthersStay(h), NEW j \in Jobs, UNCHANGED job,
         call[h].job = j => call'[h].job = j
  PROVE  Free(j)' <= Free(j)
<1>1. Leased(j) => Leased(j)'
  BY DEF Leased, OthersStay
<1> QED BY <1>1 DEF Free

LEMMA CopiesAppend ==
  ASSUME Kept, NEW p \in [job : Jobs, conv : Nat], posts' = Append(posts, p), NEW j
  PROVE  /\ \E x : Copies(j)' \subseteq Copies(j) \cup {x}
         /\ p.job # j => Copies(j)' = Copies(j)
<1>1. /\ Len(posts) \in Nat /\ Len(posts') = Len(posts) + 1
      /\ posts'[Len(posts) + 1] = p
      /\ \A i \in 1..Len(posts) : posts'[i] = posts[i]
  BY LenProperties, AppendProperties DEF Kept
<1>2. Copies(j)' \subseteq Copies(j) \cup {Len(posts) + 1}
  BY <1>1 DEF Copies
<1>3. p.job # j => Copies(j)' = Copies(j)
  BY <1>1 DEF Copies
<1> QED BY <1>2, <1>3

LEMMA PostsStep ==
  ASSUME IInv, IInv', IsFiniteSet(late), NEW j \in Jobs, PostsFew(j), [Next]_vars
  PROVE  PostsFew(j)'
<1> DEFINE S == Copies(j)   T == Bringing(j)   U == LatePosts(j)
           n == 1 + Used("break") + Used("expire")
<1>1. /\ IsFiniteSet(S) /\ IsFiniteSet(T) /\ IsFiniteSet(U) /\ n \in Int /\ n' \in Int
      /\ Total(S, T, U) + Free(j) <= n /\ Total(S, T, U) \in Nat
      /\ Free(j) \in {0, 1} /\ Free(j)' \in {0, 1}
  <2>1. IsFiniteSet(S) /\ IsFiniteSet(T) /\ IsFiniteSet(U)
    BY Finite
  <2>2. Total(S, T, U) \in Nat
    BY <2>1, FS_CardinalityType DEF Total
  <2>3. n \in Int /\ n' \in Int
    BY BreakUsed
  <2> QED BY <2>1, <2>2, <2>3 DEF PostsFew, Free
<1>2. /\ UNCHANGED posts => S' = S
      /\ UNCHANGED late => U' = U
      /\ UNCHANGED call => T' = T
      /\ UNCHANGED <<call, job>> => Free(j)' = Free(j)
      /\ UNCHANGED budget => n' = n
      /\ Spend("expire") => n' = n + 1
      /\ Spend("reject") => n' = n
      /\ Spend("break") => n' = n + 1
  <2>1. /\ UNCHANGED budget => n' = n
        /\ Spend("expire") => n' = n + 1
        /\ Spend("reject") => n' = n
        /\ Spend("break") => n' = n + 1
    BY BreakUsed
  <2> QED BY <2>1 DEF Copies, LatePosts, Bringing, Free, Leased
<1> SUFFICES Total(S', T', U') + Free(j)' <= n'
  BY DEF PostsFew, Total
<1> HIDE DEF S, T, U, n
<1>3. ASSUME S' \subseteq S, T' \subseteq T, U' \subseteq U, Free(j)' <= Free(j), n' >= n
      PROVE  Total(S', T', U') + Free(j)' <= n'
  <2>1. Total(S', T', U') \in Nat /\ Total(S', T', U') <= Total(S, T, U)
    BY <1>1, <1>3, Steady
  <2> QED BY <1>1, <1>3, <2>1
<1>4. CASE UNCHANGED vars
  <2>1. S' = S /\ T' = T /\ U' = U /\ n' = n /\ Free(j)' = Free(j)
    BY <1>2, <1>4 DEF vars, chatwoot
  <2> QED BY <1>1, <2>1
<1>5. ASSUME NEW h \in Handlers, NEW i \in Jobs, Start(h, i)
      PROVE  Total(S', T', U') + Free(j)' <= n'
  <2>1. /\ OthersStay(h) /\ call'[h].job = i
        /\ UNCHANGED posts /\ UNCHANGED late /\ UNCHANGED job
        /\ IF Leased(i) THEN Spend("expire") ELSE UNCHANGED budget
    BY <1>5, StartMoves
  <2>2. CASE i = j
    <3>1. Free(j)' = 0
      BY <2>1, <2>2 DEF Free, Leased
    <3>2. IF Leased(j) THEN n' = n + 1 ELSE n' = n /\ Free(j) = 1
      BY <1>2, <1>5, <2>1, <2>2 DEF Start, Free
    <3>3. T' \subseteq T \cup {h}
      BY <2>1, BringingShrinks DEF T
    <3>4. Total(S', T', U') \in Nat /\ Total(S', T', U') <= Total(S, T, U) + 1
      <4>1. Total(S', T', U') = Total(S, U, T') /\ Total(S, T, U) = Total(S, U, T)
        <5>1. /\ Cardinality(S) \in Nat /\ Cardinality(T) \in Nat /\ Cardinality(U) \in Nat
              /\ Cardinality(T') \in Nat
          BY <1>1, <3>3, FS_CardinalityType, CardMore
        <5> QED BY <1>2, <2>1, <5>1 DEF Total
      <4>2. S \in SUBSET S /\ U \in SUBSET U /\ T' \in SUBSET (T \cup {h})
        BY <3>3
      <4>3. Total(S, U, T') \in Nat /\ Total(S, U, T') <= Total(S, U, T) + 1
        BY <1>1, <4>2, Leave
      <4> QED BY <4>1, <4>3
    <3> QED BY <1>1, <3>1, <3>2, <3>4
  <2>3. CASE i # j
    <3>1. ~Brings(call'[h], j)
      BY <2>1, <2>3 DEF Brings
    <3>2. T' \subseteq T
      BY <2>1, <3>1, BringingShrinks DEF T
    <3>3. call[h].job # j
      <4>1. call[h].op = "none"
        BY <1>5 DEF Start, Running
      <4>2. call[h] = Idle
        BY <4>1 DEF IInv, Underway, Calls, Ops
      <4> QED BY <4>2, ChatwootDeliveryAssumption DEF Idle
    <3>4. Free(j)' <= Free(j)
      BY <2>1, <3>3, FreeStays
    <3>5. n' >= n
      BY <1>1, <1>2, <2>1
    <3> QED BY <1>2, <1>3, <2>1, <3>2, <3>4, <3>5
  <2> QED BY <2>2, <2>3
<1>6. ASSUME NEW h \in Handlers, Performed(h) PROVE Total(S', T', U') + Free(j)' <= n'
  <2>1. /\ OthersStay(h) /\ call'[h].answered = TRUE /\ ~call[h].answered /\ Running(h)
        /\ call'[h].op = call[h].op /\ call'[h].job = call[h].job /\ call[h] \in Calls
        /\ UNCHANGED late /\ UNCHANGED budget /\ UNCHANGED job
    BY <1>6, PerformedMoves
  <2>2. U' = U /\ n' = n /\ Free(j)' <= Free(j)
    BY <1>2, <2>1, FreeStays
  <2>3. T' \subseteq T
    BY <2>1, BringingShrinks DEF T, Brings
  <2>4. CASE Post(h)
    <3> DEFINE p == [job |-> call[h].job, conv |-> call[h].conv]
    <3>1. posts' = Append(posts, p) /\ call[h].op = "post"
      BY <2>4 DEF Post, Sent
    <3>2. p \in [job : Jobs, conv : Nat] /\ p.job = call[h].job
      BY <2>1 DEF Calls
    <3> HIDE DEF p
    <3>3. CASE call[h].job = j
      <4>1. h \in T
        BY <2>1, <3>1, <3>3 DEF T, Bringing, Brings
      <4>2. T' \in SUBSET (T \ {h})
        BY <2>1, <3>1, BringingShrinks DEF T, Brings
      <4>3. PICK x : S' \in SUBSET (S \cup {x})
        BY <3>1, <3>2, CopiesAppend DEF S, IInv
      <4>4. U \in SUBSET U
        OBVIOUS
      <4>5. Total(S', T', U) \in Nat /\ Total(S', T', U) <= Total(S, T, U)
        BY <1>1, <4>1, <4>2, <4>3, <4>4, Fulfil
      <4> QED BY <1>1, <2>2, <4>5
    <3>4. CASE call[h].job # j
      <4>1. S' = S
        BY <3>1, <3>2, <3>4, CopiesAppend DEF S, IInv
      <4> QED BY <1>1, <1>3, <2>2, <2>3, <4>1
    <3> QED BY <3>3, <3>4
  <2>5. CASE ~Post(h)
    <3>1. UNCHANGED posts
      BY <1>6, <2>5 DEF Performed, Search, AddContact, ListConvs, AddConv, Upload, chatwoot
    <3> QED BY <1>1, <1>2, <1>3, <2>2, <2>3, <3>1
  <2> QED BY <2>4, <2>5
<1>7. ASSUME NEW h \in Handlers, Proceed(h) PROVE Total(S', T', U') + Free(j)' <= n'
  <2>1. /\ OthersStay(h) /\ call'[h].job = call[h].job /\ (Brings(call'[h], j) => Brings(call[h], j))
        /\ UNCHANGED posts /\ UNCHANGED late /\ UNCHANGED job /\ UNCHANGED budget
    BY <1>7, ProceedMoves DEF Brings
  <2>2. T' \subseteq T /\ Free(j)' <= Free(j)
    BY <2>1, BringingShrinks, FreeStays DEF T
  <2> QED BY <1>1, <1>2, <1>3, <2>1, <2>2
<1>8. ASSUME NEW h \in Handlers, Return(h) \/ Refuse(h) \/ Page(h)
      PROVE  Total(S', T', U') + Free(j)' <= n'
  <2>1. OthersStay(h) /\ call'[h] = Idle /\ UNCHANGED posts /\ ~Brings(call'[h], j)
    <3>1. OthersStay(h) /\ call'[h] = Idle /\ UNCHANGED posts
      BY <1>8, EndMoves
    <3> QED BY <3>1 DEF Brings, Idle
  <2>2. T' \subseteq T
    BY <2>1, BringingShrinks DEF T
  <2>3. /\ UNCHANGED late /\ (UNCHANGED budget \/ Spend("reject"))
        /\ Settle(call[h].job, "done") \/ Settle(call[h].job, "archived")
    BY <1>8 DEF Return, Refuse, Page
  <2>4. Free(j)' <= Free(j)
    <3>1. CASE call[h].job = j
      <4>1. job'[j] # "queued"
        BY <2>3, <3>1 DEF Settle, IInv, Finished
      <4> QED BY <4>1 DEF Free
    <3>2. CASE call[h].job # j
      <4>1. job'[j] = job[j]
        BY <2>3, <3>2 DEF Settle, IInv, Finished
      <4>2. Leased(j) => Leased(j)'
        BY <2>1, <3>2 DEF Leased, OthersStay
      <4> QED BY <4>1, <4>2 DEF Free
    <3> QED BY <3>1, <3>2
  <2> QED BY <1>1, <1>2, <1>3, <2>1, <2>2, <2>3, <2>4
<1>9. ASSUME NEW h \in Handlers, Break(h) PROVE Total(S', T', U') + Free(j)' <= n'
  <2>1. OthersStay(h) /\ call'[h] = Idle /\ UNCHANGED posts /\ ~Brings(call'[h], j) /\ call[h] \in Calls
    <3>1. OthersStay(h) /\ call'[h] = Idle /\ UNCHANGED posts /\ call[h] \in Calls
      BY <1>9, EndMoves
    <3> QED BY <3>1 DEF Brings, Idle
  <2>2. T' \subseteq T \ {h}
    BY <2>1, BringingShrinks DEF T
  <2>3. n' = n + 1 /\ UNCHANGED job
    BY <1>2, <1>9 DEF Break
  <2> DEFINE r == [call[h] EXCEPT !.left = budget["break"]]
  <2>4. /\ late' = late \/ (late' = late \cup {r} /\ ~call[h].answered)
        /\ r.op = call[h].op /\ r.job = call[h].job
    BY <1>9, <2>1 DEF Break, Calls
  <2> HIDE DEF r
  <2>5. CASE call[h].job = j
    <3>1. Free(j) = 0
      BY <2>5 DEF Free, Leased
    <3>2. Total(S', T', U') \in Nat /\ Total(S', T', U') <= Total(S, T, U)
      <4>1. CASE U' \subseteq U
        <5>1. S' \in SUBSET S /\ T' \in SUBSET T /\ U' \in SUBSET U
          BY <1>2, <2>1, <2>2, <4>1
        <5> QED BY <1>1, <5>1, Steady
      <4>2. CASE ~(U' \subseteq U)
        <5>1. r.op = "post" /\ ~call[h].answered /\ U' \in SUBSET (U \cup {r})
          BY <2>4, <4>2 DEF U, LatePosts
        <5>2. h \in T
          BY <2>4, <2>5, <5>1 DEF T, Bringing, Brings
        <5>3. S' \in SUBSET S /\ T' \in SUBSET T /\ h \notin T'
          BY <1>2, <2>1, <2>2
        <5> QED BY <1>1, <5>1, <5>2, <5>3, Leave
      <4> QED BY <4>1, <4>2
    <3> QED BY <1>1, <2>3, <3>1, <3>2
  <2>6. CASE call[h].job # j
    <3>1. U' \subseteq U
      BY <2>4, <2>6 DEF U, LatePosts
    <3>2. Free(j)' <= Free(j)
      BY <2>1, <2>3, <2>6, FreeStays
    <3> QED BY <1>1, <1>2, <1>3, <2>1, <2>2, <2>3, <3>1, <3>2
  <2> QED BY <2>5, <2>6
<1>10. CASE PerformLate
  <2>1. PICK r \in late :
          /\ late' = late \ {r}
          /\ posts' = IF r.op = "post" THEN Append(posts, [job |-> r.job, conv |-> r.conv]) ELSE posts
    BY <1>10 DEF PerformLate
  <2>2. T' = T /\ n' = n /\ Free(j)' = Free(j) /\ U' \subseteq U
    BY <1>2, <1>10, <2>1 DEF PerformLate, U, LatePosts
  <2> DEFINE p == [job |-> r.job, conv |-> r.conv]
  <2>3. p \in [job : Jobs, conv : Nat] /\ p.job = r.job
    BY DEF IInv, Underway, Calls
  <2>4. posts' = IF r.op = "post" THEN Append(posts, p) ELSE posts
    BY <2>1
  <2> HIDE DEF p
  <2>5. CASE r.op = "post" /\ r.job = j
    <3>1. r \in U /\ U' \in SUBSET (U \ {r})
      BY <2>1, <2>5 DEF U, LatePosts
    <3>2. PICK x : S' \in SUBSET (S \cup {x})
      BY <2>3, <2>4, <2>5, CopiesAppend DEF S, IInv
    <3>3. T \in SUBSET T
      OBVIOUS
    <3>4. Total(S', T, U') \in Nat /\ Total(S', T, U') <= Total(S, T, U)
      BY <1>1, <3>1, <3>2, <3>3, FulfilLate
    <3> QED BY <1>1, <2>2, <3>4
  <2>6. CASE ~(r.op = "post" /\ r.job = j)
    <3>1. S' = S
      BY <1>2, <2>3, <2>4, <2>6, CopiesAppend DEF S, IInv
    <3> QED BY <1>1, <1>3, <2>2, <3>1
  <2> QED BY <2>5, <2>6
<1> QED BY <1>4, <1>5, <1>6, <1>7, <1>8, <1>9, <1>10 DEF Next

-----------------------------------------------------------------------------
CInv == IInv /\ Counted

LEMMA CountedInit == Init => Counted
<1> SUFFICES ASSUME Init PROVE Counted
  OBVIOUS
<1> USE FS_EmptySet
<1>1. /\ contacts \in Known /\ convs = <<>> /\ posts = <<>> /\ late = {}
      /\ call = [h \in Handlers |-> Idle] /\ budget = Budget /\ job = [j \in Jobs |-> "queued"]
  BY DEF Init
<1>2. Used("break") = 0 /\ Used("expire") = 0
  BY <1>1, ChatwootDeliveryAssumption DEF Used, Faults
<1>3. ASSUME NEW x
      PROVE  /\ LateContacts(x) = {} /\ LateConvs(x) = {} /\ LatePosts(x) = {}
             /\ Adding(x) = {} /\ Opening(x) = {} /\ Bringing(x) = {}
             /\ Of(convs, x) = {} /\ Copies(x) = {}
  BY <1>1 DEF LateContacts, LateConvs, LatePosts, Adding, Opening, Bringing, Adds, Opens, Brings,
              Idle, Of, Copies
<1>4. Cardinality(Handlers) \in Nat /\ Cardinality(Handlers) >= 1
  BY FS_CardinalityType, ChatwootDeliveryAssumption
<1>5. ASSUME NEW u \in Users PROVE ContactsFew(u)
  <2>1. Of(contacts, u) = {} \/ \E i \in Of(contacts, u) : Of(contacts, u) = {i}
    <3>1. \A i, k \in Of(contacts, u) : i = k
      BY <1>1, ChatwootDeliveryAssumption DEF Of
    <3> QED BY <3>1
  <2>2. Cardinality(Of(contacts, u)) \in {0, 1}
    BY <2>1, FS_Singleton
  <2> QED BY <1>2, <1>3, <1>4, <2>2 DEF ContactsFew, Few, Total
<1>6. ASSUME NEW v \in Nat PROVE ConvsFew(v)
  BY <1>2, <1>3, <1>4 DEF ConvsFew, Few, Total
<1>7. ASSUME NEW j \in Jobs PROVE PostsFew(j)
  <2>1. Free(j) \in {0, 1}
    BY DEF Free
  <2> QED BY <1>2, <1>3, <2>1 DEF PostsFew, Total
<1> QED BY <1>1, <1>5, <1>6, <1>7 DEF Counted, FewContacts, FewConvs, FewPosts

LEMMA LateFinite == IsFiniteSet(late) /\ [Next]_vars => IsFiniteSet(late')
<1> SUFFICES ASSUME IsFiniteSet(late), [Next]_vars PROVE IsFiniteSet(late')
  OBVIOUS
<1>1. late' \subseteq late \/ \E r : late' = late \cup {r}
  <2>1. CASE \E h \in Handlers : Break(h)
    BY <2>1 DEF Break
  <2>2. CASE UNCHANGED late
    BY <2>2
  <2>3. CASE PerformLate
    BY <2>3 DEF PerformLate
  <2> QED BY <2>1, <2>2, <2>3
          DEF Next, vars, Start, Performed, Search, AddContact, ListConvs, AddConv, Upload, Post,
              Proceed, Return, Refuse, Page
<1> QED BY <1>1, FS_Subset, FS_AddElement

LEMMA CountedCorrect == Spec => []CInv
<1>1. Init => CInv
  BY InvInit, CountedInit DEF CInv
<1>2. CInv /\ [Next]_vars => CInv'
  BY InvStep, LateFinite, ContactsStep, ConvsStep, PostsStep
     DEF CInv, Counted, FewContacts, FewConvs, FewPosts
<1> QED BY <1>1, <1>2, PTL DEF Spec

(* However many messages a sender writes, he has no more contacts, and each*)
(* of them no more conversations, than handlers that may have searched     *)
(* before the first was created and calls that gave up                     *)
(* (cw_client.py:60-85).                                                   *)
THEOREM TwinsHaveACause == Spec => []TwinsAreExplained
<1>1. CInv => TwinsAreExplained
  <2> SUFFICES ASSUME CInv PROVE TwinsAreExplained
    OBVIOUS
  <2>1. Used("break") \in Int /\ Cardinality(Handlers) \in Nat
    BY UsedType, FS_CardinalityType, ChatwootDeliveryAssumption DEF CInv, IInv, Faults
  <2>2. \A x : /\ IsFiniteSet(Of(contacts, x)) /\ IsFiniteSet(Adding(x)) /\ IsFiniteSet(LateContacts(x))
               /\ IsFiniteSet(Of(convs, x)) /\ IsFiniteSet(Opening(x)) /\ IsFiniteSet(LateConvs(x))
    BY Finite DEF CInv, Counted
  <2>3. \A S, T, U : IsFiniteSet(S) /\ IsFiniteSet(T) /\ IsFiniteSet(U) =>
          /\ Cardinality(S) \in Nat /\ Total(S, T, U) \in Nat
          /\ Cardinality(S) <= Total(S, T, U)
    BY FS_CardinalityType DEF Total
  <2>4. ASSUME NEW u \in Users PROVE Cardinality(Of(contacts, u)) <= Cardinality(Handlers) + Used("break")
    <3>1. ContactsFew(u)
      BY DEF CInv, Counted, FewContacts
    <3> QED BY <2>1, <2>2, <2>3, <3>1 DEF ContactsFew, Few
  <2>5. ASSUME NEW c \in 1..Len(contacts)
        PROVE  Cardinality(Of(convs, c)) <= Cardinality(Handlers) + Used("break")
    <3>1. c \in Nat
      BY Lengths DEF CInv, IInv
    <3>2. ConvsFew(c)
      BY <3>1 DEF CInv, Counted, FewConvs
    <3> QED BY <2>1, <2>2, <2>3, <3>2 DEF ConvsFew, Few
  <2> QED BY <2>4, <2>5 DEF TwinsAreExplained
<1> QED BY <1>1, CountedCorrect, PTL

(* A message is posted again only after a call that gave up or a vt that   *)
(* ran out (cw_client.py:95-101, base.py:262-298).                         *)
THEOREM RepostsHaveACause == Spec => []PostsAreExplained
<1>1. CInv => PostsAreExplained
  <2> SUFFICES ASSUME CInv, NEW j \in Jobs
               PROVE  Cardinality(Copies(j)) <= 1 + Used("break") + Used("expire")
    BY DEF PostsAreExplained
  <2>1. Used("break") \in Int /\ Used("expire") \in Int
    BY UsedType DEF CInv, IInv, Faults
  <2>2. IsFiniteSet(Copies(j)) /\ IsFiniteSet(Bringing(j)) /\ IsFiniteSet(LatePosts(j))
    BY Finite DEF CInv, Counted
  <2>3. /\ Cardinality(Copies(j)) \in Nat /\ Cardinality(Bringing(j)) \in Nat
        /\ Cardinality(LatePosts(j)) \in Nat
    BY <2>2, FS_CardinalityType
  <2>4. PostsFew(j) /\ Free(j) \in {0, 1}
    BY DEF CInv, Counted, FewPosts, Free
  <2> QED BY <2>1, <2>3, <2>4 DEF PostsFew, Total
<1> QED BY <1>1, CountedCorrect, PTL

-----------------------------------------------------------------------------
(* Conversation: addresses and identifiers.                                *)

(* The sequence x is r behind the element a.                               *)
Led(x, a, r) ==
  /\ Len(x) = Len(r) + 1 /\ Head(x) = a /\ Tail(x) = r
  /\ \A i \in 1..Len(r) : x[i + 1] = r[i]

LEMMA Singles ==
  ASSUME NEW S, NEW a, NEW r \in Seq(S)
  PROVE  /\ <<a>> \o r \in Seq(S \cup {a})
         /\ Led(<<a>> \o r, a, r)
<1> DEFINE T == S \cup {a}
           x == <<a>> \o r
<1>1. r \in Seq(T) /\ <<a>> \in Seq(T)
  OBVIOUS
<1>2. x \in Seq(T) /\ Len(x) = Len(r) + 1
  BY <1>1
<1>3. x[1] = a /\ \A i \in 1..Len(r) : x[i + 1] = r[i]
  BY <1>1
<1>4. Head(x) = a
  BY <1>2, <1>3
<1>5. Tail(x) = r
  <2>1. /\ Tail(x) \in Seq(T) /\ Len(Tail(x)) = Len(r)
        /\ \A i \in 1..Len(r) : Tail(x)[i] = x[i + 1]
    BY <1>2
  <2> QED BY <2>1, <1>3
<1> HIDE DEF x
<1>6. Led(x, a, r)
  BY <1>2, <1>3, <1>4, <1>5 DEF Led
<1> QED BY <1>2, <1>6 DEF x

LEMMA SinglesEqual ==
  ASSUME NEW S, NEW a, NEW c, NEW r \in Seq(S), NEW s \in Seq(S), <<a>> \o r = <<c>> \o s
  PROVE  a = c /\ r = s
<1>1. PICK x : x = <<a>> \o r
  OBVIOUS
<1>2. Led(x, a, r) /\ Led(x, c, s)
  BY <1>1, Singles, Zenon
<1> QED BY <1>2, Zenon DEF Led

(* The sequence x is r behind the two elements a and b.                    *)
Behind(x, a, b, r) ==
  /\ Len(x) = Len(r) + 2 /\ Head(x) = a /\ x[2] = b
  /\ \A i \in 1..Len(r) : x[i + 2] = r[i]

LEMMA Pairs ==
  ASSUME NEW S, NEW a, NEW b, NEW r \in Seq(S)
  PROVE  /\ <<a, b>> \o r \in Seq(S \cup {a, b})
         /\ Behind(<<a, b>> \o r, a, b, r)
<1> DEFINE T == S \cup {a, b}
           x == <<a, b>> \o r
<1>1. r \in Seq(T) /\ <<a, b>> \in Seq(T)
  OBVIOUS
<1>2. x \in Seq(T) /\ Len(x) = Len(r) + 2
  BY <1>1
<1>3. x[1] = a /\ x[2] = b /\ \A i \in 1..Len(r) : x[i + 2] = r[i]
  BY <1>1
<1>4. Head(x) = a
  BY <1>2, <1>3
<1> HIDE DEF x
<1>5. Behind(x, a, b, r)
  BY <1>2, <1>3, <1>4 DEF Behind
<1> QED BY <1>2, <1>5 DEF x

LEMMA BehindOne ==
  ASSUME NEW S, NEW a, NEW b, NEW c, NEW d, NEW r \in Seq(S), NEW s \in Seq(S), NEW x,
         Behind(x, a, b, r), Behind(x, c, d, s)
  PROVE  a = c /\ b = d /\ r = s
<1>1. Len(r) = Len(s) /\ a = c /\ b = d
  BY DEF Behind
<1>2. \A i \in 1..Len(r) : r[i] = s[i]
  BY <1>1 DEF Behind
<1> QED BY <1>1, <1>2

LEMMA PairsEqual ==
  ASSUME NEW S, NEW a, NEW b, NEW c, NEW d, NEW r \in Seq(S), NEW s \in Seq(S),
         <<a, b>> \o r = <<c, d>> \o s
  PROVE  a = c /\ b = d /\ r = s
<1>1. PICK x : x = <<a, b>> \o r
  OBVIOUS
<1>2. Behind(x, a, b, r) /\ Behind(x, c, d, s)
  BY <1>1, Pairs, Zenon
<1> QED BY <1>2, BehindOne, Zenon

-----------------------------------------------------------------------------
(* Conversation: the inductive invariant.                                  *)

Externals == {<<u.sender>> : u \in due} \cup {NewActor(u) : u \in due}

(* An actor id that has been inserted is never inserted again.             *)
Minted(v) ==
  /\ v \in due /\ v.channel = "delta_chat" /\ task[v].pc # "insert"
  /\ \E a \in actors : a.address = v.sender

(* How the rest of the gateway knows the writer with this address.         *)
Named(channel, address, e) ==
  IF channel = "delta_chat"
  THEN \E v \in due : Minted(v) /\ v.sender = address /\ e = NewActor(v)
  ELSE e = <<address>>

(* An identifier of his, under either setting.                             *)
Bears(identifier, channel, e) ==
  \/ identifier = AddPrefix(e, channel) /\ (switched \/ ~anonymize)
  \/ /\ identifier = Alias(channel, e) /\ (switched \/ anonymize)
     /\ [channel |-> channel, real |-> e] \in aliases
Identifies(identifier, channel, address) ==
  \E e \in Externals : Named(channel, address, e) /\ Bears(identifier, channel, e)

Results == {"none", "no route", "error", "wrong", "known", "queued"}
CTypeOK ==
  /\ due \in Dues /\ hooks \subseteq Channels /\ hooks # {}
  /\ anonymize \in BOOLEAN /\ switched \in BOOLEAN
  /\ task \in [due -> [pc : {"idle", "insert", "publish"}, actor : Externals \cup {<<>>},
                       result : Results]]
  /\ rows \in [due -> Nat]
  /\ aliases \subseteq [channel : Channels, real : Externals]

(* identity_mappings has one row for an address; an actor id that is about *)
(* to be inserted is in no use.                                            *)
Actors ==
  /\ \A a \in actors : \E v \in due :
       Minted(v) /\ a = [address |-> v.sender, actor |-> NewActor(v)]
  /\ \A a, b \in actors : a.address = b.address => a = b
  /\ \A u \in due :
       /\ task[u].pc = "insert" => u.channel = "delta_chat" /\ task[u].actor = NewActor(u)
       /\ task[u].pc = "publish" /\ u.channel = "delta_chat" =>
            Named(u.channel, u.sender, task[u].actor)

Writers ==
  /\ \A m \in incoming :
       /\ m.update \in due /\ m.connector \in ById(m.update.channel, m.update.connector)
       /\ Identifies(m.identifier, m.update.channel, m.update.sender)
  /\ \A w \in wrote :
       /\ w.connector \in Connectors /\ w.connector.channel \in Channels
       /\ w.conv = [identifier |-> w.conv.identifier, inbox |-> w.connector.inbox]
       /\ Identifies(w.conv.identifier, w.connector.channel, w.address)
  /\ \A r \in written : r = [conv |-> r.conv, n |-> r.n] /\ \E w \in wrote : r.conv = w.conv

(* The keys of processed_keys are those of updates with a row and of       *)
(* replies that were queued.                                               *)
MessageOf(u, p) ==
  CASE u.channel = "session" -> SessionMessageId(u, p)
    [] u.channel = "email" -> EmailMessageId(u)
    [] u.channel \notin {"session", "email"} -> <<u.message>>
ExtraOf(u, c) ==
  CASE u.channel = "whatsapp" -> <<>>
    [] u.channel = "email" -> <<c.salt, u.id>>
    [] u.channel \notin {"whatsapp", "email"} -> <<c.salt>>
KeyOf(u, c, p) ==
  Key(u.channel, "chatwoot", c, ExtraOf(u, c), <<u.sender>>, MessageOf(u, p))
Numbered(u) == u.channel \notin {"session", "email"} => u.message # None
Taken(u) == \E v \in due : rows[v] > 0 /\ TakenFor(u, v)

Keys ==
  /\ \A k \in processed :
       \/ k.from = "chatwoot" /\ \E a \in answers : a.result = "queued" /\ k.message = MessageId(a.first)
       \/ \E v \in due : /\ rows[v] > 0 /\ Numbered(v)
                         /\ \E c \in ById(v.channel, v.connector), p \in Processes : k = KeyOf(v, c, p)
  /\ \A u \in due :
       /\ task[u].result = "known" => rows[u] > 0 \/ Taken(u)
       /\ Keyless(u) \/ rows[u] < 2
       /\ Keyless(u) \/ rows[u] = 0
            \/ \A c \in ById(u.channel, u.connector), p \in Processes : KeyOf(u, c, p) \in processed

(* To whom a reply is on its way: unless the setting has changed, to the   *)
(* writer in the form the channel knows him by.                            *)
Heads(o, w) ==
  /\ o.reply.conv = w.conv /\ o.connector = w.connector
  /\ \/ switched /\ o.to = w.conv.identifier
     \/ \E e \in Externals :
          /\ Named(w.connector.channel, w.address, e) /\ o.to = e
          /\ Bears(w.conv.identifier, w.connector.channel, e)

Lost(r) == switched \/ \E w \in wrote : w.conv = r.conv /\ Overwritten(w)
Elsewhere(r, url) ==
  /\ Head(r.conv.identifier) \notin Channels
  /\ \A w \in wrote : w.conv = r.conv => w.connector.channel # url
Answered(a) ==
  /\ a.reply \in written /\ a.first \in written /\ a.url \in hooks
  /\ a.result = "no route" => switched \/ Elsewhere(a.reply, a.url)
  /\ a.result = "known" => \E b \in answers : b.result = "queued" /\ b.first = a.first
  /\ a.result = "queued" =>
       \/ \E o \in outgoing : o.reply = a.reply
       \/ \E d \in delivered : d.reply = a.reply
       \/ Lost(a.reply)
  /\ a.result \in {"no route", "known", "queued"}

Ways ==
  /\ \A o \in outgoing : o.reply \in written /\ \E w \in wrote : Heads(o, w)
  /\ \A a \in answers : Answered(a)


-----------------------------------------------------------------------------
(* Conversation: what an identifier says of its writer.                    *)

Words == {u.sender : u \in due} \cup {u.id : u \in due} \cup {"delta_chat"}

LEMMA ExternalFacts ==
  ASSUME NEW e \in Externals
  PROVE  e \in Seq(Words) /\ Len(e) \in {1, 2}
<1>1. ASSUME NEW u \in due, e = <<u.sender>>
      PROVE  e \in Seq(Words) /\ Len(e) \in {1, 2}
  <2>1. u.sender \in Words
    BY DEF Words
  <2> QED BY <1>1, <2>1
<1>2. ASSUME NEW u \in due, e = NewActor(u)
      PROVE  e \in Seq(Words) /\ Len(e) \in {1, 2}
  <2>1. u.id \in Words /\ "delta_chat" \in Words
    BY DEF Words
  <2> QED BY <1>2, <2>1 DEF NewActor
<1> QED BY <1>1, <1>2 DEF Externals

LEMMA AliasFacts ==
  ASSUME NEW e \in Externals, NEW c
  PROVE  /\ Alias(c, e) \in Seq(Words \cup {"alias", c})
         /\ Head(Alias(c, e)) = "alias" /\ Head(Alias(c, e)) \notin Channels
         /\ Len(Alias(c, e)) = Len(e) + 2 /\ Len(Alias(c, e)) \in {3, 4}
         /\ \A i \in 1..Len(e) : Alias(c, e)[i + 2] = e[i]
<1> DEFINE x == <<"alias", c>> \o e
<1>1. e \in Seq(Words) /\ Len(e) \in {1, 2}
  BY ExternalFacts
<1>2. x \in Seq(Words \cup {"alias", c}) /\ Behind(x, "alias", c, e)
  BY <1>1, Pairs, Zenon
<1>3. Alias(c, e) = x
  BY DEF Alias
<1> HIDE DEF x
<1>4. Len(x) = Len(e) + 2 /\ Len(x) \in {3, 4}
  <2>1. Len(x) = Len(e) + 2
    BY <1>2, Zenon DEF Behind
  <2>2. PICK n \in {1, 2} : n = Len(e)
    BY <1>1, Zenon
  <2>3. n + 2 \in {3, 4}
    OBVIOUS
  <2> QED BY <2>1, <2>2, <2>3, Zenon
<1>5. "alias" \notin Channels
  BY DEF Channels
<1> QED BY <1>2, <1>3, <1>4, <1>5 DEF Behind

LEMMA AliasOne ==
  ASSUME NEW e \in Externals, NEW f \in Externals, NEW c, NEW d, Alias(c, e) = Alias(d, f)
  PROVE  c = d /\ e = f
<1>1. e \in Seq(Words) /\ f \in Seq(Words)
  BY ExternalFacts
<1>2. ASSUME NEW a, NEW x, x = <<a, c>> \o e, x = <<a, d>> \o f
      PROVE  c = d /\ e = f
  <2>1. Behind(<<a, c>> \o e, a, c, e) /\ Behind(<<a, d>> \o f, a, d, f)
    BY <1>1, Pairs, Zenon
  <2>2. Behind(x, a, c, e) /\ Behind(x, a, d, f)
    BY <1>2, <2>1, Zenon
  <2> QED BY <1>1, <2>2, BehindOne, Zenon
<1>3. \E a, x : x = <<a, c>> \o e /\ x = <<a, d>> \o f
  BY DEF Alias
<1> QED BY <1>2, <1>3, Zenon

LEMMA PrefixFacts ==
  ASSUME NEW e \in Externals, NEW c
  PROVE  /\ AddPrefix(e, c) \in Seq(Words \cup {c})
         /\ Head(AddPrefix(e, c)) = c /\ StripPrefix(AddPrefix(e, c), c) = e
         /\ Len(AddPrefix(e, c)) = Len(e) + 1 /\ Len(AddPrefix(e, c)) \in {2, 3}
         /\ \A i \in 1..Len(e) : AddPrefix(e, c)[i + 1] = e[i]
<1> DEFINE x == <<c>> \o e
<1>1. e \in Seq(Words) /\ Len(e) \in {1, 2}
  BY ExternalFacts
<1>2. x \in Seq(Words \cup {c}) /\ Led(x, c, e)
  BY <1>1, Singles, Zenon
<1>3. AddPrefix(e, c) = x
  BY DEF AddPrefix
<1> HIDE DEF x
<1>4. Len(x) = Len(e) + 1 /\ Len(x) \in {2, 3}
  <2>1. Len(x) = Len(e) + 1
    BY <1>2, Zenon DEF Led
  <2>2. PICK n \in {1, 2} : n = Len(e)
    BY <1>1, Zenon
  <2>3. n + 1 \in {2, 3}
    OBVIOUS
  <2> QED BY <2>1, <2>2, <2>3, Zenon
<1>5. StripPrefix(x, c) = e
  BY <1>2, Zenon DEF Led, StripPrefix
<1> QED BY <1>2, <1>3, <1>4, <1>5 DEF Led

LEMMA PrefixOne ==
  ASSUME NEW e \in Externals, NEW f \in Externals, NEW c, NEW d, AddPrefix(e, c) = AddPrefix(f, d)
  PROVE  c = d /\ e = f
<1>1. e \in Seq(Words) /\ f \in Seq(Words)
  BY ExternalFacts
<1>2. <<c>> \o e = <<d>> \o f
  BY DEF AddPrefix
<1> QED BY <1>1, <1>2, SinglesEqual, Zenon

(* The actor id is read off the end of an identifier.                      *)
LEMMA ActorOfFacts ==
  ASSUME NEW v \in due, NEW c
  PROVE  /\ ActorOf(Alias(c, NewActor(v))) = NewActor(v)
         /\ ActorOf(AddPrefix(NewActor(v), c)) = NewActor(v)
<1>1. NewActor(v) \in Externals /\ Len(NewActor(v)) = 2
  BY DEF NewActor, Externals
<1>2. ASSUME NEW T, NEW x \in Seq(T), Len(x) \in {3, 4},
             x[Len(x) - 1] = NewActor(v)[1], x[Len(x)] = NewActor(v)[2]
      PROVE  ActorOf(x) = NewActor(v)
  <2> DEFINE n == Len(x)
             y == SubSeq(x, n - 1, n)
  <2>1. Len(y) = 2 /\ y[1] = x[n - 1] /\ y[2] = x[n] /\ y \in Seq(T)
    <3>1. n \in Int /\ n - 1 \in Int /\ \A i \in n - 1..n : x[i] \in T
      <4>1. n \in {3, 4} /\ \A i \in 1..n : x[i] \in T
        BY <1>2, ElementOfSeq
      <4> HIDE DEF n
      <4>2. n \in Int /\ n - 1 \in Int /\ \A i \in n - 1..n : i \in 1..n
        BY <4>1
      <4> QED BY <4>1, <4>2, Zenon
    <3> HIDE DEF n
    <3>2. /\ y \in Seq(T) /\ Len(y) = IF n - 1 <= n THEN n - (n - 1) + 1 ELSE 0
          /\ \A i \in 1..n - (n - 1) + 1 : y[i] = x[n - 1 + i - 1]
      BY <3>1, SubSeqProperties
    <3>3. n - (n - 1) + 1 = 2 /\ n - 1 <= n /\ n - 1 + 1 - 1 = n - 1 /\ n - 1 + 2 - 1 = n
      BY <3>1
    <3>4. 1 \in 1..n - (n - 1) + 1 /\ 2 \in 1..n - (n - 1) + 1
      BY <3>3
    <3> HIDE DEF y
    <3>5. y[1] = x[n - 1 + 1 - 1] /\ y[2] = x[n - 1 + 2 - 1]
      BY <3>2, <3>4
    <3> QED BY <3>2, <3>3, <3>5
  <2>2. y[1] = "delta_chat" /\ y[2] = v.id
    BY <2>1, <1>2 DEF NewActor
  <2> HIDE DEF y
  <2>3. y = <<"delta_chat", v.id>>
    BY <2>1, <2>2
  <2> QED BY <2>3 DEF ActorOf, NewActor, y
<1>3. /\ Alias(c, NewActor(v)) \in Seq(Words \cup {"alias", c})
      /\ Len(Alias(c, NewActor(v))) = 4
      /\ Alias(c, NewActor(v))[3] = NewActor(v)[1]
      /\ Alias(c, NewActor(v))[4] = NewActor(v)[2]
  <2> DEFINE a == NewActor(v)
  <2>1. /\ Alias(c, a) \in Seq(Words \cup {"alias", c})
        /\ Len(Alias(c, a)) = Len(a) + 2
        /\ \A i \in 1..Len(a) : Alias(c, a)[i + 2] = a[i]
    BY <1>1, AliasFacts, Zenon
  <2> HIDE DEF a
  <2>2. Len(a) = 2 /\ 1 \in 1..Len(a) /\ 2 \in 1..Len(a)
    BY <1>1 DEF a
  <2>3. Alias(c, a)[1 + 2] = a[1] /\ Alias(c, a)[2 + 2] = a[2]
    BY <2>1, <2>2
  <2> QED BY <2>1, <2>2, <2>3 DEF a
<1>4. /\ AddPrefix(NewActor(v), c) \in Seq(Words \cup {c})
      /\ Len(AddPrefix(NewActor(v), c)) = 3
      /\ AddPrefix(NewActor(v), c)[2] = NewActor(v)[1]
      /\ AddPrefix(NewActor(v), c)[3] = NewActor(v)[2]
  <2> DEFINE a == NewActor(v)
  <2>1. /\ AddPrefix(a, c) \in Seq(Words \cup {c})
        /\ Len(AddPrefix(a, c)) = Len(a) + 1
        /\ \A i \in 1..Len(a) : AddPrefix(a, c)[i + 1] = a[i]
    BY <1>1, PrefixFacts, Zenon
  <2> HIDE DEF a
  <2>2. Len(a) = 2 /\ 1 \in 1..Len(a) /\ 2 \in 1..Len(a)
    BY <1>1 DEF a
  <2>3. AddPrefix(a, c)[1 + 1] = a[1] /\ AddPrefix(a, c)[2 + 1] = a[2]
    BY <2>1, <2>2
  <2> QED BY <2>1, <2>2, <2>3 DEF a
<1>5. ActorOf(Alias(c, NewActor(v))) = NewActor(v)
  <2> DEFINE x == Alias(c, NewActor(v))
  <2> HIDE DEF x
  <2>1. x \in Seq(Words \cup {"alias", c}) /\ Len(x) = 4 /\ Len(x) - 1 = 3
    BY <1>3 DEF x
  <2>2. x[Len(x) - 1] = NewActor(v)[1] /\ x[Len(x)] = NewActor(v)[2]
    BY <1>3, <2>1 DEF x
  <2>3. ActorOf(x) = NewActor(v)
    BY <1>2, <2>1, <2>2
  <2> QED BY <2>3 DEF x
<1>6. ActorOf(AddPrefix(NewActor(v), c)) = NewActor(v)
  <2> DEFINE x == AddPrefix(NewActor(v), c)
  <2> HIDE DEF x
  <2>1. x \in Seq(Words \cup {c}) /\ Len(x) = 3 /\ Len(x) - 1 = 2
    BY <1>4 DEF x
  <2>2. x[Len(x) - 1] = NewActor(v)[1] /\ x[Len(x)] = NewActor(v)[2]
    BY <1>4, <2>1 DEF x
  <2>3. ActorOf(x) = NewActor(v)
    BY <1>2, <2>1, <2>2
  <2> QED BY <2>3 DEF x
<1> QED BY <1>5, <1>6

LEMMA DueFacts ==
  ASSUME CTypeOK
  PROVE  /\ \A u \in due :
              /\ u.channel \in Channels
              /\ u.channel \in {"telegram", "imessage"} /\ u.sender # None => u.message # None
         /\ \A u, v \in due : u.id = v.id => u = v
         /\ \A u, v \in due :
              /\ u.channel = v.channel /\ u.connector = v.connector
              /\ u.channel # "email" /\ u.sender = v.sender
              /\ u.message = v.message /\ u.message # None
              => u = v \/ InOtherChat(u, v)
<1>1. due \in Dues
  BY DEF CTypeOK
<1> QED BY <1>1, ConversationAssumption DEF InOtherChat

LEMMA ActorIsOnes ==
  ASSUME CTypeOK, NEW u \in due, NEW v \in due, NewActor(u) = NewActor(v)
  PROVE  u = v
<1>1. u.id = v.id
  BY DEF NewActor
<1> QED BY <1>1, DueFacts

LEMMA NamedFacts ==
  ASSUME CTypeOK, NEW c, NEW a, NEW b, NEW e
  PROVE  /\ Named(c, a, e) /\ c # "delta_chat" => e = <<a>>
         /\ Named(c, a, e) /\ Named(c, b, e) => a = b
<1>1. ASSUME c = "delta_chat", Named(c, a, e), Named(c, b, e) PROVE a = b
  <2>1. PICK u \in due : Minted(u) /\ u.sender = a /\ e = NewActor(u)
    BY <1>1, Zenon DEF Named
  <2>2. PICK v \in due : Minted(v) /\ v.sender = b /\ e = NewActor(v)
    BY <1>1, Zenon DEF Named
  <2>3. u = v
    BY <2>1, <2>2, ActorIsOnes
  <2> QED BY <2>1, <2>2, <2>3
<1>2. ASSUME c # "delta_chat" PROVE /\ Named(c, a, e) => e = <<a>>
                                    /\ Named(c, b, e) => e = <<b>>
  BY <1>2, Zenon DEF Named
<1>3. <<a>> = <<b>> => a = b
  OBVIOUS
<1> QED BY <1>1, <1>2, <1>3

(* An identifier is that of one writer of one channel.                     *)
THEOREM BearsOne ==
  ASSUME NEW i, NEW e \in Externals, NEW f \in Externals,
         NEW c \in Channels, NEW d \in Channels,
         Bears(i, c, e), Bears(i, d, f)
  PROVE  c = d /\ e = f
<1>1. /\ Head(Alias(c, e)) \notin Channels /\ Head(Alias(d, f)) \notin Channels
      /\ Head(AddPrefix(e, c)) = c /\ Head(AddPrefix(f, d)) = d
  BY AliasFacts, PrefixFacts, Zenon
<1>2. /\ Alias(c, e) = Alias(d, f) => c = d /\ e = f
      /\ AddPrefix(e, c) = AddPrefix(f, d) => c = d /\ e = f
  BY AliasOne, PrefixOne, Zenon
<1>3. /\ i \in {AddPrefix(e, c), Alias(c, e)}
      /\ i \in {AddPrefix(f, d), Alias(d, f)}
  BY DEF Bears
<1> QED BY <1>1, <1>2, <1>3, Zenon

(* Which of the two forms it has can be seen, and they are not an address. *)
LEMMA BearsFacts ==
  ASSUME NEW i, NEW e \in Externals, NEW c \in Channels, Bears(i, c, e)
  PROVE  /\ Head(i) \in Channels => i = AddPrefix(e, c) /\ Head(i) = c
         /\ Head(i) \notin Channels => i = Alias(c, e) /\ [channel |-> c, real |-> e] \in aliases
         /\ Len(i) # 1
<1>1. /\ Head(Alias(c, e)) \notin Channels /\ Len(Alias(c, e)) \in {3, 4}
  BY AliasFacts, Zenon
<1>2. /\ Head(AddPrefix(e, c)) = c /\ Len(AddPrefix(e, c)) \in {2, 3}
  BY PrefixFacts, Zenon
<1>3. CASE i = AddPrefix(e, c)
  <2>1. Len(i) # 1
    BY <1>2, <1>3
  <2> QED BY <1>2, <1>3, <2>1
<1>4. CASE i = Alias(c, e) /\ [channel |-> c, real |-> e] \in aliases
  <2>1. Len(i) # 1
    BY <1>1, <1>4
  <2> QED BY <1>1, <1>4, <2>1
<1> QED BY <1>3, <1>4 DEF Bears

(* No identifier is taken for an actor id.                                 *)
LEMMA BearsNoActor ==
  ASSUME NEW i, NEW v \in due, NEW u \in due, NEW c \in Channels,
         Bears(i, c, NewActor(v))
  PROVE  i # NewActor(u)
<1>1. Len(NewActor(v)) = 2 /\ Len(NewActor(u)) = 2 /\ NewActor(v) \in Externals
  BY DEF NewActor, Externals
<1>2. Len(Alias(c, NewActor(v))) = Len(NewActor(v)) + 2
  BY <1>1, AliasFacts, Zenon
<1>3. Len(AddPrefix(NewActor(v), c)) = Len(NewActor(v)) + 1
  BY <1>1, PrefixFacts, Zenon
<1>4. Len(i) # 2
  <2>1. i \in {AddPrefix(NewActor(v), c), Alias(c, NewActor(v))}
    BY DEF Bears
  <2>2. Len(Alias(c, NewActor(v))) # 2 /\ Len(AddPrefix(NewActor(v), c)) # 2
    BY <1>1, <1>2, <1>3
  <2> QED BY <2>1, <2>2
<1> QED BY <1>1, <1>4

(* The actor id is the end of an identifier of a Delta Chat writer.        *)
LEMMA BearsActor ==
  ASSUME NEW i, NEW v \in due, NEW c, Bears(i, c, NewActor(v))
  PROVE  ActorOf(i) = NewActor(v)
BY ActorOfFacts, Zenon DEF Bears

-----------------------------------------------------------------------------
(* Conversation: what every step leaves.                                   *)

(* The settings, and what is only ever added to.                           *)
LEMMA SettingsStay ==
  ASSUME [ConversationNext]_conversationVars
  PROVE  /\ due' = due /\ hooks' = hooks
         /\ switched => switched'
         /\ anonymize' = anonymize \/ switched'
         /\ aliases \subseteq aliases' /\ wrote \subseteq wrote'
         /\ written \subseteq written' /\ processed \subseteq processed'
         /\ answers \subseteq answers' /\ delivered \subseteq delivered'
<1>1. CASE UNCHANGED conversationVars
  BY <1>1 DEF conversationVars, settings, ingest, back
<1>2. ASSUME NEW u \in due, Receive(u) \/ Insert(u)
      PROVE  UNCHANGED <<settings, aliases, wrote, processed, written, answers, delivered>>
  BY <1>2 DEF Receive, Insert, back
<1>3. ASSUME NEW u \in due, Publish(u)
      PROVE  /\ UNCHANGED <<settings, wrote, written, answers, delivered>>
             /\ aliases \subseteq aliases' /\ processed \subseteq processed'
  BY <1>3 DEF Publish, Mark, back
<1>4. ASSUME NEW m \in incoming, Deliver(m)
      PROVE  /\ UNCHANGED <<settings, aliases, processed, written, answers, delivered>>
             /\ wrote \subseteq wrote'
  BY <1>4 DEF Deliver, back
<1>5. ASSUME NEW c \in Conversations, Write(c)
      PROVE  /\ UNCHANGED <<settings, aliases, processed, wrote, answers, delivered>>
             /\ written \subseteq written'
  BY <1>5 DEF Write
<1>6. ASSUME NEW r \in written, NEW url \in hooks, Webhook(r, url)
      PROVE  /\ UNCHANGED <<settings, aliases, wrote, written, delivered>>
             /\ answers \subseteq answers' /\ processed \subseteq processed'
  BY <1>6 DEF Webhook, Result
<1>7. ASSUME NEW o \in outgoing, Send(o)
      PROVE  /\ UNCHANGED <<settings, aliases, wrote, written, processed, answers>>
             /\ delivered \subseteq delivered'
  BY <1>7 DEF Send
<1>8. CASE Restart
  BY <1>8 DEF Restart, back
<1> QED BY <1>1, <1>2, <1>3, <1>4, <1>5, <1>6, <1>7, <1>8 DEF ConversationNext, settings

(* Only an actor id that is about to be inserted is new in actors, and an  *)
(* address stays there once it has one.                                    *)
LEMMA ActorsStay ==
  ASSUME CTypeOK, Actors, [ConversationNext]_conversationVars
  PROVE  \/ actors' = actors
         \/ \E u \in due : Insert(u)
<1>1. CASE UNCHANGED conversationVars
  BY <1>1 DEF conversationVars, ingest
<1>2. ASSUME NEW u \in due, Receive(u) \/ Publish(u) PROVE actors' = actors
  BY <1>2 DEF Receive, Publish
<1>3. ASSUME NEW m \in incoming, Deliver(m) PROVE actors' = actors
  BY <1>3 DEF Deliver
<1>4. ASSUME NEW c \in Conversations, Write(c) PROVE actors' = actors
  BY <1>4 DEF Write, ingest
<1>5. ASSUME NEW r \in written, NEW url \in hooks, Webhook(r, url) PROVE actors' = actors
  BY <1>5 DEF Webhook, ingest
<1>6. ASSUME NEW o \in outgoing, Send(o) PROVE actors' = actors
  BY <1>6 DEF Send, ingest
<1>7. CASE Restart
  BY <1>7 DEF Restart
<1> QED BY <1>1, <1>2, <1>3, <1>4, <1>5, <1>6, <1>7 DEF ConversationNext

LEMMA TaskStays ==
  ASSUME [ConversationNext]_conversationVars
  PROVE  \/ task' = task
         \/ \E u \in due : Receive(u) \/ Insert(u) \/ Publish(u)
         \/ Restart
<1>1. CASE UNCHANGED conversationVars
  BY <1>1 DEF conversationVars, ingest
<1>2. ASSUME NEW m \in incoming, Deliver(m) PROVE task' = task
  BY <1>2 DEF Deliver
<1>3. ASSUME NEW c \in Conversations, Write(c) PROVE task' = task
  BY <1>3 DEF Write, ingest
<1>4. ASSUME NEW r \in written, NEW url \in hooks, Webhook(r, url) PROVE task' = task
  BY <1>4 DEF Webhook, ingest
<1>5. ASSUME NEW o \in outgoing, Send(o) PROVE task' = task
  BY <1>5 DEF Send, ingest
<1> QED BY <1>1, <1>2, <1>3, <1>4, <1>5 DEF ConversationNext

LEMMA MintedStays ==
  ASSUME CTypeOK, Actors, [ConversationNext]_conversationVars, NEW v, Minted(v)
  PROVE  Minted(v)'
<1>1. v \in due /\ v.channel = "delta_chat" /\ task[v].pc # "insert" /\ due' = due
  BY SettingsStay DEF Minted
<1>2. PICK a \in actors : a.address = v.sender
  BY DEF Minted
<1>3. \E b \in actors' : b.address = v.sender
  <2>1. CASE actors' = actors
    BY <1>2, <2>1
  <2>2. ASSUME NEW u \in due, Insert(u) PROVE \E b \in actors' : b.address = v.sender
    <3>1. actors' = {b \in actors : b.address # u.sender}
                      \cup {[address |-> u.sender, actor |-> NewActor(u)]}
      BY <2>2 DEF Insert, PutActor
    <3>2. CASE u.sender = v.sender
      <4> DEFINE b == [address |-> u.sender, actor |-> NewActor(u)]
      <4>1. b \in actors' /\ b.address = v.sender
        BY <3>1, <3>2
      <4> QED BY <4>1
    <3>3. CASE u.sender # v.sender
      BY <3>1, <3>3, <1>2
    <3> QED BY <3>2, <3>3
  <2> QED BY <2>1, <2>2, ActorsStay
<1>4. task'[v].pc # "insert"
  <2> DEFINE T == [pc : {"idle", "insert", "publish"}, actor : Externals \cup {<<>>},
                   result : Results]
  <2>4. task \in [due -> T]
    BY DEF CTypeOK
  <2>1. ASSUME NEW u \in due, Insert(u) \/ Publish(u) PROVE task'[v].pc # "insert"
    BY <1>1, <2>1, <2>4 DEF Insert, Publish, GoOn, Finish, NoTask
  <2>2. CASE Restart
    BY <1>1, <2>2, <2>4 DEF Restart
  <2>3. ASSUME NEW u \in due, Receive(u) PROVE task'[v].pc # "insert"
    <3>1. u = v => Actor(u) # {}
      BY <1>2 DEF Actor
    <3> QED BY <1>1, <2>3, <2>4, <3>1 DEF Receive, GoOn, Finish, NoTask
  <2> QED BY <1>1, <2>1, <2>2, <2>3, TaskStays
<1> QED BY <1>1, <1>3, <1>4 DEF Minted

LEMMA NamedStays ==
  ASSUME CTypeOK, Actors, [ConversationNext]_conversationVars
  PROVE  /\ Externals' = Externals
         /\ \A c, a, e : Named(c, a, e) => Named(c, a, e)'
         /\ \A i, c, e : Bears(i, c, e) => Bears(i, c, e)'
         /\ \A i, c, a : Identifies(i, c, a) => Identifies(i, c, a)'
<1>1. Externals' = Externals
  BY SettingsStay DEF Externals
<1>2. ASSUME NEW c, NEW a, NEW e, Named(c, a, e) PROVE Named(c, a, e)'
  <2>1. CASE c = "delta_chat"
    <3>1. PICK v \in due : Minted(v) /\ v.sender = a /\ e = NewActor(v)
      BY <1>2, <2>1 DEF Named
    <3>2. Minted(v)' /\ v \in due'
      BY <3>1, MintedStays, SettingsStay
    <3> QED BY <2>1, <3>1, <3>2 DEF Named
  <2>2. CASE c # "delta_chat"
    BY <1>2, <2>2 DEF Named
  <2> QED BY <2>1, <2>2
<1>3. ASSUME NEW i, NEW c, NEW e, Bears(i, c, e) PROVE Bears(i, c, e)'
  BY <1>3, SettingsStay DEF Bears, CTypeOK
<1>4. ASSUME NEW i, NEW c, NEW a, Identifies(i, c, a) PROVE Identifies(i, c, a)'
  BY <1>1, <1>2, <1>3, <1>4 DEF Identifies
<1> QED BY <1>1, <1>2, <1>3, <1>4

(* An actor id that has been overwritten stays so.                         *)
LEMMA OverwrittenStays ==
  ASSUME CTypeOK, Actors, Writers, [ConversationNext]_conversationVars,
         NEW w \in wrote, Overwritten(w)
  PROVE  Overwritten(w)'
<1>1. /\ w.connector.channel = "delta_chat"
      /\ \A a \in actors : a.actor # ActorOf(w.conv.identifier)
  BY DEF Overwritten
<1>2. PICK e \in Externals : /\ Named(w.connector.channel, w.address, e)
                             /\ Bears(w.conv.identifier, w.connector.channel, e)
  BY DEF Writers, Identifies
<1>3. PICK v \in due : Minted(v) /\ e = NewActor(v)
  BY <1>1, <1>2 DEF Named
<1>4. ActorOf(w.conv.identifier) = NewActor(v)
  BY <1>2, <1>3, BearsActor
<1>5. ASSUME NEW u \in due, Insert(u)
      PROVE  \A a \in actors' : a.actor # ActorOf(w.conv.identifier)
  <2>1. actors' = {b \in actors : b.address # u.sender}
                    \cup {[address |-> u.sender, actor |-> NewActor(u)]}
    BY <1>5 DEF Insert, PutActor
  <2>2. task[u].pc = "insert" /\ task[v].pc # "insert"
    BY <1>3, <1>5 DEF Insert, Minted
  <2>3. NewActor(u) # NewActor(v)
    BY <2>2, ActorIsOnes
  <2> QED BY <1>1, <1>4, <2>1, <2>3
<1>6. \A a \in actors' : a.actor # ActorOf(w.conv.identifier)
  BY <1>1, <1>5, ActorsStay
<1> QED BY <1>1, <1>6 DEF Overwritten, ActorOf

(* What the envelope factories make of a message.                          *)
LEMMA MessageFacts ==
  ASSUME NEW u, NEW c, NEW extra, NEW external, NEW message
  PROVE  /\ Message(u, c, extra, external, message).external = external
         /\ Message(u, c, extra, external, message).key =
              {Key(u.channel, "chatwoot", c, extra, external, message)}
         /\ Wrong.key = {} /\ Error.key = {}
BY DEF Message, Verdict, Wrong, Error

LEMMA ParseFacts ==
  ASSUME CTypeOK, NEW u \in due, NEW c, NEW p, NEW a, Parse(u, c, p, a).key # {}
  PROVE  /\ Parse(u, c, p, a).key = {KeyOf(u, c, p)}
         /\ Parse(u, c, p, a).external = IF u.channel = "delta_chat" THEN a ELSE <<u.sender>>
         /\ Numbered(u)
<1> DEFINE v == Parse(u, c, p, a)
           made == Message(u, c, ExtraOf(u, c), <<u.sender>>, MessageOf(u, p))
<1>1. /\ made.external = <<u.sender>> /\ made.key = {KeyOf(u, c, p)}
      /\ Wrong.key = {} /\ Error.key = {}
  BY MessageFacts DEF KeyOf
<1>2. /\ u.channel \in Channels
      /\ u.channel \in {"telegram", "imessage"} /\ u.sender # None => u.message # None
  BY DueFacts
<1>3. CASE u.channel = "telegram"
  <2>1. ExtraOf(u, c) = <<c.salt>> /\ MessageOf(u, p) = <<u.message>> /\ v = TelegramUpdate(u, c)
    BY <1>3 DEF ExtraOf, MessageOf, Parse
  <2>2. v \in {Wrong, Error} \/ (v = made /\ u.message # None)
    BY <1>3, <2>1, <1>2 DEF TelegramUpdate, NoTelegramSender
  <2> QED BY <1>1, <1>3, <2>2 DEF Numbered
<1>4. CASE u.channel = "whatsapp"
  <2>1. ExtraOf(u, c) = <<>> /\ MessageOf(u, p) = <<u.message>> /\ v = WhatsAppUpdate(u, c)
    BY <1>4 DEF ExtraOf, MessageOf, Parse
  <2>2. v \in {Wrong, Error} \/ (v = made /\ u.message # None)
    BY <2>1 DEF WhatsAppUpdate
  <2> QED BY <1>1, <1>4, <2>2 DEF Numbered
<1>5. CASE u.channel = "imessage"
  <2>1. ExtraOf(u, c) = <<c.salt>> /\ MessageOf(u, p) = <<u.message>> /\ v = IMessageUpdate(u, c)
    BY <1>5 DEF ExtraOf, MessageOf, Parse
  <2>2. v \in {Wrong, Error} \/ (v = made /\ u.message # None)
    BY <1>5, <2>1, <1>2 DEF IMessageUpdate, NoIMessageSender
  <2> QED BY <1>1, <1>5, <2>2 DEF Numbered
<1>6. CASE u.channel = "signal"
  <2>1. ExtraOf(u, c) = <<c.salt>> /\ MessageOf(u, p) = <<u.message>> /\ v = SignalUpdate(u, c)
    BY <1>6 DEF ExtraOf, MessageOf, Parse
  <2>2. v \in {Wrong, Error} \/ (v = made /\ u.message # None)
    BY <2>1 DEF SignalUpdate
  <2> QED BY <1>1, <1>6, <2>2 DEF Numbered
<1>7. CASE u.channel = "simplex"
  <2>1. ExtraOf(u, c) = <<c.salt>> /\ MessageOf(u, p) = <<u.message>> /\ v = SimplexUpdate(u, c)
    BY <1>7 DEF ExtraOf, MessageOf, Parse
  <2>2. v \in {Wrong, Error} \/ (v = made /\ u.message # None)
    BY <2>1 DEF SimplexUpdate
  <2> QED BY <1>1, <1>7, <2>2 DEF Numbered
<1>8. CASE u.channel = "session"
  <2>1. ExtraOf(u, c) = <<c.salt>> /\ MessageOf(u, p) = SessionMessageId(u, p) /\ v = SessionUpdate(u, c, p)
    BY <1>8 DEF ExtraOf, MessageOf, Parse
  <2>2. v \in {Wrong, Error} \/ v = made
    BY <2>1 DEF SessionUpdate, NoSessionSender
  <2> QED BY <1>1, <1>8, <2>2 DEF Numbered
<1>9. CASE u.channel = "email"
  <2>1. ExtraOf(u, c) = <<c.salt, u.id>> /\ MessageOf(u, p) = EmailMessageId(u) /\ v = EmailUpdate(u, c)
    BY <1>9 DEF ExtraOf, MessageOf, Parse
  <2>2. v \in {Wrong, Error} \/ v = made
    BY <2>1 DEF EmailUpdate, NoEmailSender
  <2> QED BY <1>1, <1>9, <2>2 DEF Numbered
<1>10. CASE u.channel = "delta_chat"
  <2>1. ExtraOf(u, c) = <<c.salt>> /\ MessageOf(u, p) = <<u.message>> /\ v = DeltaChatUpdate(u, c, a)
    BY <1>10 DEF ExtraOf, MessageOf, Parse
  <2> DEFINE other == [made EXCEPT !.external = a]
  <2>2. v = Error \/ (v = other /\ u.message # None)
    BY <2>1 DEF DeltaChatUpdate
  <2>3. other.external = a /\ other.key = made.key
    BY DEF Message, Verdict
  <2> HIDE DEF other, made, v
  <2>4. v = other /\ u.message # None
    BY <1>1, <2>2 DEF v
  <2>5. v.key = {KeyOf(u, c, p)} /\ v.external = a
    BY <1>1, <2>3, <2>4
  <2> QED BY <1>10, <2>4, <2>5 DEF Numbered, v
<1> QED BY <1>2, <1>3, <1>4, <1>5, <1>6, <1>7, <1>8, <1>9, <1>10 DEF Channels

(* A handler that publishes: it leaves all but its own state, finds the    *)
(* key of the message, or puts in a row.                                   *)
LEMMA PublishCases ==
  ASSUME CTypeOK, NEW u \in due, Publish(u)
  PROVE  \/ /\ UNCHANGED <<aliases, processed, rows, incoming>>
            /\ Finish(u, "wrong") \/ Finish(u, "error")
         \/ \E c \in ById(u.channel, u.connector), p \in Processes :
              /\ Parse(u, c, p, task[u].actor).key # {}
              /\ aliases' = IF anonymize
                            THEN aliases \cup {[channel |-> u.channel,
                                                real |-> Parse(u, c, p, task[u].actor).external]}
                            ELSE aliases
              /\ \/ /\ KeyOf(u, c, p) \in processed /\ Finish(u, "known")
                    /\ UNCHANGED <<processed, rows, incoming>>
                 \/ /\ KeyOf(u, c, p) \notin processed /\ Finish(u, "queued")
                    /\ processed' = processed \cup {KeyOf(u, c, p)}
                    /\ rows' = [rows EXCEPT ![u] = @ + 1]
                    /\ incoming' = incoming \cup
                         {[update |-> u, connector |-> c,
                           identifier |-> Identifier(u, Parse(u, c, p, task[u].actor))]}
<1>1. PICK c \in ById(u.channel, u.connector), p \in Processes :
        LET v == Parse(u, c, p, task[u].actor)
        IN \/ /\ v.status # 200
              /\ Finish(u, IF v.status = 204 THEN "wrong" ELSE "error")
              /\ UNCHANGED <<aliases, processed, rows, incoming>>
           \/ \E key \in v.key :
                /\ aliases' = IF anonymize
                              THEN aliases \cup {[channel |-> u.channel, real |-> v.external]}
                              ELSE aliases
                /\ \/ /\ key \in processed
                      /\ Finish(u, "known")
                      /\ UNCHANGED <<processed, rows, incoming>>
                   \/ /\ key \notin processed
                      /\ Queue(u, v, c) /\ Mark(key)
                      /\ Finish(u, "queued")
  BY Zenon DEF Publish
<1> DEFINE v == Parse(u, c, p, task[u].actor)
<1>2. CASE /\ v.status # 200
           /\ Finish(u, IF v.status = 204 THEN "wrong" ELSE "error")
           /\ UNCHANGED <<aliases, processed, rows, incoming>>
  <2>1. Finish(u, "wrong") \/ Finish(u, "error")
    BY <1>2 DEF Finish
  <2> QED BY <1>2, <2>1
<1>3. ASSUME NEW key \in v.key,
             aliases' = IF anonymize
                        THEN aliases \cup {[channel |-> u.channel, real |-> v.external]}
                        ELSE aliases,
             \/ /\ key \in processed
                /\ Finish(u, "known")
                /\ UNCHANGED <<processed, rows, incoming>>
             \/ /\ key \notin processed
                /\ Queue(u, v, c) /\ Mark(key)
                /\ Finish(u, "queued")
      PROVE  /\ v.key # {}
             /\ aliases' = IF anonymize
                           THEN aliases \cup {[channel |-> u.channel, real |-> v.external]}
                           ELSE aliases
             /\ \/ /\ KeyOf(u, c, p) \in processed /\ Finish(u, "known")
                   /\ UNCHANGED <<processed, rows, incoming>>
                \/ /\ KeyOf(u, c, p) \notin processed /\ Finish(u, "queued")
                   /\ processed' = processed \cup {KeyOf(u, c, p)}
                   /\ rows' = [rows EXCEPT ![u] = @ + 1]
                   /\ incoming' = incoming \cup
                        {[update |-> u, connector |-> c, identifier |-> Identifier(u, v)]}
  <2>1. key = KeyOf(u, c, p)
    <3>1. v.key # {}
      BY <1>3
    <3>2. v.key = {KeyOf(u, c, p)}
      BY <3>1, ParseFacts
    <3> HIDE DEF v
    <3> QED BY <1>3, <3>2
  <2> HIDE DEF v
  <2> QED BY <1>3, <2>1 DEF Queue, Mark
<1> QED BY <1>1, <1>2, <1>3, Zenon

-----------------------------------------------------------------------------
(* Conversation: each part of the invariant.                               *)

Sound == CTypeOK /\ Actors /\ Writers /\ Keys /\ Ways /\ RepliesReachTheirWriter

Fields == [pc : {"idle", "insert", "publish"}, actor : Externals \cup {<<>>}, result : Results]

LEMMA CTypeStep ==
  ASSUME CTypeOK, Actors, [ConversationNext]_conversationVars
  PROVE  CTypeOK'
<1>10. \A u \in due : \A c, p, a : Parse(u, c, p, a).key # {} =>
         Parse(u, c, p, a).external = IF u.channel = "delta_chat" THEN a ELSE <<u.sender>>
  BY ParseFacts
<1>11. \A u \in due : u.channel \in Channels
  BY DueFacts
<1> USE DEF CTypeOK
<1>1. /\ due' \in Dues /\ hooks' \subseteq Channels /\ hooks' # {}
  BY SettingsStay
<1>2. Externals' = Externals /\ due' = due
  BY NamedStays, SettingsStay
<1>3. anonymize' \in BOOLEAN /\ switched' \in BOOLEAN
  <2>1. CASE Restart
    BY <2>1 DEF Restart
  <2>2. CASE UNCHANGED <<anonymize, switched>>
    BY <2>2
  <2>3. CASE UNCHANGED conversationVars
    BY <2>2, <2>3 DEF conversationVars, settings
  <2>4. ASSUME NEW u \in due, Receive(u) \/ Insert(u) \/ Publish(u)
        PROVE  UNCHANGED <<anonymize, switched>>
    BY <2>4 DEF Receive, Insert, Publish, settings
  <2>5. ASSUME NEW m \in incoming, Deliver(m) PROVE UNCHANGED <<anonymize, switched>>
    BY <2>5 DEF Deliver, settings
  <2>6. ASSUME NEW c \in Conversations, Write(c) PROVE UNCHANGED <<anonymize, switched>>
    BY <2>6 DEF Write, settings
  <2>7. ASSUME NEW r \in written, NEW url \in hooks, Webhook(r, url)
        PROVE  UNCHANGED <<anonymize, switched>>
    BY <2>7 DEF Webhook, settings
  <2>8. ASSUME NEW o \in outgoing, Send(o) PROVE UNCHANGED <<anonymize, switched>>
    BY <2>8 DEF Send, settings
  <2> QED BY <2>1, <2>2, <2>3, <2>4, <2>5, <2>6, <2>7, <2>8 DEF ConversationNext
<1>4. task \in [due -> Fields]
  BY DEF Fields
<1>5. ASSUME NEW u \in due, NEW r \in Results, Finish(u, r) PROVE task' \in [due -> Fields]
  <2>1. [NoTask EXCEPT !.result = r] \in Fields
    BY DEF NoTask, Fields
  <2> QED BY <1>4, <1>5, <2>1 DEF Finish
<1>6. ASSUME NEW u \in due, NEW pc \in {"insert", "publish"}, NEW a \in Externals \cup {<<>>},
             GoOn(u, pc, a)
      PROVE  task' \in [due -> Fields]
  <2>1. [task[u] EXCEPT !.pc = pc, !.actor = a] \in Fields
    BY <1>4 DEF Fields
  <2> QED BY <1>4, <1>6, <2>1 DEF GoOn
<1>7. task' \in [due -> Fields]
  <2>1. ASSUME NEW u \in due, Receive(u) PROVE task' \in [due -> Fields]
    <3>1. \A r \in {"no route", "error"} : r \in Results
      BY DEF Results
    <3>2. \A a \in Actor(u) : a \in Externals
      BY DEF Actor, Actors, Minted, Externals
    <3>3. NewActor(u) \in Externals
      BY DEF Externals
    <3> QED BY <1>5, <1>6, <2>1, <3>1, <3>2, <3>3 DEF Receive
  <2>2. ASSUME NEW u \in due, Insert(u) PROVE task' \in [due -> Fields]
    <3>1. task[u].actor \in Externals \cup {<<>>}
      BY <1>4 DEF Fields
    <3> QED BY <1>6, <2>2, <3>1 DEF Insert
  <2>3. ASSUME NEW u \in due, Publish(u) PROVE task' \in [due -> Fields]
    <3>1. \A r \in {"wrong", "error", "known", "queued"} : r \in Results
      BY DEF Results
    <3>2. \E r \in {"wrong", "error", "known", "queued"} : Finish(u, r)
      BY <2>3 DEF Publish
    <3> QED BY <1>5, <3>1, <3>2
  <2>4. CASE Restart
    <3>1. ASSUME NEW u \in due
          PROVE  [task[u] EXCEPT !.pc = "idle", !.actor = <<>>] \in Fields
      BY <1>4 DEF Fields
    <3> QED BY <2>4, <3>1 DEF Restart
  <2> QED BY <1>4, <2>1, <2>2, <2>3, <2>4, TaskStays
<1>8. rows' \in [due -> Nat]
  <2>1. ASSUME NEW u \in due, Publish(u) PROVE rows' \in [due -> Nat]
    BY <2>1 DEF Publish, Queue
  <2>2. ASSUME NEW u \in due, Receive(u) \/ Insert(u) PROVE rows' = rows
    BY <2>2 DEF Receive, Insert
  <2>3. CASE UNCHANGED conversationVars \/ Restart
    BY <2>3 DEF conversationVars, ingest, Restart
  <2>4. ASSUME NEW m \in incoming, Deliver(m) PROVE rows' = rows
    BY <2>4 DEF Deliver
  <2>5. ASSUME NEW c \in Conversations, Write(c) PROVE rows' = rows
    BY <2>5 DEF Write, ingest
  <2>6. ASSUME NEW r \in written, NEW url \in hooks, Webhook(r, url) PROVE rows' = rows
    BY <2>6 DEF Webhook, ingest
  <2>7. ASSUME NEW o \in outgoing, Send(o) PROVE rows' = rows
    BY <2>7 DEF Send, ingest
  <2> QED BY <2>1, <2>2, <2>3, <2>4, <2>5, <2>6, <2>7 DEF ConversationNext
<1>9. aliases' \subseteq [channel : Channels, real : Externals]
  <2>1. CASE aliases' = aliases
    BY <2>1
  <2>2. ASSUME NEW u \in due, Publish(u) PROVE aliases' \subseteq [channel : Channels, real : Externals]
    <3>1. ASSUME NEW c \in ById(u.channel, u.connector), NEW p \in Processes,
                 Parse(u, c, p, task[u].actor).key # {},
                 aliases' = IF anonymize
                            THEN aliases \cup {[channel |-> u.channel,
                                                real |-> Parse(u, c, p, task[u].actor).external]}
                            ELSE aliases
          PROVE  aliases' \subseteq [channel : Channels, real : Externals]
      <4>3. Parse(u, c, p, task[u].actor).external =
               IF u.channel = "delta_chat" THEN task[u].actor ELSE <<u.sender>>
        <5> HIDE DEF CTypeOK
        <5> QED BY <1>10, <3>1
      <4>1. Parse(u, c, p, task[u].actor).external \in Externals
        <5>1. CASE u.channel = "delta_chat"
          <6>1. Parse(u, c, p, task[u].actor).external = task[u].actor
            BY <4>3, <5>1
          <6>2. Named(u.channel, u.sender, task[u].actor)
            BY <2>2, <5>1 DEF Publish, Actors
          <6> QED BY <5>1, <6>1, <6>2 DEF Named, Externals
        <5>2. CASE u.channel # "delta_chat"
          <6>1. Parse(u, c, p, task[u].actor).external = <<u.sender>>
            BY <4>3, <5>2
          <6> QED BY <6>1 DEF Externals
        <5> QED BY <5>1, <5>2
      <4>2. u.channel \in Channels
        BY <1>11
      <4> QED BY <3>1, <4>1, <4>2
    <3> QED BY <2>1, <2>2, <3>1, PublishCases
  <2>3. ASSUME NEW u \in due, Receive(u) \/ Insert(u) PROVE aliases' = aliases
    BY <2>3 DEF Receive, Insert
  <2>4. CASE UNCHANGED conversationVars \/ Restart
    BY <2>1, <2>4 DEF conversationVars, Restart
  <2>5. ASSUME NEW m \in incoming, Deliver(m) PROVE aliases' = aliases
    BY <2>5 DEF Deliver
  <2>6. ASSUME NEW c \in Conversations, Write(c) PROVE aliases' = aliases
    BY <2>6 DEF Write
  <2>7. ASSUME NEW r \in written, NEW url \in hooks, Webhook(r, url) PROVE aliases' = aliases
    BY <2>7 DEF Webhook
  <2>8. ASSUME NEW o \in outgoing, Send(o) PROVE aliases' = aliases
    BY <2>8 DEF Send
  <2> QED BY <2>1, <2>2, <2>3, <2>4, <2>5, <2>6, <2>7, <2>8 DEF ConversationNext
<1> QED BY <1>1, <1>2, <1>3, <1>7, <1>8, <1>9 DEF Fields

LEMMA ActorsStep ==
  ASSUME CTypeOK, Actors, [ConversationNext]_conversationVars
  PROVE  Actors'
<1>1. due' = due /\ \A v : Minted(v) => Minted(v)'
  BY SettingsStay, MintedStays
<1>2. /\ \A a \in actors' : \E v \in due' :
            Minted(v)' /\ a = [address |-> v.sender, actor |-> NewActor(v)]
      /\ \A a, b \in actors' : a.address = b.address => a = b
  <2>1. CASE actors' = actors
    <3>1. \A a \in actors : \E v \in due : Minted(v) /\ a = [address |-> v.sender, actor |-> NewActor(v)]
      BY DEF Actors
    <3>2. \A a, b \in actors : a.address = b.address => a = b
      BY DEF Actors
    <3> QED BY <1>1, <2>1, <3>1, <3>2
  <2>2. ASSUME NEW u \in due, Insert(u)
        PROVE  /\ \A a \in actors' : \E v \in due' :
                    Minted(v)' /\ a = [address |-> v.sender, actor |-> NewActor(v)]
               /\ \A a, b \in actors' : a.address = b.address => a = b
    <3> DEFINE new == [address |-> u.sender, actor |-> NewActor(u)]
    <3>1. actors' = {b \in actors : b.address # u.sender} \cup {new}
      BY <2>2 DEF Insert, PutActor
    <3>2. u.channel = "delta_chat"
      BY <2>2 DEF Insert, Actors
    <3>3. task'[u].pc # "insert"
      BY <2>2 DEF Insert, GoOn, CTypeOK
    <3>4. new \in actors' /\ new.address = u.sender
      BY <3>1
    <3>5. Minted(u)'
      BY <1>1, <3>2, <3>3, <3>4 DEF Minted
    <3>6. \A a \in actors' : \E v \in due' :
            Minted(v)' /\ a = [address |-> v.sender, actor |-> NewActor(v)]
      <4>1. \A a \in actors : \E v \in due :
              Minted(v) /\ a = [address |-> v.sender, actor |-> NewActor(v)]
        BY DEF Actors
      <4>2. \A a \in actors' : a \in actors \/ a = new
        BY <3>1
      <4> QED BY <1>1, <3>5, <4>1, <4>2
    <3>7. \A a, b \in actors' : a.address = b.address => a = b
      <4>1. \A a, b \in actors : a.address = b.address => a = b
        BY DEF Actors
      <4> QED BY <3>1, <4>1
    <3> QED BY <3>6, <3>7
  <2> QED BY <2>1, <2>2, ActorsStay
<1>3. ASSUME NEW u \in due'
      PROVE  /\ task'[u].pc = "insert" => u.channel = "delta_chat" /\ task'[u].actor = NewActor(u)
             /\ task'[u].pc = "publish" /\ u.channel = "delta_chat" =>
                  \E v \in due' : Minted(v)' /\ v.sender = u.sender /\ task'[u].actor = NewActor(v)
  <2> USE DEF CTypeOK
  <2>1. /\ task[u].pc = "insert" => u.channel = "delta_chat" /\ task[u].actor = NewActor(u)
        /\ task[u].pc = "publish" /\ u.channel = "delta_chat" =>
             \E v \in due : Minted(v) /\ v.sender = u.sender /\ task[u].actor = NewActor(v)
    BY <1>1 DEF Actors, Named
  <2>2. CASE task'[u] = task[u] \/ task'[u].pc = "idle"
    BY <1>1, <2>1, <2>2
  <2>3. CASE Receive(u)
    <3>1. \A a \in Actor(u) : \E v \in due' : Minted(v)' /\ v.sender = u.sender /\ a = NewActor(v)
      <4>1. \A b \in actors : \E v \in due : Minted(v) /\ b = [address |-> v.sender, actor |-> NewActor(v)]
        BY DEF Actors
      <4>2. \A a \in Actor(u) : \E b \in actors : b.address = u.sender /\ a = b.actor
        BY Zenon DEF Actor
      <4>3. ASSUME NEW a \in Actor(u) PROVE \E v \in due : Minted(v) /\ v.sender = u.sender /\ a = NewActor(v)
        BY <4>1, <4>2
      <4> QED BY <1>1, <4>3
    <3>2. \/ \E r : Finish(u, r)
          \/ u.channel # "delta_chat" /\ \E pc \in {"publish"} : GoOn(u, pc, <<>>)
          \/ u.channel = "delta_chat" /\ \E a \in Actor(u) : GoOn(u, "publish", a)
          \/ u.channel = "delta_chat" /\ GoOn(u, "insert", NewActor(u))
      BY <2>3 DEF Receive
    <3>3. CASE \E r : Finish(u, r)
      BY <1>1, <2>2, <3>3 DEF Finish, NoTask
    <3>4. CASE u.channel # "delta_chat" /\ \E pc \in {"publish"} : GoOn(u, pc, <<>>)
      BY <1>1, <3>4 DEF GoOn
    <3>5. CASE u.channel = "delta_chat" /\ \E a \in Actor(u) : GoOn(u, "publish", a)
      BY <1>1, <3>1, <3>5 DEF GoOn
    <3>6. CASE u.channel = "delta_chat" /\ GoOn(u, "insert", NewActor(u))
      BY <1>1, <3>6 DEF GoOn
    <3> QED BY <3>2, <3>3, <3>4, <3>5, <3>6
  <2>4. CASE Insert(u)
    <3>1. /\ u.channel = "delta_chat" /\ task'[u].pc = "publish"
          /\ task'[u].actor = NewActor(u)
      BY <1>1, <2>1, <2>4 DEF Insert, GoOn
    <3> DEFINE new == [address |-> u.sender, actor |-> NewActor(u)]
    <3>2. new \in actors' /\ new.address = u.sender
      BY <2>4 DEF Insert, PutActor
    <3>3. Minted(u)'
      BY <1>1, <3>1, <3>2 DEF Minted
    <3> QED BY <1>1, <3>1, <3>3
  <2>5. CASE Publish(u)
    <3>1. task'[u].pc = "idle"
      BY <1>1, <2>5 DEF Publish, Finish, NoTask
    <3> QED BY <2>2, <3>1
  <2>6. ASSUME NEW v \in due, v # u, Receive(v) \/ Insert(v) \/ Publish(v)
        PROVE  task'[u] = task[u]
    BY <1>1, <2>6 DEF Receive, Insert, Publish, GoOn, Finish
  <2>7. CASE Restart
    BY <1>1, <2>2, <2>7 DEF Restart
  <2> QED BY <1>1, <2>2, <2>3, <2>4, <2>5, <2>6, <2>7, TaskStays
<1> QED BY <1>1, <1>2, <1>3 DEF Actors, Named

LEMMA IdentifierStep ==
  ASSUME CTypeOK, Actors, NEW u \in due, Publish(u), NEW c, NEW p,
         Parse(u, c, p, task[u].actor).key # {},
         aliases' = IF anonymize
                    THEN aliases \cup {[channel |-> u.channel,
                                        real |-> Parse(u, c, p, task[u].actor).external]}
                    ELSE aliases,
         NEW i, i = Identifier(u, Parse(u, c, p, task[u].actor))
  PROVE  Identifies(i, u.channel, u.sender)'
<1> DEFINE v == Parse(u, c, p, task[u].actor)
           e == v.external
<1>1. [ConversationNext]_conversationVars
  BY DEF ConversationNext
<1>2. e = IF u.channel = "delta_chat" THEN task[u].actor ELSE <<u.sender>>
  BY ParseFacts
<1>3. /\ due' = due /\ Externals' = Externals /\ \A x : Minted(x) => Minted(x)'
      /\ anonymize' = anonymize /\ switched' = switched
  BY <1>1, SettingsStay, NamedStays, MintedStays DEF Publish, settings
<1> HIDE DEF v
<1>4. /\ e \in Externals
      /\ u.channel = "delta_chat" =>
           \E x \in due' : Minted(x)' /\ x.sender = u.sender /\ e = NewActor(x)
  <2>1. CASE u.channel = "delta_chat"
    <3>1. Named(u.channel, u.sender, task[u].actor)
      BY <2>1 DEF Publish, Actors
    <3>2. PICK x \in due : Minted(x) /\ x.sender = u.sender /\ task[u].actor = NewActor(x)
      BY <2>1, <3>1 DEF Named
    <3> QED BY <1>2, <1>3, <2>1, <3>2 DEF Externals
  <2>2. CASE u.channel # "delta_chat"
    BY <1>2, <2>2 DEF Externals
  <2> QED BY <2>1, <2>2
<1>5. PICK f : f = e
  OBVIOUS
<1>6. f \in Externals' /\ Named(u.channel, u.sender, f)'
  BY <1>2, <1>3, <1>4, <1>5 DEF Named
<1>7. i = Identifier(u, v)
  BY DEF v
<1>8. Bears(i, u.channel, f)'
  <2>1. i = IF anonymize THEN Alias(u.channel, f) ELSE AddPrefix(f, u.channel)
    BY <1>5, <1>7 DEF Identifier
  <2>2. anonymize => [channel |-> u.channel, real |-> f] \in aliases'
    BY <1>5 DEF v
  <2>3. anonymize \in BOOLEAN
    BY DEF CTypeOK
  <2> QED BY <1>3, <2>1, <2>2, <2>3 DEF Bears
<1> QED BY <1>6, <1>8 DEF Identifies

LEMMA WritersStep ==
  ASSUME CTypeOK, Actors, Writers, [ConversationNext]_conversationVars
  PROVE  Writers'
<1>1. /\ due' = due /\ wrote \subseteq wrote'
      /\ \A i, c, a : Identifies(i, c, a) => Identifies(i, c, a)'
  BY SettingsStay, NamedStays
<1>2. \A m \in incoming : /\ m.update \in due
                          /\ m.connector \in ById(m.update.channel, m.update.connector)
                          /\ Identifies(m.identifier, m.update.channel, m.update.sender)
  BY DEF Writers
<1>3. ASSUME NEW m \in incoming'
      PROVE  /\ m.update \in due'
             /\ m.connector \in ById(m.update.channel, m.update.connector)
             /\ Identifies(m.identifier, m.update.channel, m.update.sender)'
  <2>1. CASE m \in incoming
    BY <1>1, <1>2, <2>1
  <2>2. ASSUME NEW u \in due, Publish(u), m \notin incoming
        PROVE  /\ m.update \in due'
               /\ m.connector \in ById(m.update.channel, m.update.connector)
               /\ Identifies(m.identifier, m.update.channel, m.update.sender)'
    <3>1. PICK c \in ById(u.channel, u.connector), p \in Processes :
            /\ Parse(u, c, p, task[u].actor).key # {}
            /\ aliases' = IF anonymize
                          THEN aliases \cup {[channel |-> u.channel,
                                              real |-> Parse(u, c, p, task[u].actor).external]}
                          ELSE aliases
            /\ m = [update |-> u, connector |-> c,
                    identifier |-> Identifier(u, Parse(u, c, p, task[u].actor))]
      BY <2>2, PublishCases
    <3>2. Identifies(m.identifier, u.channel, u.sender)'
      BY <2>2, <3>1, IdentifierStep
    <3> QED BY <1>1, <3>1, <3>2
  <2>3. ASSUME NEW n \in incoming, Deliver(n) PROVE m \in incoming
    BY <2>3 DEF Deliver
  <2>4. ASSUME NEW u \in due, Receive(u) \/ Insert(u) PROVE m \in incoming
    BY <2>4 DEF Receive, Insert
  <2>5. ASSUME NEW c \in Conversations, Write(c) PROVE m \in incoming
    BY <2>5 DEF Write, ingest
  <2>6. ASSUME NEW r \in written, NEW url \in hooks, Webhook(r, url) PROVE m \in incoming
    BY <2>6 DEF Webhook, ingest
  <2>7. ASSUME NEW o \in outgoing, Send(o) PROVE m \in incoming
    BY <2>7 DEF Send, ingest
  <2>8. CASE Restart \/ UNCHANGED conversationVars
    BY <2>1, <2>8 DEF Restart, conversationVars, ingest
  <2> QED BY <2>1, <2>2, <2>3, <2>4, <2>5, <2>6, <2>7, <2>8 DEF ConversationNext
<1>4. \A w \in wrote : /\ w.connector \in Connectors /\ w.connector.channel \in Channels
                       /\ w.conv = [identifier |-> w.conv.identifier, inbox |-> w.connector.inbox]
                       /\ Identifies(w.conv.identifier, w.connector.channel, w.address)
  BY DEF Writers
<1>5. ASSUME NEW w \in wrote'
      PROVE  /\ w.connector \in Connectors /\ w.connector.channel \in Channels
             /\ w.conv = [identifier |-> w.conv.identifier, inbox |-> w.connector.inbox]
             /\ Identifies(w.conv.identifier, w.connector.channel, w.address)'
  <2>1. CASE w \in wrote
    BY <1>1, <1>4, <2>1
  <2>2. ASSUME NEW m \in incoming, Deliver(m), w \notin wrote
        PROVE  /\ w.connector \in Connectors /\ w.connector.channel \in Channels
               /\ w.conv = [identifier |-> w.conv.identifier, inbox |-> w.connector.inbox]
               /\ Identifies(w.conv.identifier, w.connector.channel, w.address)'
    <3>1. w = [conv |-> [identifier |-> m.identifier, inbox |-> m.connector.inbox],
               connector |-> m.connector, address |-> m.update.sender]
      BY <2>2 DEF Deliver
    <3>2. m.connector \in Connectors /\ m.connector.channel = m.update.channel
      BY <1>2 DEF ById
    <3>3. m.update.channel \in Channels
      BY <1>2, DueFacts
    <3> QED BY <1>1, <1>2, <3>1, <3>2, <3>3
  <2>3. ASSUME NEW u \in due, Receive(u) \/ Insert(u) \/ Publish(u) PROVE w \in wrote
    BY <2>3 DEF Receive, Insert, Publish
  <2>4. ASSUME NEW c \in Conversations, Write(c) PROVE w \in wrote
    BY <2>4 DEF Write
  <2>5. ASSUME NEW r \in written, NEW url \in hooks, Webhook(r, url) PROVE w \in wrote
    BY <2>5 DEF Webhook
  <2>6. ASSUME NEW o \in outgoing, Send(o) PROVE w \in wrote
    BY <2>6 DEF Send
  <2>7. CASE Restart \/ UNCHANGED conversationVars
    BY <2>1, <2>7 DEF Restart, conversationVars
  <2> QED BY <2>1, <2>2, <2>3, <2>4, <2>5, <2>6, <2>7 DEF ConversationNext
<1>6. ASSUME NEW r \in written'
      PROVE  r = [conv |-> r.conv, n |-> r.n] /\ \E w \in wrote' : r.conv = w.conv
  <2>1. CASE r \in written
    BY <1>1, <2>1 DEF Writers
  <2>2. ASSUME NEW c \in Conversations, Write(c), r \notin written
        PROVE  r = [conv |-> r.conv, n |-> r.n] /\ \E w \in wrote' : r.conv = w.conv
    BY <1>1, <2>2 DEF Write, Conversations
  <2>3. ASSUME NEW u \in due, Receive(u) \/ Insert(u) \/ Publish(u) PROVE r \in written
    BY <2>3 DEF Receive, Insert, Publish, back
  <2>4. ASSUME NEW m \in incoming, Deliver(m) PROVE r \in written
    BY <2>4 DEF Deliver, back
  <2>5. ASSUME NEW q \in written, NEW url \in hooks, Webhook(q, url) PROVE r \in written
    BY <2>5 DEF Webhook
  <2>6. ASSUME NEW o \in outgoing, Send(o) PROVE r \in written
    BY <2>6 DEF Send
  <2>7. CASE Restart \/ UNCHANGED conversationVars
    BY <2>1, <2>7 DEF Restart, conversationVars, back
  <2> QED BY <2>1, <2>2, <2>3, <2>4, <2>5, <2>6, <2>7 DEF ConversationNext
<1> QED BY <1>3, <1>5, <1>6 DEF Writers

(* Two messages have the same key only if they are one message, or of one  *)
(* Session writer, with the same text and without ids, or of one Telegram  *)
(* writer, with the same number in two chats.                              *)
THEOREM KeysDiffer ==
  ASSUME CTypeOK, NEW u \in due, NEW v \in due, Numbered(u), Numbered(v),
         NEW c \in ById(u.channel, u.connector), NEW d \in ById(v.channel, v.connector),
         NEW p, NEW q, KeyOf(u, c, p) = KeyOf(v, d, q)
  PROVE  u = v \/ TakenFor(u, v)
<1>1. /\ u.channel = v.channel /\ c.id = d.id /\ ExtraOf(u, c) = ExtraOf(v, d)
      /\ <<u.sender>> = <<v.sender>> /\ MessageOf(u, p) = MessageOf(v, q)
  BY DEF KeyOf, Key
<1>2. u.sender = v.sender /\ u.connector = v.connector
  BY <1>1 DEF ById
<1>3. CASE u.channel \notin {"session", "email"}
  <2>1. <<u.message>> = <<v.message>>
    BY <1>1, <1>3 DEF MessageOf
  <2>2. u.message = v.message /\ u.message # None
    BY <2>1, <1>3 DEF Numbered
  <2> QED BY <1>1, <1>2, <1>3, <2>2, DueFacts DEF TakenFor
<1>4. CASE u.channel = "email"
  <2>1. <<c.salt, u.id>> = <<d.salt, v.id>>
    BY <1>1, <1>4 DEF ExtraOf
  <2>2. u.id = v.id
    BY <2>1
  <2> QED BY <2>2, DueFacts
<1>5. CASE u.channel = "session"
  <2>1. SessionMessageId(u, p) = SessionMessageId(v, q)
    BY <1>1, <1>5 DEF MessageOf
  <2>2. CASE u.message # None /\ v.message # None
    <3>1. <<u.message>> = <<v.message>>
      BY <2>1, <2>2 DEF SessionMessageId
    <3>2. u.message = v.message
      BY <3>1
    <3> QED BY <1>1, <1>2, <1>5, <2>2, <3>2, DueFacts DEF TakenFor
  <2>3. CASE u.message = None /\ v.message = None
    <3>1. <<u.sender, u.text, p>> = <<v.sender, v.text, q>>
      BY <2>1, <2>3 DEF SessionMessageId
    <3>2. u.text = v.text
      BY <3>1
    <3> QED BY <1>2, <1>5, <2>3, <3>2 DEF TakenFor, Keyless
  <2>4. CASE u.message = None /\ v.message # None
    <3>1. <<u.sender, u.text, p>> = <<v.message>>
      BY <2>1, <2>4 DEF SessionMessageId
    <3> QED BY <3>1
  <2>5. CASE u.message # None /\ v.message = None
    <3>1. <<u.message>> = <<v.sender, v.text, q>>
      BY <2>1, <2>5 DEF SessionMessageId
    <3> QED BY <3>1
  <2> QED BY <2>2, <2>3, <2>4, <2>5
<1> QED BY <1>3, <1>4, <1>5

LEMMA OwnKey ==
  ASSUME NEW u, ~Keyless(u), NEW c \in ById(u.channel, u.connector),
         NEW d \in ById(u.channel, u.connector), NEW p, NEW q
  PROVE  KeyOf(u, c, p) = KeyOf(u, d, q)
<1>1. c = d
  BY EnvelopesAssumption DEF ById
<1>2. MessageOf(u, p) = MessageOf(u, q)
  BY DEF MessageOf, Keyless, SessionMessageId
<1> QED BY <1>1, <1>2 DEF KeyOf

LEMMA ReplyFacts ==
  ASSUME NEW c, c.channel \in Channels, NEW to, NEW first
  PROVE  Reply(c, to, first).from = "chatwoot" /\ Reply(c, to, first).message = first
BY DEF Channels, Reply, TelegramReply, WhatsAppReply, IMessageReply, SignalReply, SimplexReply,
       SessionReply, EmailReply, DeltaChatReply, ReplyKey, Key

LEMMA KnownOnce ==
  ASSUME CTypeOK, Keys, NEW u \in due, Numbered(u), NEW c \in ById(u.channel, u.connector),
         NEW p \in Processes, KeyOf(u, c, p) \in processed
  PROVE  rows[u] > 0 \/ Taken(u)
<1>1. KeyOf(u, c, p).from # "chatwoot"
  BY DueFacts DEF KeyOf, Key, Channels
<1>2. PICK v \in due : /\ rows[v] > 0 /\ Numbered(v)
                       /\ \E d \in ById(v.channel, v.connector), q \in Processes :
                            KeyOf(u, c, p) = KeyOf(v, d, q)
  BY <1>1 DEF Keys
<1>3. u = v \/ TakenFor(u, v)
  BY <1>2, KeysDiffer
<1> QED BY <1>2, <1>3 DEF Taken

(* The rows and results of a step that puts no row in.                     *)
LEMMA KeysSame ==
  ASSUME CTypeOK, Keys, [ConversationNext]_conversationVars, rows' = rows,
         \A u \in due : task'[u].result = task[u].result \/ task'[u].result # "known",
         \A k \in processed' \ processed :
           k.from = "chatwoot" /\ \E a \in answers' : a.result = "queued" /\ k.message = MessageId(a.first)
  PROVE  Keys'
<1>1. /\ due' = due /\ processed \subseteq processed' /\ answers \subseteq answers'
  BY SettingsStay
<1>2. ASSUME NEW k \in processed'
      PROVE  \/ /\ k.from = "chatwoot"
                /\ \E a \in answers' : a.result = "queued" /\ k.message = MessageId(a.first)
             \/ \E v \in due' : /\ rows'[v] > 0 /\ Numbered(v)
                                /\ \E c \in ById(v.channel, v.connector), p \in Processes :
                                     k = KeyOf(v, c, p)
  <2>1. CASE k \in processed
    BY <1>1, <2>1 DEF Keys
  <2>2. CASE k \notin processed
    BY <2>2
  <2> QED BY <2>1, <2>2
<1>3. ASSUME NEW u \in due'
      PROVE  /\ task'[u].result = "known" => rows'[u] > 0 \/ Taken(u)'
             /\ Keyless(u) \/ rows'[u] < 2
             /\ \/ Keyless(u) \/ rows'[u] = 0
                \/ \A c \in ById(u.channel, u.connector), p \in Processes :
                     KeyOf(u, c, p) \in processed'
  BY <1>1 DEF Keys, Taken
<1> QED BY <1>2, <1>3 DEF Keys

LEMMA KeysPublished ==
  ASSUME CTypeOK, Keys, NEW u \in due, Publish(u)
  PROVE  Keys'
<1> USE DEF CTypeOK
<1>1. [ConversationNext]_conversationVars
  BY DEF ConversationNext
<1>2. due' = due /\ answers' = answers /\ processed \subseteq processed'
  BY <1>1, SettingsStay DEF Publish, back
<1>3. \A w \in due \ {u} : task'[w] = task[w]
  BY DEF Publish, Finish
<1>4. CASE UNCHANGED <<processed, rows>> /\ (Finish(u, "wrong") \/ Finish(u, "error"))
  <2>1. task'[u].result # "known"
    BY <1>4 DEF Finish, NoTask
  <2> QED BY <1>1, <1>3, <1>4, <2>1, KeysSame
<1>5. ASSUME NEW c \in ById(u.channel, u.connector), NEW p \in Processes, Numbered(u),
             KeyOf(u, c, p) \in processed, Finish(u, "known"), UNCHANGED <<processed, rows>>
      PROVE  Keys'
  <2>1. rows[u] > 0 \/ Taken(u)
    BY <1>5, KnownOnce
  <2>2. \A w \in due : /\ task'[w].result = "known" => rows'[w] > 0 \/ Taken(w)'
                       /\ Keyless(w) \/ rows'[w] < 2
                       /\ \/ Keyless(w) \/ rows'[w] = 0
                          \/ \A d \in ById(w.channel, w.connector), q \in Processes :
                               KeyOf(w, d, q) \in processed'
    BY <1>2, <1>3, <1>5, <2>1 DEF Keys, Taken
  <2> QED BY <1>2, <1>5, <2>2 DEF Keys
<1>6. ASSUME NEW c \in ById(u.channel, u.connector), NEW p \in Processes, Numbered(u),
             KeyOf(u, c, p) \notin processed, Finish(u, "queued"),
             processed' = processed \cup {KeyOf(u, c, p)}, rows' = [rows EXCEPT ![u] = @ + 1]
      PROVE  Keys'
  <2>1. rows'[u] = rows[u] + 1 /\ rows[u] \in Nat /\ \A w \in due \ {u} : rows'[w] = rows[w]
    BY <1>6
  <2>2. task'[u].result # "known"
    BY <1>6 DEF Finish, NoTask
  <2>3. Keyless(u) \/ rows[u] = 0
    BY <1>6 DEF Keys
  <2>4. ~Keyless(u) => \A d \in ById(u.channel, u.connector), q \in Processes :
                         KeyOf(u, d, q) \in processed'
    BY <1>6, OwnKey
  <2>5. \A w \in due : /\ task'[w].result = "known" => rows'[w] > 0 \/ Taken(w)'
                       /\ Keyless(w) \/ rows'[w] < 2
                       /\ \/ Keyless(w) \/ rows'[w] = 0
                          \/ \A d \in ById(w.channel, w.connector), q \in Processes :
                               KeyOf(w, d, q) \in processed'
    <3> TAKE w \in due
    <3>1. CASE w = u
      BY <2>1, <2>2, <2>3, <2>4, <3>1
    <3>2. CASE w # u
      <4>1. Taken(w) => Taken(w)'
        BY <1>2, <2>1 DEF Taken
      <4> QED BY <1>2, <1>3, <2>1, <3>2, <4>1 DEF Keys
    <3> QED BY <3>1, <3>2
  <2>6. \A v \in due : rows[v] > 0 => rows'[v] > 0
    BY <2>1
  <2>7. ASSUME NEW k \in processed'
        PROVE  \/ /\ k.from = "chatwoot"
                  /\ \E a \in answers' : a.result = "queued" /\ k.message = MessageId(a.first)
               \/ \E v \in due' : /\ rows'[v] > 0 /\ Numbered(v)
                                  /\ \E d \in ById(v.channel, v.connector), q \in Processes :
                                       k = KeyOf(v, d, q)
    <3>1. CASE k \in processed
      BY <1>2, <2>6, <3>1 DEF Keys
    <3>2. CASE k = KeyOf(u, c, p)
      BY <1>2, <1>6, <2>1, <3>2
    <3> QED BY <1>6, <3>1, <3>2
  <2> QED BY <1>2, <2>5, <2>7 DEF Keys
<1>7. \A c, p : Parse(u, c, p, task[u].actor).key # {} => Numbered(u)
  BY ParseFacts
<1> QED BY <1>4, <1>5, <1>6, <1>7, PublishCases

LEMMA TargetIsChannel ==
  ASSUME CTypeOK, NEW i, NEW url \in hooks
  PROVE  Target(i, url) \in Channels
BY DEF Target, CTypeOK

(* The webhook of a reply: no route, a key that is known, or a row.        *)
LEMMA WebhookCases ==
  ASSUME NEW r \in written, NEW url \in hooks, Webhook(r, url)
  PROVE  /\ UNCHANGED <<settings, ingest, aliases, wrote, written, delivered>>
         /\ \E first \in {q \in written : q.conv = r.conv} :
              LET channel == Target(r.conv.identifier, url)
                  connectors == RouteByInbox(channel, r.conv.inbox)
                  recipients == Recipients(r.conv.identifier, url)
              IN \/ /\ connectors = {} \/ recipients = {}
                    /\ Result(r, url, first, "no route")
                    /\ UNCHANGED <<processed, outgoing>>
                 \/ \E c \in connectors, to \in recipients :
                      \/ /\ Reply(c, to, MessageId(first)) \in processed
                         /\ Result(r, url, first, "known")
                         /\ UNCHANGED <<processed, outgoing>>
                      \/ /\ processed' = processed \cup {Reply(c, to, MessageId(first))}
                         /\ outgoing' = outgoing \cup {[reply |-> r, connector |-> c, to |-> to]}
                         /\ Result(r, url, first, "queued")
BY DEF Webhook

LEMMA KeysStep ==
  ASSUME CTypeOK, Keys, [ConversationNext]_conversationVars
  PROVE  Keys'
<1>1. ASSUME NEW u \in due, Receive(u) \/ Insert(u) PROVE Keys'
  <2>1. rows' = rows /\ processed' = processed
    BY <1>1 DEF Receive, Insert
  <2>2. \A w \in due : task'[w].result = task[w].result \/ task'[w].result # "known"
    <3>1. ASSUME NEW pc, NEW a, GoOn(u, pc, a)
          PROVE  \A w \in due : task'[w].result = task[w].result
      BY <3>1 DEF GoOn, CTypeOK
    <3>2. ASSUME NEW r, r # "known", Finish(u, r)
          PROVE  \A w \in due : task'[w] = task[w] \/ task'[w].result # "known"
      BY <3>2 DEF Finish, NoTask, CTypeOK
    <3>3. \/ \E pc, a : GoOn(u, pc, a)
          \/ Finish(u, "no route") \/ Finish(u, "error")
      BY <1>1 DEF Receive, Insert
    <3> QED BY <3>1, <3>2, <3>3
  <2> QED BY <2>1, <2>2, KeysSame
<1>2. ASSUME NEW u \in due, Publish(u) PROVE Keys'
  BY <1>2, KeysPublished
<1>3. CASE /\ UNCHANGED <<rows, processed>>
           /\ \A w \in due : task'[w].result = task[w].result
  BY <1>3, KeysSame
<1>4. ASSUME NEW m \in incoming, Deliver(m) PROVE Keys'
  BY <1>3, <1>4 DEF Deliver
<1>5. ASSUME NEW c \in Conversations, Write(c) PROVE Keys'
  BY <1>3, <1>5 DEF Write, ingest
<1>6. ASSUME NEW o \in outgoing, Send(o) PROVE Keys'
  BY <1>3, <1>6 DEF Send, ingest
<1>7. CASE UNCHANGED conversationVars
  BY <1>3, <1>7 DEF conversationVars, ingest
<1>8. CASE Restart
  BY <1>3, <1>8 DEF Restart, CTypeOK
<1>9. ASSUME NEW r \in written, NEW url \in hooks, Webhook(r, url) PROVE Keys'
  <2>1. rows' = rows /\ task' = task
    BY <1>9 DEF Webhook, ingest
  <2>2. ASSUME NEW first \in {q \in written : q.conv = r.conv},
               NEW c \in RouteByInbox(Target(r.conv.identifier, url), r.conv.inbox), NEW to,
               processed' = processed \cup {Reply(c, to, MessageId(first))},
               Result(r, url, first, "queued")
        PROVE  \A k \in processed' \ processed :
                 /\ k.from = "chatwoot"
                 /\ \E a \in answers' : a.result = "queued" /\ k.message = MessageId(a.first)
    <3> DEFINE a == [reply |-> r, url |-> url, first |-> first, result |-> "queued"]
    <3>1. a \in answers' /\ a.result = "queued" /\ a.first = first
      BY <2>2 DEF Result
    <3>2. c.channel \in Channels
      BY TargetIsChannel DEF RouteByInbox, ByInbox
    <3>3. /\ Reply(c, to, MessageId(first)).from = "chatwoot"
          /\ Reply(c, to, MessageId(first)).message = MessageId(first)
      BY <3>2, ReplyFacts
    <3> HIDE DEF a
    <3> QED BY <2>2, <3>1, <3>3
  <2>3. \A k \in processed' \ processed :
          /\ k.from = "chatwoot"
          /\ \E a \in answers' : a.result = "queued" /\ k.message = MessageId(a.first)
    <3>1. PICK first \in {q \in written : q.conv = r.conv} :
            \/ processed' = processed
            \/ \E c \in RouteByInbox(Target(r.conv.identifier, url), r.conv.inbox),
                  to \in Recipients(r.conv.identifier, url) :
                 /\ processed' = processed \cup {Reply(c, to, MessageId(first))}
                 /\ Result(r, url, first, "queued")
      BY <1>9, WebhookCases
    <3> QED BY <2>2, <3>1
  <2> QED BY <2>1, <2>3, KeysSame
<1> QED BY <1>1, <1>2, <1>4, <1>5, <1>6, <1>7, <1>8, <1>9 DEF ConversationNext

-----------------------------------------------------------------------------
(* Conversation: the way back.                                             *)

LEMMA WriterFacts ==
  ASSUME Writers, NEW w \in wrote
  PROVE  /\ w.connector \in Connectors /\ w.connector.channel \in Channels
         /\ w.conv = [identifier |-> w.conv.identifier, inbox |-> w.connector.inbox]
         /\ w.conv.inbox = w.connector.inbox
         /\ \E e \in Externals : /\ Named(w.connector.channel, w.address, e)
                                 /\ Bears(w.conv.identifier, w.connector.channel, e)
<1>1. /\ w.connector \in Connectors /\ w.connector.channel \in Channels
      /\ w.conv = [identifier |-> w.conv.identifier, inbox |-> w.connector.inbox]
      /\ Identifies(w.conv.identifier, w.connector.channel, w.address)
  BY DEF Writers
<1>2. w.conv.inbox = w.connector.inbox
  BY <1>1
<1> QED BY <1>1, <1>2 DEF Identifies

(* A conversation is one connector's.                                      *)
LEMMA OneConnector ==
  ASSUME Writers, NEW v \in wrote, NEW w \in wrote, v.conv = w.conv
  PROVE  v.connector = w.connector
<1>1. v.connector \in Connectors /\ v.conv.inbox = v.connector.inbox
  BY WriterFacts
<1>2. w.connector \in Connectors /\ w.conv.inbox = w.connector.inbox
  BY WriterFacts
<1> QED BY <1>1, <1>2, EnvelopesAssumption

(* A reply goes by the connector of its conversation, and to its writer in *)
(* the form the channel knows him by, unless the setting has changed.      *)
LEMMA ReplyHeads ==
  ASSUME CTypeOK, Writers, NEW r \in written, NEW url \in hooks,
         NEW c \in RouteByInbox(Target(r.conv.identifier, url), r.conv.inbox),
         NEW to \in Recipients(r.conv.identifier, url),
         NEW o, o = [reply |-> r, connector |-> c, to |-> to]
  PROVE  \E w \in wrote : Heads(o, w)
<1>1. PICK w \in wrote : r.conv = w.conv
  BY DEF Writers
<1>2. PICK e \in Externals : /\ Named(w.connector.channel, w.address, e)
                             /\ Bears(w.conv.identifier, w.connector.channel, e)
  BY WriterFacts
<1> DEFINE i == w.conv.identifier
           ch == w.connector.channel
<1>3. ch \in Channels /\ w.connector \in Connectors /\ w.conv.inbox = w.connector.inbox
  BY WriterFacts
<1>4. c = w.connector
  BY <1>1, <1>3, EnvelopesAssumption DEF RouteByInbox, ByInbox
<1>5. /\ Head(i) \in Channels => i = AddPrefix(e, ch) /\ Head(i) = ch
      /\ Head(i) \notin Channels => i = Alias(ch, e)
  BY <1>2, <1>3, BearsFacts
<1>6. url \in Channels /\ anonymize \in BOOLEAN
  BY DEF CTypeOK
<1>9. /\ Head(AddPrefix(e, ch)) = ch /\ StripPrefix(AddPrefix(e, ch), ch) = e
      /\ Head(Alias(ch, e)) \notin Channels
  <2>1. Head(AddPrefix(e, ch)) = ch /\ StripPrefix(AddPrefix(e, ch), ch) = e
    BY <1>2, PrefixFacts, Zenon
  <2>2. Head(Alias(ch, e)) \notin Channels
    BY <1>2, AliasFacts, Zenon
  <2> QED BY <2>1, <2>2
<1>10. ASSUME NEW f \in Externals, NEW d, NEW b, Alias(d, f) = Alias(b, e) PROVE f = e
  BY <1>2, <1>10, AliasOne, Zenon
<1>7. to = e \/ (switched /\ to = i)
  <2>1. CASE anonymize /\ Head(i) \in Channels
    <3>1. to = i
      BY <1>1, <2>1 DEF Recipients
    <3>2. i # Alias(ch, e)
      BY <1>9, <2>1
    <3>3. switched
      BY <1>2, <2>1, <3>2 DEF Bears
    <3> QED BY <3>1, <3>3
  <2>2. CASE anonymize /\ Head(i) \notin Channels
    <3>1. PICK a \in aliases : Alias(a.channel, a.real) = i /\ to = a.real
      BY <1>1, <2>2 DEF Recipients, RealIds
    <3>2. a.real \in Externals
      BY DEF CTypeOK
    <3> QED BY <1>5, <1>10, <2>2, <3>1, <3>2
  <2>3. CASE ~anonymize
    <3>1. to = StripPrefix(i, Target(i, url))
      BY <1>1, <2>3 DEF Recipients
    <3>2. CASE Head(i) \in Channels
      <4>1. Target(i, url) = ch /\ i = AddPrefix(e, ch)
        BY <1>5, <3>2 DEF Target
      <4> QED BY <1>9, <3>1, <4>1
    <3>3. CASE Head(i) \notin Channels
      <4>1. Target(i, url) = url /\ Head(i) # url
        BY <1>6, <3>3 DEF Target
      <4>2. to = i
        BY <3>1, <4>1 DEF StripPrefix
      <4>3. i # AddPrefix(e, ch)
        BY <1>3, <1>9, <3>3
      <4>4. switched
        BY <1>2, <2>3, <4>3 DEF Bears
      <4> QED BY <4>2, <4>4
    <3> QED BY <3>2, <3>3
  <2> QED BY <1>6, <2>1, <2>2, <2>3
<1>8. Heads(o, w)
  BY <1>1, <1>2, <1>4, <1>7 DEF Heads
<1> QED BY <1>8

(* A webhook finds no route only for an alias that comes in by the URL of  *)
(* another channel, unless the setting has changed.                        *)
LEMMA NoRouteFound ==
  ASSUME CTypeOK, Writers, NEW r \in written, NEW url \in hooks,
         \/ RouteByInbox(Target(r.conv.identifier, url), r.conv.inbox) = {}
         \/ Recipients(r.conv.identifier, url) = {}
  PROVE  switched \/ Elsewhere(r, url)
<1> SUFFICES ASSUME ~switched PROVE Elsewhere(r, url)
  OBVIOUS
<1>1. PICK w \in wrote : r.conv = w.conv
  BY DEF Writers
<1>2. PICK e \in Externals : /\ Named(w.connector.channel, w.address, e)
                             /\ Bears(w.conv.identifier, w.connector.channel, e)
  BY WriterFacts
<1> DEFINE i == w.conv.identifier
           ch == w.connector.channel
<1>3. ch \in Channels /\ w.connector \in Connectors /\ w.conv.inbox = w.connector.inbox
  BY WriterFacts
<1>4. /\ Head(i) \in Channels => i = AddPrefix(e, ch) /\ Head(i) = ch
      /\ Head(i) \notin Channels => i = Alias(ch, e) /\ [channel |-> ch, real |-> e] \in aliases
  BY <1>2, <1>3, BearsFacts
<1>5. Target(i, url) = ch => w.connector \in RouteByInbox(Target(i, url), w.conv.inbox)
  BY <1>3 DEF RouteByInbox, ByInbox
<1>6. Head(i) \notin Channels
  <2>1. SUFFICES ASSUME Head(i) \in Channels PROVE FALSE
    OBVIOUS
  <2>2. Target(i, url) = ch
    BY <1>4, <2>1 DEF Target
  <2>3. ~anonymize
    <3>1. i # Alias(ch, e)
      BY <1>2, <2>1, AliasFacts
    <3> QED BY <1>2, <3>1 DEF Bears
  <2>4. Recipients(i, url) = {StripPrefix(i, Target(i, url))}
    BY <2>3 DEF Recipients
  <2> QED BY <1>1, <1>5, <2>2, <2>4
<1>7. RouteByInbox(Target(i, url), w.conv.inbox) = {}
  <2>1. anonymize
    <3>2. Head(AddPrefix(e, ch)) = ch
      BY <1>2, PrefixFacts, Zenon
    <3>1. i # AddPrefix(e, ch)
      BY <1>3, <1>6, <3>2
    <3> QED BY <1>2, <3>1 DEF Bears
  <2> DEFINE a == [channel |-> ch, real |-> e]
  <2>2. a \in aliases /\ Alias(a.channel, a.real) = i
    BY <1>4, <1>6
  <2> HIDE DEF a
  <2>3. RealIds(i) # {}
    BY <2>2 DEF RealIds
  <2>4. Recipients(i, url) # {}
    BY <1>6, <2>1, <2>3 DEF Recipients
  <2> QED BY <1>1, <2>4
<1>8. Target(i, url) = url
  BY <1>6 DEF Target
<1>9. w.connector.channel # url
  BY <1>5, <1>7, <1>8
<1>10. \A v \in wrote : v.conv = r.conv => v.connector.channel # url
  BY <1>1, <1>9, OneConnector
<1> QED BY <1>1, <1>6, <1>10 DEF Elsewhere

(* No two replies have one id.                                             *)
LEMMA MessageIds ==
  ASSUME CTypeOK, Writers, NEW q \in written, NEW r \in written, MessageId(q) = MessageId(r)
  PROVE  q = r
<1> DEFINE S == Words \cup Channels \cup {"alias"}
<1>1. ASSUME NEW x \in written PROVE /\ x.conv.identifier \in Seq(S)
                                     /\ x.conv = [identifier |-> x.conv.identifier,
                                                  inbox |-> x.conv.inbox]
                                     /\ x = [conv |-> x.conv, n |-> x.n]
  <2>1. PICK w \in wrote : x.conv = w.conv
    BY DEF Writers
  <2>2. PICK e \in Externals : Bears(w.conv.identifier, w.connector.channel, e)
    BY WriterFacts
  <2>3. w.connector.channel \in Channels /\ w.conv.inbox = w.connector.inbox
    BY WriterFacts
  <2> DEFINE ch == w.connector.channel
  <2>4. /\ Words \cup {"alias", ch} \subseteq S
        /\ Words \cup {ch} \subseteq S
    BY <2>3
  <2>5. AddPrefix(e, ch) \in Seq(Words \cup {ch})
    BY <2>2, PrefixFacts, Zenon
  <2>6. Alias(ch, e) \in Seq(Words \cup {"alias", ch})
    BY <2>2, AliasFacts, Zenon
  <2>7. AddPrefix(e, ch) \in Seq(S) /\ Alias(ch, e) \in Seq(S)
    <3>1. Seq(Words \cup {"alias", ch}) \subseteq Seq(S)
      BY <2>4, SeqMonotonic
    <3>2. Seq(Words \cup {ch}) \subseteq Seq(S)
      BY <2>4, SeqMonotonic
    <3> QED BY <2>5, <2>6, <3>1, <3>2
  <2>8. x.conv.identifier \in Seq(S)
    BY <2>1, <2>2, <2>7 DEF Bears
  <2>9. w.conv = [identifier |-> w.conv.identifier, inbox |-> w.conv.inbox]
    <3>1. w.conv = [identifier |-> w.conv.identifier, inbox |-> w.connector.inbox]
      BY DEF Writers
    <3> QED BY <2>3, <3>1
  <2> QED BY <2>1, <2>8, <2>9 DEF Writers
<1>2. <<q.n, q.conv.inbox>> \o q.conv.identifier = <<r.n, r.conv.inbox>> \o r.conv.identifier
  BY DEF MessageId
<1> HIDE DEF S
<1>3. /\ q.n = r.n /\ q.conv.inbox = r.conv.inbox
      /\ q.conv.identifier = r.conv.identifier
  <2>1. q.conv.identifier \in Seq(S) /\ r.conv.identifier \in Seq(S)
    BY <1>1
  <2>2. PICK a, b, x : a = q.n /\ b = q.conv.inbox /\ x = q.conv.identifier
    OBVIOUS
  <2>3. PICK c, d, y : c = r.n /\ d = r.conv.inbox /\ y = r.conv.identifier
    OBVIOUS
  <2>4. x \in Seq(S) /\ y \in Seq(S) /\ <<a, b>> \o x = <<c, d>> \o y
    BY <1>2, <2>1, <2>2, <2>3
  <2>5. a = c /\ b = d /\ x = y
    BY <2>4, PairsEqual
  <2> QED BY <2>2, <2>3, <2>5
<1> QED BY <1>1, <1>3

(* What remains true of a reply that is on its way.                        *)
LEMMA WayStays ==
  ASSUME CTypeOK, Actors, Writers, [ConversationNext]_conversationVars
  PROVE  /\ \A o : \A w \in wrote : Heads(o, w) => Heads(o, w)'
         /\ \A r : Lost(r) => Lost(r)'
         /\ \A r \in written : \A url : Elsewhere(r, url) => Elsewhere(r, url)'
<1>1. /\ Externals' = Externals /\ (switched => switched') /\ wrote \subseteq wrote'
      /\ \A c, a, e : Named(c, a, e) => Named(c, a, e)'
      /\ \A i, c, e : Bears(i, c, e) => Bears(i, c, e)'
  BY NamedStays, SettingsStay
<1>2. ASSUME NEW o, NEW w \in wrote, Heads(o, w) PROVE Heads(o, w)'
  BY <1>1, <1>2 DEF Heads
<1>3. ASSUME NEW r, Lost(r) PROVE Lost(r)'
  <2>1. CASE switched
    BY <1>1, <2>1 DEF Lost
  <2>2. ASSUME NEW w \in wrote, w.conv = r.conv, Overwritten(w) PROVE Lost(r)'
    <3>1. Overwritten(w)'
      BY <2>2, OverwrittenStays
    <3> QED BY <1>1, <2>2, <3>1 DEF Lost
  <2> QED BY <1>3, <2>1, <2>2 DEF Lost
<1>4. ASSUME NEW r \in written, NEW url, Elsewhere(r, url) PROVE Elsewhere(r, url)'
  <2>1. Writers'
    BY WritersStep
  <2>2. PICK v \in wrote : r.conv = v.conv
    BY DEF Writers
  <2>3. v.connector.channel # url
    BY <1>4, <2>2 DEF Elsewhere
  <2>4. ASSUME NEW w \in wrote', w.conv = r.conv PROVE w.connector.channel # url
    <3>1. /\ v.connector \in Connectors /\ w.connector \in Connectors
          /\ v.conv.inbox = v.connector.inbox /\ w.conv.inbox = w.connector.inbox
      <4>1. v.connector \in Connectors /\ v.conv.inbox = v.connector.inbox
        BY WriterFacts
      <4>2. /\ w.connector \in Connectors
            /\ w.conv = [identifier |-> w.conv.identifier, inbox |-> w.connector.inbox]
        BY <2>1 DEF Writers
      <4> QED BY <4>1, <4>2
    <3>2. w.connector = v.connector
      BY <2>2, <2>4, <3>1, EnvelopesAssumption
    <3> QED BY <2>3, <3>2
  <2> QED BY <1>4, <2>4 DEF Elsewhere
<1> QED BY <1>2, <1>3, <1>4

(* The same, where no reply leaves the queue and no webhook comes in.      *)
LEMMA WaysSame ==
  ASSUME CTypeOK, Actors, Writers, Ways, [ConversationNext]_conversationVars,
         outgoing' = outgoing, answers' = answers
  PROVE  Ways'
<1>1. /\ written \subseteq written' /\ wrote \subseteq wrote' /\ hooks' = hooks
      /\ delivered \subseteq delivered'
  BY SettingsStay
<1>2. ASSUME NEW o \in outgoing' PROVE o.reply \in written' /\ \E w \in wrote' : Heads(o, w)'
  BY <1>1, WayStays DEF Ways
<1>3. ASSUME NEW a \in answers' PROVE Answered(a)'
  <2>1. Answered(a) /\ a.reply \in written
    BY DEF Ways, Answered
  <2>2. /\ Elsewhere(a.reply, a.url) => Elsewhere(a.reply, a.url)'
        /\ Lost(a.reply) => Lost(a.reply)'
    BY <2>1, WayStays
  <2>3. switched => switched'
    BY SettingsStay
  <2> QED BY <1>1, <2>1, <2>2, <2>3 DEF Answered
<1> QED BY <1>2, <1>3 DEF Ways

(* A key that is known is that of a reply whose webhook listed the same    *)
(* message first.                                                          *)
LEMMA KnownReply ==
  ASSUME CTypeOK, Writers, Keys, Ways, NEW first \in written, NEW c, c.channel \in Channels,
         NEW to, Reply(c, to, MessageId(first)) \in processed
  PROVE  \E b \in answers : b.result = "queued" /\ b.first = first
<1>1. PICK k \in processed : k.from = "chatwoot" /\ k.message = MessageId(first)
  BY ReplyFacts
<1>2. \A v \in due : \A d, p : KeyOf(v, d, p).from # "chatwoot"
  BY DueFacts DEF KeyOf, Key, Channels
<1>3. PICK b \in answers : b.result = "queued" /\ k.message = MessageId(b.first)
  BY <1>1, <1>2 DEF Keys
<1>4. b.first \in written
  BY DEF Ways, Answered
<1>5. b.first = first
  BY <1>1, <1>3, <1>4, MessageIds
<1> QED BY <1>3, <1>5

LEMMA WebhookWays ==
  ASSUME CTypeOK, Actors, Writers, Keys, Ways, NEW r \in written, NEW url \in hooks,
         Webhook(r, url)
  PROVE  Ways'
<1>1. [ConversationNext]_conversationVars
  BY DEF ConversationNext
<1>2. /\ written' = written /\ wrote' = wrote /\ hooks' = hooks /\ delivered' = delivered
      /\ switched' = switched /\ answers \subseteq answers'
  BY <1>1, SettingsStay DEF Webhook, settings
<1>3. \A o \in outgoing : o.reply \in written' /\ \E w \in wrote' : Heads(o, w)'
  BY <1>1, <1>2, WayStays DEF Ways
<1>4. ASSUME outgoing \subseteq outgoing', NEW a \in answers PROVE Answered(a)'
  <2>1. Answered(a) /\ a.reply \in written
    BY DEF Ways, Answered
  <2>2. /\ Elsewhere(a.reply, a.url) => Elsewhere(a.reply, a.url)'
        /\ Lost(a.reply) => Lost(a.reply)'
    BY <1>1, <2>1, WayStays
  <2> QED BY <1>2, <1>4, <2>1, <2>2 DEF Answered
<1> DEFINE Replied(first, result) ==
             [reply |-> r, url |-> url, first |-> first, result |-> result]
<1>5. ASSUME NEW first \in written, Result(r, url, first, "no route"), outgoing' = outgoing,
             switched \/ Elsewhere(r, url)
      PROVE  Ways'
  <2>1. Elsewhere(r, url) => Elsewhere(r, url)'
    BY <1>1, WayStays
  <2>2. Answered(Replied(first, "no route"))'
    BY <1>2, <1>5, <2>1 DEF Answered
  <2>3. answers' = answers \cup {Replied(first, "no route")}
    BY <1>5 DEF Result
  <2> QED BY <1>3, <1>4, <1>5, <2>2, <2>3 DEF Ways
<1>6. ASSUME NEW first \in written, Result(r, url, first, "known"), outgoing' = outgoing,
             NEW b \in answers, b.result = "queued", b.first = first
      PROVE  Ways'
  <2>1. Answered(Replied(first, "known"))'
    BY <1>2, <1>6 DEF Answered
  <2>2. answers' = answers \cup {Replied(first, "known")}
    BY <1>6 DEF Result
  <2> QED BY <1>3, <1>4, <1>6, <2>1, <2>2 DEF Ways
<1>7. ASSUME NEW first \in written, Result(r, url, first, "queued"), NEW o, o.reply = r,
             outgoing' = outgoing \cup {o}, NEW w \in wrote, Heads(o, w)
      PROVE  Ways'
  <2>1. Heads(o, w)'
    BY <1>1, <1>7, WayStays
  <2>2. Answered(Replied(first, "queued"))'
    BY <1>2, <1>7 DEF Answered
  <2>3. answers' = answers \cup {Replied(first, "queued")}
    BY <1>7 DEF Result
  <2> QED BY <1>2, <1>3, <1>4, <1>7, <2>1, <2>2, <2>3 DEF Ways
<1>8. PICK first \in {q \in written : q.conv = r.conv} :
        LET channel == Target(r.conv.identifier, url)
            connectors == RouteByInbox(channel, r.conv.inbox)
            recipients == Recipients(r.conv.identifier, url)
        IN \/ /\ connectors = {} \/ recipients = {}
              /\ Result(r, url, first, "no route")
              /\ UNCHANGED <<processed, outgoing>>
           \/ \E c \in connectors, to \in recipients :
                \/ /\ Reply(c, to, MessageId(first)) \in processed
                   /\ Result(r, url, first, "known")
                   /\ UNCHANGED <<processed, outgoing>>
                \/ /\ processed' = processed \cup {Reply(c, to, MessageId(first))}
                   /\ outgoing' = outgoing \cup {[reply |-> r, connector |-> c, to |-> to]}
                   /\ Result(r, url, first, "queued")
  BY WebhookCases
<1>9. ASSUME NEW c \in RouteByInbox(Target(r.conv.identifier, url), r.conv.inbox)
      PROVE  c.channel \in Channels
  BY <1>9, TargetIsChannel DEF RouteByInbox, ByInbox
<1>10. ASSUME \/ RouteByInbox(Target(r.conv.identifier, url), r.conv.inbox) = {}
              \/ Recipients(r.conv.identifier, url) = {},
              Result(r, url, first, "no route"), outgoing' = outgoing
       PROVE  Ways'
  BY <1>5, <1>10, NoRouteFound
<1>11. ASSUME NEW c \in RouteByInbox(Target(r.conv.identifier, url), r.conv.inbox),
              NEW to \in Recipients(r.conv.identifier, url),
              Reply(c, to, MessageId(first)) \in processed,
              Result(r, url, first, "known"), outgoing' = outgoing
       PROVE  Ways'
  <2>1. \E b \in answers : b.result = "queued" /\ b.first = first
    BY <1>9, <1>11, KnownReply
  <2> QED BY <1>6, <1>11, <2>1
<1>12. ASSUME NEW c \in RouteByInbox(Target(r.conv.identifier, url), r.conv.inbox),
              NEW to \in Recipients(r.conv.identifier, url),
              outgoing' = outgoing \cup {[reply |-> r, connector |-> c, to |-> to]},
              Result(r, url, first, "queued")
       PROVE  Ways'
  <2>1. PICK o : o = [reply |-> r, connector |-> c, to |-> to]
    OBVIOUS
  <2>2. \E w \in wrote : Heads(o, w)
    BY <2>1, ReplyHeads
  <2>3. o.reply = r /\ outgoing' = outgoing \cup {o}
    BY <1>12, <2>1
  <2> QED BY <1>7, <1>12, <2>2, <2>3
<1> QED BY <1>8, <1>10, <1>11, <1>12

(* A reply for which the transport has no address is lost: the setting has *)
(* changed or the writer's actor id was overwritten.                       *)
LEMMA NoAddress ==
  ASSUME CTypeOK, Writers, Ways, NEW o \in outgoing, Addresses(o) = {}
  PROVE  Lost(o.reply)
<1>1. /\ o.connector.channel = "delta_chat"
      /\ \A a \in actors : a.actor # o.to
  BY DEF Addresses
<1>2. PICK w \in wrote : Heads(o, w)
  BY DEF Ways
<1>3. CASE switched
  BY <1>3 DEF Lost
<1>4. ASSUME NEW e \in Externals, Named(w.connector.channel, w.address, e), o.to = e,
             Bears(w.conv.identifier, w.connector.channel, e)
      PROVE  Lost(o.reply)
  <2>1. o.connector = w.connector /\ o.reply.conv = w.conv
    BY <1>2 DEF Heads
  <2>2. PICK v \in due : e = NewActor(v)
    BY <1>1, <1>4, <2>1 DEF Named
  <2>3. ActorOf(w.conv.identifier) = e
    BY <1>4, <2>2, BearsActor
  <2>4. Overwritten(w)
    BY <1>1, <1>4, <2>1, <2>3 DEF Overwritten
  <2> QED BY <2>1, <2>4 DEF Lost
<1> QED BY <1>2, <1>3, <1>4 DEF Heads

LEMMA SendWays ==
  ASSUME CTypeOK, Actors, Writers, Ways, NEW o \in outgoing, Send(o)
  PROVE  Ways'
<1>1. [ConversationNext]_conversationVars
  BY DEF ConversationNext
<1>2. /\ written' = written /\ wrote' = wrote /\ hooks' = hooks /\ switched' = switched
      /\ answers' = answers /\ outgoing' = outgoing \ {o}
      /\ delivered' = delivered \cup {[reply |-> o.reply, connector |-> o.connector, to |-> a]
                                        : a \in Addresses(o)}
  BY <1>1, SettingsStay DEF Send, settings
<1>3. \A p \in outgoing' : p.reply \in written' /\ \E w \in wrote' : Heads(p, w)'
  BY <1>1, <1>2, WayStays DEF Ways
<1>4. Lost(o.reply)' \/ \E d \in delivered' : d.reply = o.reply
  <2>1. CASE Addresses(o) = {}
    BY <1>1, <2>1, NoAddress, WayStays
  <2>2. ASSUME NEW a \in Addresses(o) PROVE \E d \in delivered' : d.reply = o.reply
    <3> DEFINE d == [reply |-> o.reply, connector |-> o.connector, to |-> a]
    <3>1. d \in delivered' /\ d.reply = o.reply
      BY <1>2
    <3> QED BY <3>1
  <2> QED BY <2>1, <2>2
<1>5. ASSUME NEW a \in answers' PROVE Answered(a)'
  <2>1. Answered(a) /\ a.reply \in written
    BY <1>2 DEF Ways, Answered
  <2>2. /\ Elsewhere(a.reply, a.url) => Elsewhere(a.reply, a.url)'
        /\ Lost(a.reply) => Lost(a.reply)'
    BY <1>1, <2>1, WayStays
  <2>3. ASSUME a.result = "queued"
        PROVE  \/ \E p \in outgoing' : p.reply = a.reply
               \/ \E d \in delivered' : d.reply = a.reply
               \/ Lost(a.reply)'
    <3>1. CASE a.reply = o.reply
      BY <1>4, <3>1
    <3>2. CASE a.reply # o.reply
      BY <1>2, <2>1, <2>2, <2>3, <3>2 DEF Answered
    <3> QED BY <3>1, <3>2
  <2> QED BY <1>2, <2>1, <2>2, <2>3 DEF Answered
<1> QED BY <1>3, <1>5 DEF Ways

LEMMA WaysStep ==
  ASSUME CTypeOK, Actors, Writers, Keys, Ways, [ConversationNext]_conversationVars
  PROVE  Ways'
<1>1. CASE outgoing' = outgoing /\ answers' = answers
  BY <1>1, WaysSame
<1>2. ASSUME NEW u \in due, Receive(u) \/ Insert(u) \/ Publish(u) PROVE Ways'
  BY <1>1, <1>2 DEF Receive, Insert, Publish, back
<1>3. ASSUME NEW m \in incoming, Deliver(m) PROVE Ways'
  BY <1>1, <1>3 DEF Deliver, back
<1>4. ASSUME NEW c \in Conversations, Write(c) PROVE Ways'
  BY <1>1, <1>4 DEF Write
<1>5. ASSUME NEW r \in written, NEW url \in hooks, Webhook(r, url) PROVE Ways'
  BY <1>5, WebhookWays
<1>6. ASSUME NEW o \in outgoing, Send(o) PROVE Ways'
  BY <1>6, SendWays
<1>7. CASE Restart \/ UNCHANGED conversationVars
  BY <1>1, <1>7 DEF Restart, conversationVars, back
<1> QED BY <1>2, <1>3, <1>4, <1>5, <1>6, <1>7 DEF ConversationNext

-----------------------------------------------------------------------------
(* Conversation: the theorems.                                             *)

(* Where a reply is delivered: to its writer, or, once the setting has     *)
(* changed, to what is the identifier of his contact.                      *)
SentTo(w, o, a) ==
  /\ w.conv = o.reply.conv /\ w.connector = o.connector
  /\ \/ a = <<w.address>>
     \/ switched /\ a = w.conv.identifier /\ w.connector.channel # "delta_chat"

LEMMA SentToWriter ==
  ASSUME CTypeOK, Actors, Writers, Ways, NEW o \in outgoing, NEW a \in Addresses(o)
  PROVE  \E w \in wrote : SentTo(w, o, a)
<1>1. PICK w \in wrote : Heads(o, w)
  BY DEF Ways
<1>2. w.conv = o.reply.conv /\ w.connector = o.connector /\ w.connector.channel \in Channels
  BY <1>1, WriterFacts DEF Heads
<1>3. PICK e \in Externals : /\ Named(w.connector.channel, w.address, e)
                             /\ Bears(w.conv.identifier, w.connector.channel, e)
                             /\ o.to = e \/ (switched /\ o.to = w.conv.identifier)
  <2>1. CASE switched /\ o.to = w.conv.identifier
    BY <2>1, WriterFacts
  <2>2. CASE ~(switched /\ o.to = w.conv.identifier)
    BY <1>1, <2>2 DEF Heads
  <2> QED BY <2>1, <2>2
<1>4. CASE o.connector.channel # "delta_chat"
  <2>1. a = o.to
    BY <1>4 DEF Addresses
  <2>2. e = <<w.address>>
    BY <1>2, <1>3, <1>4 DEF Named
  <2> QED BY <1>2, <1>3, <1>4, <2>1, <2>2 DEF SentTo
<1>5. CASE o.connector.channel = "delta_chat"
  <2>1. PICK x \in actors : x.actor = o.to /\ a = <<x.address>>
    BY <1>5 DEF Addresses
  <2>2. PICK u \in due : Minted(u) /\ x = [address |-> u.sender, actor |-> NewActor(u)]
    BY DEF Actors
  <2>3. PICK v \in due : v.sender = w.address /\ e = NewActor(v)
    BY <1>2, <1>3, <1>5 DEF Named
  <2>4. w.conv.identifier # NewActor(u)
    BY <1>2, <1>3, <2>3, BearsNoActor
  <2>5. NewActor(u) = NewActor(v)
    BY <1>3, <2>1, <2>2, <2>3, <2>4
  <2>6. u = v
    BY <2>5, ActorIsOnes
  <2> QED BY <1>2, <2>1, <2>2, <2>3, <2>6 DEF SentTo
<1> QED BY <1>4, <1>5

LEMMA DeliveredStep ==
  ASSUME CTypeOK, Actors, Writers, Ways, RepliesReachTheirWriter,
         [ConversationNext]_conversationVars
  PROVE  RepliesReachTheirWriter'
<1>1. wrote \subseteq wrote'
  BY SettingsStay
<1>2. CASE delivered' = delivered
  <2>1. switched => switched'
    BY SettingsStay
  <2> QED BY <1>1, <1>2, <2>1 DEF RepliesReachTheirWriter
<1>3. ASSUME NEW o \in outgoing, Send(o) PROVE RepliesReachTheirWriter'
  <2>1. ASSUME NEW d \in delivered'
        PROVE  \E w \in wrote' :
                 /\ w.conv = d.reply.conv /\ w.connector = d.connector
                 /\ \/ d.to = <<w.address>>
                    \/ switched' /\ d.to = w.conv.identifier /\ w.connector.channel # "delta_chat"
    <3>1. CASE d \in delivered
      BY <1>1, <1>3, <2>1, <3>1 DEF RepliesReachTheirWriter, Send, settings
    <3>2. CASE d \notin delivered
      <4>1. PICK a \in Addresses(o) : d = [reply |-> o.reply, connector |-> o.connector, to |-> a]
        BY <1>3, <3>2 DEF Send
      <4>2. \E w \in wrote : SentTo(w, o, a)
        BY <4>1, SentToWriter
      <4>3. switched' = switched
        BY <1>3 DEF Send, settings
      <4> QED BY <1>1, <4>1, <4>2, <4>3 DEF SentTo
    <3> QED BY <3>1, <3>2
  <2> QED BY <2>1 DEF RepliesReachTheirWriter
<1>4. ASSUME NEW u \in due, Receive(u) \/ Insert(u) \/ Publish(u) PROVE delivered' = delivered
  BY <1>4 DEF Receive, Insert, Publish, back
<1>5. ASSUME NEW m \in incoming, Deliver(m) PROVE delivered' = delivered
  BY <1>5 DEF Deliver, back
<1>6. ASSUME NEW c \in Conversations, Write(c) PROVE delivered' = delivered
  BY <1>6 DEF Write
<1>7. ASSUME NEW r \in written, NEW url \in hooks, Webhook(r, url) PROVE delivered' = delivered
  BY <1>7 DEF Webhook
<1>8. Restart \/ UNCHANGED conversationVars => delivered' = delivered
  BY DEF Restart, conversationVars, back
<1>9. delivered' = delivered \/ \E o \in outgoing : Send(o)
  BY <1>4, <1>5, <1>6, <1>7, <1>8 DEF ConversationNext
<1> QED BY <1>2, <1>3, <1>9

LEMMA SoundInit ==
  ASSUME ConversationInit
  PROVE  Sound
<1> USE DEF ConversationInit
<1>1. CTypeOK
  <2>1. \A u \in due : u.channel \in Channels
    BY ConversationAssumption
  <2>2. hooks \subseteq {u.channel : u \in due} /\ hooks # {}
    OBVIOUS
  <2>3. NoTask \in [pc : {"idle", "insert", "publish"}, actor : Externals \cup {<<>>},
                    result : Results]
    BY DEF NoTask, Results
  <2>4. hooks \subseteq Channels
    BY <2>1, <2>2
  <2> QED BY <2>2, <2>3, <2>4 DEF CTypeOK
<1>2. Actors
  BY DEF Actors, NoTask
<1>3. Writers
  BY DEF Writers
<1>4. Keys
  BY DEF Keys, NoTask
<1>5. Ways
  BY DEF Ways
<1>6. RepliesReachTheirWriter
  BY DEF RepliesReachTheirWriter
<1> QED BY <1>1, <1>2, <1>3, <1>4, <1>5, <1>6 DEF Sound

LEMMA SoundStep ==
  ASSUME Sound, [ConversationNext]_conversationVars
  PROVE  Sound'
<1>1. CTypeOK /\ Actors /\ Writers /\ Keys /\ Ways /\ RepliesReachTheirWriter
  BY DEF Sound
<1>2. CTypeOK'
  BY <1>1, CTypeStep
<1>3. Actors' /\ Writers'
  BY <1>1, ActorsStep, WritersStep
<1>4. Keys' /\ Ways'
  BY <1>1, KeysStep, WaysStep
<1>5. RepliesReachTheirWriter'
  BY <1>1, DeliveredStep
<1> QED BY <1>2, <1>3, <1>4, <1>5 DEF Sound

LEMMA SoundHolds == ConversationSpec => []Sound
<1>1. ConversationInit => Sound
  BY SoundInit
<1>2. Sound /\ [ConversationNext]_conversationVars => Sound'
  BY SoundStep
<1> QED BY <1>1, <1>2, PTL DEF ConversationSpec

(* A writer has one contact, and a contact is one writer's.                *)
LEMMA SoundContacts ==
  ASSUME Sound
  PROVE  OneContactEach
<1>1. CTypeOK /\ Actors /\ Writers
  BY DEF Sound
<1> SUFFICES ASSUME NEW v \in wrote, NEW w \in wrote
    PROVE  LET same == v.connector.channel = w.connector.channel /\ v.address = w.address
           IN /\ v.conv.identifier = w.conv.identifier => same
              /\ same => \/ v.conv.identifier = w.conv.identifier
                         \/ switched \/ Overwritten(v) \/ Overwritten(w)
  BY DEF OneContactEach
<1> DEFINE c == v.connector.channel
           d == w.connector.channel
           i == v.conv.identifier
           j == w.conv.identifier
<1>2. c \in Channels /\ d \in Channels
  BY <1>1, WriterFacts
<1>3. PICK e \in Externals : Named(c, v.address, e) /\ Bears(i, c, e)
  BY <1>1, WriterFacts
<1>4. PICK f \in Externals : Named(d, w.address, f) /\ Bears(j, d, f)
  BY <1>1, WriterFacts
<1>5. ASSUME i = j PROVE c = d /\ v.address = w.address
  <2>1. PICK k, x, y : k = i /\ x = c /\ y = d
    OBVIOUS
  <2>2. Bears(k, x, e) /\ Bears(k, y, f) /\ x \in Channels /\ y \in Channels
    BY <1>2, <1>3, <1>4, <1>5, <2>1
  <2>3. x = y /\ e = f
    BY <2>2, BearsOne
  <2>4. Named(x, v.address, e) /\ Named(x, w.address, e)
    BY <1>3, <1>4, <2>1, <2>3
  <2>5. v.address = w.address
    BY <1>1, <2>4, NamedFacts
  <2> QED BY <2>1, <2>3, <2>5
<1>6. ASSUME c = d, v.address = w.address, ~switched, e = f PROVE i = j
  <2>1. anonymize \in BOOLEAN
    BY <1>1 DEF CTypeOK
  <2> QED BY <1>3, <1>4, <1>6, <2>1 DEF Bears
<1>7. ASSUME c = d, v.address = w.address, e # f PROVE Overwritten(v) \/ Overwritten(w)
  <2>1. c = "delta_chat"
    BY <1>1, <1>3, <1>4, <1>7, NamedFacts
  <2>2. PICK x \in due : x.sender = v.address /\ e = NewActor(x)
    BY <1>3, <2>1 DEF Named
  <2>3. PICK y \in due : y.sender = v.address /\ f = NewActor(y)
    BY <1>4, <1>7, <2>1 DEF Named
  <2>4. ActorOf(i) = e /\ ActorOf(j) = f
    BY <1>3, <1>4, <2>2, <2>3, BearsActor
  <2>5. ASSUME NEW a \in actors, NEW b \in actors, a.actor = e, b.actor = f PROVE FALSE
    <3>1. PICK s \in due : a = [address |-> s.sender, actor |-> NewActor(s)]
      BY <1>1 DEF Actors
    <3>2. PICK t \in due : b = [address |-> t.sender, actor |-> NewActor(t)]
      BY <1>1 DEF Actors
    <3>3. s = x /\ t = y
      <4>1. NewActor(s) = NewActor(x) /\ NewActor(t) = NewActor(y)
        BY <2>2, <2>3, <2>5, <3>1, <3>2
      <4> QED BY <1>1, <4>1, ActorIsOnes
    <3>4. a = b
      <4>1. a.address = b.address
        BY <2>2, <2>3, <3>1, <3>2, <3>3
      <4> QED BY <1>1, <4>1 DEF Actors
    <3> QED BY <1>7, <2>5, <3>4
  <2> QED BY <1>7, <2>1, <2>4, <2>5 DEF Overwritten
<1> HIDE DEF c, d, i, j
<1>8. /\ i = j => c = d /\ v.address = w.address
      /\ c = d /\ v.address = w.address =>
           i = j \/ switched \/ Overwritten(v) \/ Overwritten(w)
  BY <1>5, <1>6, <1>7
<1> QED BY <1>8 DEF c, d, i, j

LEMMA SoundLosses ==
  ASSUME Sound
  PROVE  LossesAreExplained
<1>1. CTypeOK /\ Writers /\ Keys /\ Ways
  BY DEF Sound
<1>2. ASSUME NEW u \in due
      PROVE  /\ task[u].result = "known" /\ rows[u] = 0 =>
                  \E v \in due : rows[v] > 0 /\ TakenFor(u, v)
             /\ rows[u] > 1 => Keyless(u)
  <2>1. rows[u] \in Nat
    BY <1>1 DEF CTypeOK
  <2>2. /\ task[u].result = "known" => rows[u] > 0 \/ Taken(u)
        /\ Keyless(u) \/ rows[u] < 2
    BY <1>1 DEF Keys
  <2> QED BY <2>1, <2>2 DEF Taken
<1>3. ASSUME NEW r \in written, Settled(r), \A d \in delivered : d.reply # r
      PROVE  \/ switched
             \/ \E w \in wrote : w.conv = r.conv /\ Overwritten(w)
             \/ /\ Head(r.conv.identifier) \notin Channels
                /\ \A w \in wrote : w.conv = r.conv => w.connector.channel \notin hooks
             \/ \E a, b \in answers :
                  a.reply # r /\ a.result = "queued" /\ b.reply = r /\ b.first = a.first
  <2>1. ASSUME NEW a \in answers, a.reply = r, a.result = "queued" PROVE Lost(r)
    BY <1>1, <1>3, <2>1 DEF Ways, Answered, Settled
  <2>2. ASSUME NEW b \in answers, b.reply = r, b.result = "known"
        PROVE  \/ Lost(r)
               \/ \E a \in answers : a.reply # r /\ a.result = "queued" /\ b.first = a.first
    <3>1. PICK a \in answers : a.result = "queued" /\ a.first = b.first
      BY <1>1, <2>2 DEF Ways, Answered
    <3> QED BY <2>1, <3>1
  <2>3. ASSUME \A a \in answers : a.reply = r => a.result = "no route"
        PROVE  \/ switched
               \/ /\ Head(r.conv.identifier) \notin Channels
                  /\ \A w \in wrote : w.conv = r.conv => w.connector.channel \notin hooks
    <3>1. ASSUME NEW url \in hooks PROVE switched \/ Elsewhere(r, url)
      <4>1. PICK a \in answers : a.reply = r /\ a.url = url
        BY <1>3 DEF Settled
      <4>2. Answered(a) /\ a.result = "no route"
        BY <1>1, <2>3, <4>1 DEF Ways
      <4> QED BY <4>1, <4>2 DEF Answered
    <3>2. hooks # {}
      BY <1>1 DEF CTypeOK
    <3> QED BY <3>1, <3>2 DEF Elsewhere
  <2>4. \A a \in answers : a.result \in {"no route", "known", "queued"}
    BY <1>1 DEF Ways, Answered
  <2> QED BY <2>1, <2>2, <2>3, <2>4 DEF Lost
<1> QED BY <1>2, <1>3 DEF LossesAreExplained

(* The type invariant of the conversations, for all updates, connectors    *)
(* and webhook URLs (Conversation's variables).                            *)
THEOREM ConversationTypeCorrect == ConversationSpec => []CTypeOK
<1>1. Sound => CTypeOK
  BY DEF Sound
<1> QED BY <1>1, SoundHolds, PTL

(* A reply goes to the one who wrote in its conversation, from the         *)
(* connector he wrote to, under either setting and by any URL; after a     *)
(* change of the setting it may go to what is his contact's identifier.    *)
THEOREM RepliesReachWriters == ConversationSpec => []RepliesReachTheirWriter
<1>1. Sound => RepliesReachTheirWriter
  BY DEF Sound
<1> QED BY <1>1, SoundHolds, PTL

(* Nobody has two contacts and no contact is two writers', but for a       *)
(* change of the setting and for the actor id that was overwritten.        *)
THEOREM ContactsAreWriters == ConversationSpec => []OneContactEach
<1>1. Sound => OneContactEach
  BY SoundContacts
<1> QED BY <1>1, SoundHolds, PTL

(* An update that was taken for a known one is, but for Session messages   *)
(* without ids and Telegram's numbers in two chats, and no reply is lost   *)
(* but for the causes that are named.                                      *)
THEOREM LossesHaveReasons == ConversationSpec => []LossesAreExplained
<1>1. Sound => LossesAreExplained
  BY SoundLosses
<1> QED BY <1>1, SoundHolds, PTL
=============================================================================
