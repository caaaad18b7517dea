------------------------ MODULE ChannelDeliveryProofs -----------------------
(***************************************************************************)
(* Proofs about ChannelDelivery, for any messages, limits, faults and tries*)
(* at a time: what is deleted has come, in its order, twice only for a     *)
(* cause, and nothing is given up without one.                             *)
(***************************************************************************)
EXTENDS ChannelDelivery, FiniteSetTheorems, TLAPS

Errors == {"busy", "down", "refused", "page", "broken", "torn"}
Reasons == Errors \cup Kinds \cup {"none", "nobody", "empty", "db"}
Try == [pc : {"idle", "start", "work", "wait", "sent"}, done : SUBSET SUBSET Items,
        now : SUBSET SUBSET Items, have : SUBSET Files, left : SUBSET Files]
TypeOK ==
  /\ job \in Jobs
  /\ row \in {"queued", "deleted", "archived"}
  /\ attempts \in Nat /\ task \in [Tries -> Try]
  /\ flying \subseteq [try : Tries, parts : SUBSET SUBSET Items]
  /\ got \subseteq [try : Tries, items : SUBSET Items] /\ IsFiniteSet(got)
  /\ pages \subseteq Files /\ skipped \subseteq Files
  /\ faults \in 0..Faults
  /\ doubt \in BOOLEAN /\ halfway \in BOOLEAN /\ undone \in BOOLEAN /\ overrun \in BOOLEAN
  /\ cause \in [try : Nat, error : Reasons]

-----------------------------------------------------------------------------
(* The parts of a message.                                                 *)

Apart(p, q) == (\A i \in p, j \in q : i < j) \/ (\A i \in p, j \in q : j < i)
Ordered(parts) == \A p, q \in parts : p # q => Apart(p, q)
Several == {"telegram", "imessage", "whatsapp", "delta_chat"}
Owed(i) ==
  IF i = 0 THEN job.text
  ELSE /\ job.channel \notin TextOnly /\ job.files[i] # "nourl"
       /\ ~(job.channel = "email" /\ i \in skipped)

LEMMA JobType ==
  TypeOK => /\ job.channel \in Channels /\ job.text \in BOOLEAN /\ Len(job.files) \in Nat
            /\ \A i \in Files : job.files[i] \in Kinds
            /\ Files \subseteq Items /\ Files \subseteq Nat /\ 0 \notin Files
            /\ Text \subseteq {0} /\ 0 \in Items
BY DeliveryAssumption DEF TypeOK, Files, Items, Text

LEMMA SinglesOrdered ==
  ASSUME NEW items \in SUBSET Int PROVE Ordered(Single(items))
BY DEF Ordered, Apart, Single

LEMMA PartsOrdered ==
  ASSUME TypeOK, NEW t PROVE Parts(t) \subseteq SUBSET Items /\ Ordered(Parts(t))
<1> USE DEF Parts
<1>1. Text \subseteq Items /\ WithUrl \subseteq Files /\ Items \subseteq Int /\ Text \subseteq {0}
  BY JobType DEF WithUrl, Items
<1>2. CASE job.channel \in {"telegram", "imessage", "whatsapp"}
  <2>1. Parts(t) = Single(Text \cup WithUrl)
    BY <1>2 DEF TelegramParts, IMessageParts, WhatsAppParts
  <2> QED BY <1>1, <2>1, JobType, SinglesOrdered DEF Single
<1>3. CASE job.channel \in {"session", "simplex"}
  <2>1. Parts(t) = Single(Text)
    BY <1>3 DEF SessionParts, SimplexParts
  <2> QED BY <1>1, <2>1, SinglesOrdered DEF Single
<1>4. CASE job.channel = "signal"
  BY <1>1, <1>4, JobType DEF SignalParts, Ordered
<1>5. CASE job.channel = "email"
  BY <1>1, <1>5, JobType DEF EmailParts, Ordered
<1>6. CASE job.channel = "bridge"
  BY <1>1, <1>6, JobType DEF BridgeParts, Ordered
<1>7. CASE job.channel = "delta_chat"
  <2>1. Captioned \subseteq SUBSET Items
    BY <1>1, JobType DEF Captioned
  <2>2. Ordered(Captioned)
    <3> DEFINE P(n) == {n} \cup (IF n = 1 THEN Text ELSE {})
    <3>1. ASSUME NEW m \in Files, NEW n \in Files, m < n
          PROVE  \A i \in P(m), j \in P(n) : i < j
      BY <1>1, <3>1, JobType DEF Files
    <3> HIDE DEF P
    <3>2. \A m, n \in Files : m # n => Apart(P(m), P(n))
      BY <3>1, JobType DEF Apart
    <3>3. \A p \in Captioned : \E n \in Files : p = P(n)
      BY DEF Captioned, P
    <3> QED BY <3>2, <3>3 DEF Ordered
  <2>3. Parts(t) = Single(Text) \/ Parts(t) = Captioned
    BY <1>7 DEF DeltaChatParts
  <2>4. Single(Text) \subseteq SUBSET Items /\ Ordered(Single(Text))
    BY <1>1, SinglesOrdered DEF Single
  <2> HIDE DEF Parts
  <2> QED BY <2>1, <2>2, <2>3, <2>4
<1> QED BY <1>2, <1>3, <1>4, <1>5, <1>6, <1>7, JobType DEF Channels

(* Elsewhere a message is one request.                                     *)
LEMMA OnePart ==
  ASSUME TypeOK, job.channel \notin Several, NEW t, NEW p \in Parts(t), NEW q \in Parts(t)
  PROVE  p = q
<1>1. job.channel \in {"session", "simplex", "signal", "email", "bridge"}
  BY JobType DEF Channels, Several
<1> QED BY <1>1, JobType DEF Parts, SessionParts, SimplexParts, SignalParts, EmailParts,
          BridgeParts, Single, Text

LEMMA PartsCover ==
  ASSUME TypeOK, NEW t, task[t].left \subseteq skipped, NEW i \in Items, Owed(i)
  PROVE  \E p \in Parts(t) : i \in p
<1>1. i # 0 => i \in Files
  BY JobType DEF Items, Files
<1>2. i \in Text \cup WithUrl /\ (job.channel \in TextOnly => i \in Text)
  BY <1>1 DEF Owed, Text, WithUrl
<1>3. job.channel = "email" => i \notin task[t].left
  BY <1>1, JobType DEF TypeOK, Owed
<1>4. CASE job.channel = "delta_chat"
  <2>1. CASE job.files = <<>>
    <3>1. Files = {} /\ Parts(t) = Single(Text)
      BY <1>4, <2>1 DEF Files, Parts, DeltaChatParts
    <3>2. i \in Text
      BY <1>2, <3>1 DEF WithUrl
    <3> QED BY <3>1, <3>2 DEF Single
  <2>2. CASE job.files # <<>>
    <3>1. 1 \in Files
      BY <2>2, DeliveryAssumption DEF TypeOK, Files
    <3>2. i \in Files \/ i \in Text
      BY <1>2 DEF WithUrl
    <3>3. Parts(t) = Captioned
      BY <1>4, <2>2 DEF Parts, DeltaChatParts
    <3>4. \A n \in Files : \E p \in Captioned : n \in p /\ (n = 1 => Text \subseteq p)
      <4> SUFFICES ASSUME NEW n \in Files
                   PROVE  \E p \in Captioned : n \in p /\ (n = 1 => Text \subseteq p)
        OBVIOUS
      <4>1. {n} \cup (IF n = 1 THEN Text ELSE {}) \in Captioned
        BY DEF Captioned
      <4> QED BY <4>1
    <3> QED BY <3>1, <3>2, <3>3, <3>4
  <2> QED BY <2>1, <2>2
<1>5. CASE job.channel # "delta_chat"
  BY <1>2, <1>3, <1>5, JobType
     DEF Parts, TelegramParts, IMessageParts, WhatsAppParts, SessionParts, SimplexParts,
         SignalParts, EmailParts, BridgeParts, Single, Channels, TextOnly, WithUrl
<1> QED BY <1>4, <1>5

(* Only a mail without one of its files is another mail.                   *)
LEMMA PartsStay ==
  ASSUME UNCHANGED job, NEW t, task'[t].left = task[t].left \/ job.channel # "email"
  PROVE  Parts(t)' = Parts(t)
BY DEF Parts, TelegramParts, IMessageParts, WhatsAppParts, SessionParts, SimplexParts,
       SignalParts, EmailParts, BridgeParts, DeltaChatParts, Single, Captioned, WithUrl, Text, Files

-----------------------------------------------------------------------------
(* What a try has done.                                                    *)

Page(p) == {i \in p \cap Files : job.files[i] = "gone" /\ job.channel = "whatsapp"}
Came(t, p) == Page(p) \subseteq pages /\ [try |-> t, items |-> p \ Page(p)] \in got
Working(t) == task[t].pc \in {"work", "wait"}

(* The user has got what there is.                                         *)
Brought ==
  /\ job.text => Copies(0) # {}
  /\ \A i \in Files : Copies(i) # {} \/ LeftOut(i)

Sound(t) ==
  /\ ~Working(t) => task[t].done = {} /\ task[t].left = {}
  /\ task[t].pc # "wait" => task[t].now = {}
  /\ task[t].pc \notin {"wait", "idle"} => \A r \in flying : r.try # t
  /\ task[t].pc = "start" => \A g \in got : g.try # t
  /\ task[t].left \subseteq skipped
  /\ Working(t) => task[t].done \subseteq Parts(t) /\ task[t].done # Parts(t)
  /\ task[t].pc = "wait" => IsRequest(t, task[t].now) /\ task[t].now \subseteq Parts(t)
  /\ Working(t) => \A p \in task[t].done : Came(t, p)
  /\ job.channel = "whatsapp" => task[t].done = {}
  /\ task[t].pc = "sent" => Brought
Trying == \A t \in Tries : Sound(t)

Flying ==
  /\ \A r, s \in flying : r.try = s.try => r = s
  /\ \A r \in flying : Ordered(r.parts)
  /\ \A r \in flying : Awaited(r) =>
       /\ r.parts \subseteq task[r.try].now
       /\ \A p \in task[r.try].now \ r.parts : Came(r.try, p)

Once ==
  /\ \A g, h \in got : g.try = h.try /\ g.items \cap h.items # {} => g = h
  /\ \A r \in flying, g \in got : g.try = r.try => \A p \in r.parts : p \cap g.items = {}
  /\ \A g \in got : Working(g.try) =>
       \E p \in task[g.try].done \cup task[g.try].now :
         g.items \subseteq p /\ \A r \in flying : r.try = g.try => p \notin r.parts

Got(t, i) == \E g \in got : g.try = t /\ i \in g.items
InOrder ==
  /\ \A g \in got : \A j \in g.items, i \in Items : i < j /\ Due(i) => Got(g.try, i)
  /\ \A r \in flying : \A p \in r.parts : \A j \in p, i \in Items :
       i < j /\ Due(i) => Got(r.try, i) \/ \E q \in r.parts : i \in q

(* Without one of the reasons there is one try, and none before it has had *)
(* any effect.                                                             *)
Excused == doubt \/ undone \/ overrun \/ (halfway /\ job.channel \in Several)
Clean ==
  ~Excused =>
    /\ \A t \in Live : t = attempts
    /\ \A r \in flying : Awaited(r)
    /\ \A g \in got : /\ g.try = attempts
                      /\ row = "queued" => task[attempts].pc \in {"work", "wait", "sent"}

Progress == Trying /\ Flying /\ Once /\ InOrder /\ Clean /\ DeletedIsDelivered
IInv == TypeOK /\ Progress

-----------------------------------------------------------------------------
(* Type correctness.                                                       *)

LEMMA VerdictTypes ==
  ASSUME TypeOK
  PROVE  /\ DOMAIN Verdicts \subseteq Errors
         /\ \A error \in DOMAIN Verdicts : Verdicts[error] \subseteq {"transient", "fatal", "unknown"}
<1> USE DEF Errors, OfTelegram, OfIMessage, OfWhatsApp, OfSession, OfEmail, OfSignal, OfSimplex,
            OfDeltaChat, OfBridge
<1>1. CASE job.channel \in {"telegram", "imessage", "whatsapp"}
  BY <1>1 DEF Verdicts
<1>2. CASE job.channel \in {"session", "email", "signal"}
  BY <1>2 DEF Verdicts
<1>3. CASE job.channel \in {"simplex", "delta_chat", "bridge"}
  BY <1>3 DEF Verdicts
<1> QED BY <1>1, <1>2, <1>3, JobType DEF Channels

LEMMA FetchTypes ==
  ASSUME TypeOK, NEW t, NEW i \in NextFile(t), NEW error \in Troubles(i), NEW verdict \in OfFetch(error)
  PROVE  /\ i \in Files /\ i \in Items /\ error \in Errors \cup Kinds
         /\ verdict \in {"transient", "fatal", "skip"}
         /\ verdict = "skip" => job.channel = "email"
<1>1. i \in Wanted(t)
  BY DEF NextFile, Missing
<1>2. job.channel \in {"email", "signal", "delta_chat", "telegram", "imessage"} /\ i \in Files
  BY <1>1, JobType DEF Wanted, WithUrl, Channels
<1>3. error \in Errors \cup Kinds
  BY <1>2, JobType DEF Troubles, Errors
<1> QED BY <1>2, <1>3, JobType
        DEF OfFetch, FetchOfEmail, FetchOfDeltaChat, FetchOfTelegram, FetchOfSignal, FetchOfIMessage

(* The end of a try that failed.                                           *)
Ends(t) ==
  /\ task' = [task EXCEPT ![t] = At("idle")]
  /\ UNCHANGED row \/ (row = "queued" /\ row' = "archived")

LEMMA EndEnds ==
  ASSUME NEW t, NEW verdict, NEW error,
         EndTry(t, verdict, error) \/ Retire(t, verdict, error) \/ Leave(t)
  PROVE  Ends(t)
BY DEF EndTry, Retire, Leave, Ends

LEMMA PutType ==
  ASSUME TypeOK, NEW t \in Tries, NEW x \in Try, task' = [task EXCEPT ![t] = x]
  PROVE  task' \in [Tries -> Try]
BY DEF TypeOK

LEMMA TryType ==
  ASSUME TypeOK, NEW t \in Tries
  PROVE  /\ task[t] \in Try
         /\ \A pc \in {"work", "wait", "sent"} : [task[t] EXCEPT !.pc = pc] \in Try
         /\ \A i \in Files : [task[t] EXCEPT !.have = @ \cup {i}] \in Try
         /\ \A i \in Files : [task[t] EXCEPT !.left = @ \cup {i}] \in Try
         /\ \A parts \in SUBSET SUBSET Items : [task[t] EXCEPT !.pc = "wait", !.now = parts] \in Try
         /\ [task[t] EXCEPT !.pc = "work", !.done = @ \cup task[t].now, !.now = {}] \in Try
         /\ At("sent") \in Try /\ At("idle") \in Try
<1>1. task[t] \in Try
  BY DEF TypeOK
<1> QED BY <1>1 DEF Try, At

LEMMA FaultType == TypeOK /\ (Fault \/ UNCHANGED faults) => faults' \in 0..Faults
BY DeliveryAssumption DEF TypeOK, Fault

LEMMA CauseIs ==
  ASSUME NEW t, NEW verdict, NEW error,
         EndTry(t, verdict, error) \/ Retire(t, verdict, error) \/ Leave(t)
  PROVE  \/ UNCHANGED <<row, cause>>
         \/ cause' = [try |-> t, error |-> error] /\ GivesUp(t, verdict)
BY DEF EndTry, Retire, Leave

LEMMA EndType ==
  ASSUME TypeOK, NEW t \in Tries, NEW verdict, NEW error \in Reasons, UNCHANGED <<job, attempts>>,
         EndTry(t, verdict, error) \/ (Fault /\ (Retire(t, verdict, error) \/ Leave(t)))
  PROVE  /\ row' \in {"queued", "deleted", "archived"} /\ task' \in [Tries -> Try]
         /\ cause' \in [try : Nat, error : Reasons] /\ faults' \in 0..Faults
<1>1. Ends(t)
  BY EndEnds
<1>2. At("idle") \in Try
  BY DEF At, Try
<1>3. faults' \in 0..Faults
  BY FaultType DEF EndTry
<1>4. t \in Nat
  BY DEF Tries, TypeOK
<1>5. cause' = cause \/ cause' = [try |-> t, error |-> error]
  BY CauseIs
<1> QED BY <1>1, <1>2, <1>3, <1>4, <1>5 DEF Ends, TypeOK

Failed(t, i, verdict, error) ==
  \/ /\ verdict = "skip"
     /\ task' = [task EXCEPT ![t].left = @ \cup {i}]
     /\ skipped' = skipped \cup {i}
     /\ UNCHANGED <<row, faults, halfway, cause>>
  \/ /\ verdict # "skip"
     /\ halfway' = (halfway \/ task[t].done # {})
     /\ EndTry(t, verdict, error)
     /\ UNCHANGED skipped

LEMMA FetchFailsBy ==
  ASSUME TypeOK, NEW t \in Live, FetchFails(t)
  PROVE  /\ t \in Tries
         /\ \E i \in NextFile(t) : \E error \in Troubles(i) : \E verdict \in OfFetch(error) :
              Failed(t, i, verdict, error)
BY DEF FetchFails, Failed, Live

(* A request that fails, as it was answered or given up.                   *)
LEMMA RequestFails ==
  ASSUME TypeOK, NEW r \in flying, Refuse(r) \/ TimeOut(r) \/ Break(r)
  PROVE  /\ r.try \in Tries /\ task[r.try].pc = "wait" /\ UNCHANGED <<job, attempts>>
         /\ \E error \in DOMAIN Verdicts : \E v \in Verdicts[error] : EndTry(r.try, v, error)
BY DEF Refuse, TimeOut, Break, GiveUp, TypeOK, Awaited

LEMMA StartFails ==
  ASSUME NEW t \in Live, Start(t)
  PROVE  \/ /\ job.known /\ (Parts(t) # {} \/ job.channel = "delta_chat")
            /\ task' = [task EXCEPT ![t].pc = IF Parts(t) = {} THEN "sent" ELSE "work"]
            /\ UNCHANGED <<row, cause, faults>>
         \/ \E verdict \in {"transient", "unknown", "fatal"}, error \in {"nobody", "empty", "db"} :
              /\ verdict = "fatal" => error = "empty"
              /\ \/ EndTry(t, verdict, error)
                 \/ Fault /\ Retire(t, verdict, error)
<1>1. \/ ~job.known /\ EndTry(t, "unknown", "nobody")
      \/ /\ job.known /\ Parts(t) = {} /\ job.channel # "delta_chat"
         /\ EndTry(t, "fatal", "empty")
      \/ /\ job.known /\ (Parts(t) # {} \/ job.channel = "delta_chat")
         /\ task' = [task EXCEPT ![t].pc = IF Parts(t) = {} THEN "sent" ELSE "work"]
         /\ UNCHANGED <<row, cause, faults>>
      \/ Fault /\ \E verdict \in {"transient", "unknown"} : Retire(t, verdict, "db")
  BY DEF Start
<1> QED BY <1>1

LEMMA TypeInit == Init => TypeOK
<1> SUFFICES ASSUME Init PROVE TypeOK
  OBVIOUS
<1>1. IsFiniteSet(got)
  BY FS_EmptySet DEF Init
<1>2. faults \in 0..Faults
  BY DeliveryAssumption DEF Init
<1>3. /\ row = "queued" /\ attempts = 0 /\ flying = {} /\ got = {}
      /\ pages = {} /\ skipped = {} /\ job \in Jobs
      /\ doubt = FALSE /\ halfway = FALSE /\ undone = FALSE /\ overrun = FALSE
  BY DEF Init
<1>4. task \in [Tries -> Try]
  BY DEF Init, Tries
<1>5. cause \in [try : Nat, error : Reasons]
  BY DEF Init, Reasons
<1> QED BY <1>1, <1>2, <1>3, <1>4, <1>5 DEF TypeOK

LEMMA ReadType == ASSUME TypeOK, Read \/ ReadUnderTask PROVE TypeOK'
<1>1. /\ attempts' = attempts + 1
      /\ task' = [t \in 1..attempts' |-> IF t \in Tries THEN task[t] ELSE At("start")]
      /\ UNCHANGED <<job, row, flying, got, pages, skipped, doubt, halfway, undone, cause>>
      /\ Fault \/ UNCHANGED faults
      /\ overrun' \in BOOLEAN
  BY DEF Read, ReadUnderTask, NewTry, TypeOK
<1>2. Tries' = 1..attempts' /\ Tries \subseteq Tries' /\ attempts' \in Nat
  BY <1>1 DEF Tries, TypeOK
<1>3. UNCHANGED <<Items, Files, Try>>
  BY <1>1 DEF Items, Files, Try
<1>4. At("start") \in Try
  BY DEF At, Try
<1>5. task' \in [Tries -> Try]'
  BY <1>1, <1>2, <1>3, <1>4 DEF TypeOK
<1>6. faults' \in 0..Faults
  BY <1>1, FaultType
<1> QED BY <1>1, <1>2, <1>3, <1>5, <1>6 DEF TypeOK

LEMMA PerformType == ASSUME TypeOK, NEW r \in flying, Perform(r) PROVE TypeOK'
<1>1. PICK p \in r.parts :
        /\ got' = got \cup {[try |-> r.try, items |-> p \ Page(p)]}
        /\ pages' = pages \cup Page(p)
        /\ flying' = (flying \ {r}) \cup
             (IF Awaited(r) \/ r.parts # {p} THEN {[r EXCEPT !.parts = @ \ {p}]} ELSE {})
        /\ UNCHANGED <<job, row, attempts, task, skipped, faults, doubt, halfway, undone, overrun, cause>>
  BY DEF Perform, Page
<1>2. r \in [try : Tries, parts : SUBSET SUBSET Items] /\ p \in SUBSET Items
  BY DEF TypeOK
<1>3. flying' \subseteq [try : Tries, parts : SUBSET SUBSET Items]
  <2>1. [r EXCEPT !.parts = @ \ {p}] \in [try : Tries, parts : SUBSET SUBSET Items]
    BY <1>2
  <2> QED BY <1>1, <2>1 DEF TypeOK
<1>4. /\ got' \subseteq [try : Tries, items : SUBSET Items]
      /\ pages' \subseteq Files
  BY <1>1, <1>2 DEF TypeOK, Page
<1>5. IsFiniteSet(got')
  BY <1>1, FS_AddElement DEF TypeOK
<1> QED BY <1>1, <1>3, <1>4, <1>5 DEF TypeOK, Items, Files, Tries, Try

LEMMA TypeStep == TypeOK /\ [Next]_vars => TypeOK'
<1> SUFFICES ASSUME TypeOK, [Next]_vars PROVE TypeOK'
  OBVIOUS
<1> USE DEF Items, Files, Tries
<1>1. CASE UNCHANGED vars
  BY <1>1 DEF TypeOK, vars, Try
<1>2. CASE Read \/ ReadUnderTask
  BY <1>2, ReadType
<1>3. ASSUME NEW t \in Live, Start(t) PROVE TypeOK'
  <2>1. t \in Tries /\ UNCHANGED <<job, attempts, flying, got, pages, skipped, doubt, halfway, undone, overrun>>
    BY <1>3 DEF Start, Live
  <2>2. CASE /\ task' = [task EXCEPT ![t].pc = IF Parts(t) = {} THEN "sent" ELSE "work"]
             /\ UNCHANGED <<row, cause, faults>>
    <3>1. task' \in [Tries -> Try]
      BY <2>1, <2>2, TryType, PutType
    <3> QED BY <2>1, <2>2, <3>1 DEF TypeOK, Try
  <2>3. ASSUME NEW verdict \in {"transient", "unknown", "fatal"}, NEW error \in {"nobody", "empty", "db"},
               EndTry(t, verdict, error) \/ (Fault /\ Retire(t, verdict, error))
        PROVE  TypeOK'
    BY <2>1, <2>3, EndType DEF TypeOK, Reasons, Try
  <2> QED BY <1>3, <2>2, <2>3, StartFails
<1>4. ASSUME NEW t \in Live, Fetch(t) PROVE TypeOK'
  <2>1. \A i \in NextFile(t) : i \in Files
    BY JobType DEF NextFile, Missing, Wanted, WithUrl, Channels
  <2>2. t \in Tries
    BY DEF Live
  <2>3. task' \in [Tries -> Try]
    BY <1>4, <2>1, <2>2, TryType, PutType DEF Fetch
  <2> QED BY <1>4, <2>3 DEF TypeOK, Fetch, Try
<1>5. ASSUME NEW t \in Live, FetchFails(t) PROVE TypeOK'
  <2>1. PICK i \in NextFile(t) : \E error \in Troubles(i) : \E verdict \in OfFetch(error) :
          Failed(t, i, verdict, error)
    BY <1>5, FetchFailsBy
  <2>2. PICK error \in Troubles(i) : \E verdict \in OfFetch(error) : Failed(t, i, verdict, error)
    BY <2>1
  <2>3. PICK verdict \in OfFetch(error) : Failed(t, i, verdict, error)
    BY <2>2
  <2>4. i \in Files /\ error \in Reasons /\ t \in Tries
    BY FetchTypes DEF Live, Reasons
  <2>5. UNCHANGED <<job, attempts, flying, got, pages, doubt, undone, overrun>>
    BY <1>5 DEF FetchFails
  <2>6. CASE verdict = "skip"
    <3>1. task' \in [Tries -> Try]
      BY <2>3, <2>4, <2>6, TryType, PutType DEF Failed
    <3> QED BY <2>3, <2>4, <2>5, <2>6, <3>1 DEF TypeOK, Failed, Try
  <2>7. CASE verdict # "skip"
    <3>1. EndTry(t, verdict, error) /\ halfway' = (halfway \/ task[t].done # {}) /\ UNCHANGED skipped
      BY <2>3, <2>7 DEF Failed
    <3>2. halfway' \in BOOLEAN
      BY <3>1
    <3> QED BY <2>4, <2>5, <3>1, <3>2, EndType DEF TypeOK, Try
  <2> QED BY <2>6, <2>7
<1>6. ASSUME NEW t \in Live, Post(t) PROVE TypeOK'
  <2>1. PICK parts \in SUBSET Parts(t) :
          /\ flying' = flying \cup {[try |-> t, parts |-> parts]}
          /\ task' = [task EXCEPT ![t].pc = "wait", ![t].now = parts]
          /\ UNCHANGED <<job, row, attempts, got, pages, skipped, faults,
                         doubt, halfway, undone, overrun, cause>>
    BY <1>6 DEF Post
  <2>2. parts \in SUBSET SUBSET Items /\ t \in Tries
    BY PartsOrdered DEF Live
  <2>3. flying' \subseteq [try : Tries, parts : SUBSET SUBSET Items]
    BY <2>1, <2>2 DEF TypeOK
  <2>4. task' \in [Tries -> Try]
    <3>1. task' = [task EXCEPT ![t] = [task[t] EXCEPT !.pc = "wait", !.now = parts]]
      BY <2>1, <2>2 DEF TypeOK
    <3>2. [task[t] EXCEPT !.pc = "wait", !.now = parts] \in Try
      BY <2>2, TryType
    <3> QED BY <2>2, <3>1, <3>2, PutType
  <2> QED BY <2>1, <2>3, <2>4 DEF TypeOK, Try
<1>7. ASSUME NEW r \in flying, Answer(r) PROVE TypeOK'
  <2>1. /\ flying' \subseteq flying /\ r.try \in Tries
        /\ UNCHANGED <<job, row, attempts, got, pages, skipped, faults,
                       doubt, halfway, undone, overrun, cause>>
    BY <1>7 DEF Answer, TypeOK
  <2>2. task' \in [Tries -> Try]
    <3>1. \/ task' = [task EXCEPT ![r.try] = At("sent")]
          \/ task' = [task EXCEPT ![r.try] =
                        [task[r.try] EXCEPT !.pc = "work", !.done = @ \cup task[r.try].now, !.now = {}]]
      <4>1. CASE LastRequest(r.try)
        BY <1>7, <4>1 DEF Answer
      <4>2. CASE ~LastRequest(r.try)
        BY <1>7, <2>1, <4>2 DEF Answer, TypeOK
      <4> QED BY <4>1, <4>2
    <3>2. /\ At("sent") \in Try
          /\ [task[r.try] EXCEPT !.pc = "work", !.done = @ \cup task[r.try].now, !.now = {}] \in Try
      BY <2>1, TryType
    <3> QED BY <2>1, <3>1, <3>2, PutType
  <2> QED BY <2>1, <2>2 DEF TypeOK, Try
<1>8. CASE Crash
  <2>1. PICK dead \in SUBSET Live :
          /\ task' = [t \in Tries |-> IF t \in dead THEN At("idle") ELSE task[t]]
          /\ doubt' = (doubt \/ \E t \in dead : task[t].pc = "wait")
          /\ halfway' = (halfway \/ \E t \in dead : task[t].done # {})
          /\ undone' = (undone \/ \E t \in dead : task[t].pc = "sent")
    BY <1>8 DEF Crash
  <2>2. Fault /\ UNCHANGED <<job, row, attempts, flying, got, pages, skipped, overrun, cause>>
    BY <1>8 DEF Crash
  <2>3. At("idle") \in Try
    BY DEF At, Try
  <2>4. task' \in [Tries -> Try]
    BY <2>1, <2>3 DEF TypeOK
  <2>5. doubt' \in BOOLEAN /\ halfway' \in BOOLEAN /\ undone' \in BOOLEAN
    BY <2>1
  <2> QED BY <2>2, <2>4, <2>5, FaultType DEF TypeOK, Try
<1>9. ASSUME NEW r \in flying, Perform(r) PROVE TypeOK'
  BY <1>9, PerformType
<1>10. ASSUME NEW r \in flying, Refuse(r) \/ TimeOut(r) \/ Break(r) PROVE TypeOK'
  <2>1. PICK error \in DOMAIN Verdicts : \E v \in Verdicts[error] : EndTry(r.try, v, error)
    BY <1>10, RequestFails
  <2>2. PICK v \in Verdicts[error] : EndTry(r.try, v, error)
    BY <2>1
  <2>3. error \in Reasons /\ r.try \in Tries
    BY <1>10, VerdictTypes, RequestFails DEF Reasons
  <2>4. doubt' \in BOOLEAN /\ halfway' \in BOOLEAN
    BY <1>10 DEF Refuse, TimeOut, Break, GiveUp, TypeOK
  <2>5. flying' \subseteq flying /\ UNCHANGED <<job, attempts, got, pages, skipped, undone, overrun>>
    BY <1>10 DEF Refuse, TimeOut, Break, GiveUp
  <2> QED BY <2>2, <2>3, <2>4, <2>5, EndType DEF TypeOK, Try
<1>11. ASSUME NEW r \in flying, Lose(r) PROVE TypeOK'
  BY <1>11 DEF TypeOK, Lose, Try
<1>12. ASSUME NEW t \in Live, Delete(t) PROVE TypeOK'
  BY <1>12 DEF TypeOK, Delete, Live, At, Try
<1>13. ASSUME NEW t \in Live, DeleteFails(t) PROVE TypeOK'
  <2>1. t \in Tries /\ undone' = TRUE
        /\ UNCHANGED <<job, attempts, flying, got, pages, skipped, doubt, halfway, overrun>>
    BY <1>13 DEF DeleteFails, Live
  <2>2. Fault /\ (Leave(t) \/ \E verdict \in {"transient", "unknown"} : Retire(t, verdict, "db"))
    BY <1>13 DEF DeleteFails
  <2>3. ASSUME NEW verdict, Fault, Retire(t, verdict, "db") \/ Leave(t) PROVE TypeOK'
    BY <2>1, <2>3, EndType DEF TypeOK, Reasons, Try
  <2> QED BY <2>2, <2>3
<1> QED BY <1>1, <1>2, <1>3, <1>4, <1>5, <1>6, <1>7, <1>8, <1>9, <1>10, <1>11, <1>12, <1>13
        DEF Next, TaskStep, Answered

(* Every variable keeps to its type.                                       *)
THEOREM TypeCorrect == Spec => []TypeOK
BY TypeInit, TypeStep, PTL DEF Spec

-----------------------------------------------------------------------------
(* Why messages are given up.                                              *)

(* The try ended in a lasting error, or in one that is taken for lasting.  *)
Explained == cause'.error \in Lasting \/ TakenForLasting'

LEMMA FatalAnswer ==
  ASSUME TypeOK, NEW error \in DOMAIN Verdicts, "fatal" \in Verdicts[error],
         cause'.error = error, UNCHANGED job
  PROVE  Explained
<1> USE DEF Explained, TakenForLasting, Lasting, OfTelegram, OfIMessage, OfWhatsApp, OfSession,
            OfEmail, OfSignal, OfSimplex, OfDeltaChat, OfBridge
<1>1. CASE job.channel \in {"telegram", "imessage", "whatsapp"}
  BY <1>1 DEF Verdicts
<1>2. CASE job.channel \in {"session", "email", "signal"}
  BY <1>2 DEF Verdicts
<1>3. CASE job.channel \in {"simplex", "delta_chat", "bridge"}
  BY <1>3 DEF Verdicts
<1> QED BY <1>1, <1>2, <1>3, JobType DEF Channels

LEMMA FatalFetch ==
  ASSUME TypeOK, NEW t, NEW i \in NextFile(t), NEW error \in Troubles(i), "fatal" \in OfFetch(error),
         cause'.error = error, UNCHANGED job
  PROVE  Explained
<1> USE DEF Explained
<1>1. i \in Wanted(t) /\ i \in Files
  BY FetchTypes DEF NextFile, Missing
<1>2. CASE job.channel = "telegram"
  <2>1. i \in WithUrl
    BY <1>1, <1>2, JobType DEF Wanted, Coming, Parts, TelegramParts, Single
  <2> QED BY <1>1, <1>2, <2>1, JobType DEF Troubles, Lasting, TakenForLasting, WithUrl, Files, Kinds
<1>3. CASE job.channel \in {"email", "signal", "delta_chat"}
  BY <1>1, <1>3, JobType DEF Wanted, Troubles, OfFetch, FetchOfEmail, FetchOfSignal, FetchOfDeltaChat,
     Lasting, TakenForLasting, WithUrl, Files, Kinds
<1>4. CASE job.channel = "imessage"
  BY <1>1, <1>4, JobType DEF Troubles, OfFetch, FetchOfSignal, FetchOfIMessage, Lasting, TakenForLasting, Kinds
<1> QED BY <1>1, <1>2, <1>3, <1>4, JobType DEF Wanted, Channels

(* A try that gives up before the last one had a fatal error.              *)
LEMMA EarlyIsFatal ==
  ASSUME TypeOK, NEW t \in Tries, NEW verdict, NEW error, GivesUp(t, verdict),
         t < MaxTransient, t <= MaxUnknown
  PROVE  verdict = "fatal"
BY DeliveryAssumption DEF GivesUp, TypeOK, Tries

LEMMA CauseStep == TypeOK /\ GivenUpForACause /\ [Next]_vars => GivenUpForACause'
<1> SUFFICES ASSUME TypeOK, GivenUpForACause, [Next]_vars,
                    row' = "archived", cause'.try < MaxTransient, cause'.try <= MaxUnknown
             PROVE  Explained
  BY DEF GivenUpForACause, Explained
<1>1. CASE UNCHANGED <<row, cause, job>>
  BY <1>1 DEF GivenUpForACause, TakenForLasting, WithUrl, Files, Explained
<1>2. ASSUME NEW t \in Tries, NEW verdict, NEW error, UNCHANGED job,
             EndTry(t, verdict, error) \/ Retire(t, verdict, error) \/ Leave(t),
             verdict = "fatal" /\ cause'.error = error => Explained
      PROVE  Explained
  <2>1. \/ UNCHANGED <<row, cause>>
        \/ cause' = [try |-> t, error |-> error] /\ GivesUp(t, verdict)
    BY <1>2, CauseIs
  <2>2. CASE UNCHANGED <<row, cause>>
    BY <1>1, <1>2, <2>2
  <2>3. CASE cause' = [try |-> t, error |-> error] /\ GivesUp(t, verdict)
    <3>1. cause'.try = t /\ cause'.error = error
      BY <2>3
    <3> QED BY <1>2, <2>3, <3>1, EarlyIsFatal
  <2> QED BY <2>1, <2>2, <2>3
<1>3. CASE UNCHANGED vars \/ Read \/ ReadUnderTask \/ Crash
  BY <1>1, <1>3 DEF vars, Read, ReadUnderTask, Crash
<1>4. ASSUME NEW t \in Live, Start(t) PROVE Explained
  <2>1. UNCHANGED job /\ t \in Tries
    BY <1>4 DEF Start, Live
  <2>2. ASSUME NEW verdict, NEW error, verdict = "fatal" => error = "empty",
               EndTry(t, verdict, error) \/ Retire(t, verdict, error)
        PROVE  Explained
    BY <1>2, <2>1, <2>2 DEF Lasting, Explained
  <2> QED BY <1>1, <1>4, <2>1, <2>2, StartFails
<1>5. ASSUME NEW t \in Live, FetchFails(t) PROVE Explained
  <2>1. PICK i \in NextFile(t) : \E error \in Troubles(i) : \E verdict \in OfFetch(error) :
          Failed(t, i, verdict, error)
    BY <1>5, FetchFailsBy
  <2>2. PICK error \in Troubles(i) : \E verdict \in OfFetch(error) : Failed(t, i, verdict, error)
    BY <2>1
  <2>3. PICK verdict \in OfFetch(error) : Failed(t, i, verdict, error)
    BY <2>2
  <2>4. UNCHANGED job /\ t \in Tries
    BY <1>5 DEF FetchFails, Live
  <2>5. CASE verdict = "skip"
    BY <1>1, <2>3, <2>4, <2>5 DEF Failed
  <2>6. CASE verdict # "skip"
    <3>1. EndTry(t, verdict, error)
      BY <2>3, <2>6 DEF Failed
    <3>2. verdict = "fatal" /\ cause'.error = error => Explained
      BY <2>4, FatalFetch
    <3> QED BY <1>2, <2>4, <3>1, <3>2
  <2> QED BY <2>5, <2>6
<1>6. ASSUME NEW t \in Live, Fetch(t) \/ Post(t) \/ Delete(t) PROVE Explained
  BY <1>1, <1>6 DEF Fetch, Post, Delete
<1>7. ASSUME NEW t \in Live, DeleteFails(t) PROVE Explained
  <2>1. UNCHANGED job /\ t \in Tries
    BY <1>7 DEF DeleteFails, Live
  <2>2. ASSUME NEW verdict \in {"transient", "unknown"}, Retire(t, verdict, "db") \/ Leave(t)
        PROVE  Explained
    BY <1>2, <2>1, <2>2
  <2> QED BY <1>7, <2>2 DEF DeleteFails
<1>8. ASSUME NEW r \in flying, Answer(r) \/ Perform(r) \/ Lose(r) PROVE Explained
  BY <1>1, <1>8 DEF Answer, Perform, Lose
<1>9. ASSUME NEW r \in flying, Refuse(r) \/ TimeOut(r) \/ Break(r) PROVE Explained
  <2>1. r.try \in Tries /\ UNCHANGED job
    BY <1>9, RequestFails
  <2>2. PICK error \in DOMAIN Verdicts : \E v \in Verdicts[error] : EndTry(r.try, v, error)
    BY <1>9, RequestFails
  <2>3. PICK v \in Verdicts[error] : EndTry(r.try, v, error)
    BY <2>2
  <2>4. v = "fatal" /\ cause'.error = error => Explained
    BY <2>1, FatalAnswer
  <2> QED BY <1>2, <2>1, <2>3, <2>4
<1> QED BY <1>3, <1>4, <1>5, <1>6, <1>7, <1>8, <1>9 DEF Next, TaskStep, Answered

(* Before its last try a message is archived only for a lasting cause or   *)
(* for a passing one that its transport takes for lasting (base.py:274-318;*)
(* the transports' error handling).                                        *)
THEOREM NothingGivenUpLightly == Spec => []GivenUpForACause
<1>1. Init => GivenUpForACause
  BY DEF Init, GivenUpForACause
<1> QED BY <1>1, TypeInit, TypeStep, CauseStep, PTL DEF Spec

-----------------------------------------------------------------------------
(* What a step keeps.                                                      *)

LEMMA DueIsOwed ==
  ASSUME TypeOK, NEW i \in Items, Due(i) PROVE Owed(i) /\ \A p : i \notin Page(p)
BY JobType DEF Due, Owed, LeftOut, Page

LEMMA DueStays ==
  ASSUME UNCHANGED job, pages \subseteq pages', skipped \subseteq skipped', NEW i, Due(i)'
  PROVE  Due(i)
BY DEF Due, LeftOut

LEMMA OrderKept ==
  ASSUME InOrder, UNCHANGED <<job, got>>, flying' \subseteq flying,
         pages \subseteq pages', skipped \subseteq skipped'
  PROVE  InOrder'
<1>1. Items' = Items /\ \A t, i : Got(t, i) => Got(t, i)'
  BY DEF Items, Got
<1>2. \A i : Due(i)' => Due(i)
  BY DueStays
<1> QED BY <1>1, <1>2 DEF InOrder

(* Of two parts that do not overlap, the one that is first has no item     *)
(* after one of the other.                                                 *)
LEMMA FirstIsBefore ==
  ASSUME NEW p \in SUBSET Int, NEW q \in SUBSET Int, p = q \/ Apart(p, q), Before(p, q),
         NEW i \in q, NEW j \in p, i < j
  PROVE  FALSE
BY DEF Apart, Before

LEMMA BroughtKept ==
  ASSUME Brought, UNCHANGED job,
         got \subseteq got', pages \subseteq pages', skipped \subseteq skipped'
  PROVE  Brought'
BY DEF Brought, Copies, LeftOut, Files

LEMMA CameKept ==
  ASSUME NEW t, NEW p, Came(t, p), UNCHANGED job, got \subseteq got', pages \subseteq pages'
  PROVE  Came(t, p)'
BY DEF Came, Page, Files

LEMMA RequestStays ==
  ASSUME UNCHANGED job, NEW t, NEW parts, task'[t].done = task[t].done, Parts(t)' = Parts(t),
         IsRequest(t, parts)
  PROVE  IsRequest(t, parts)'
BY DEF IsRequest, Coming, IsFirst, Before

(* A try that a step leaves alone.                                         *)
LEMMA SoundKept ==
  ASSUME NEW t, Sound(t), UNCHANGED job,
         task'[t].pc = task[t].pc, task'[t].done = task[t].done,
         task'[t].now = task[t].now, task'[t].left = task[t].left,
         got \subseteq got', pages \subseteq pages', skipped \subseteq skipped',
         \A r \in flying' : r.try = t => \E s \in flying : s.try = t,
         \A g \in got' : g.try = t => g \in got \/ \E s \in flying : s.try = t
  PROVE  Sound(t)'
<1>1. Parts(t)' = Parts(t) /\ Working(t)' = Working(t)
  BY PartsStay DEF Working
<1>2. Working(t) => \A p \in task[t].done : Came(t, p)'
  BY CameKept DEF Sound
<1>3. task[t].pc = "wait" => IsRequest(t, task[t].now)'
  BY <1>1, RequestStays DEF Sound
<1>4. task[t].pc = "sent" => Brought'
  BY BroughtKept DEF Sound
<1>5. (task[t].pc \notin {"wait", "idle"} => \A r \in flying : r.try # t)'
  BY DEF Sound
<1>6. (task[t].pc = "start" => \A g \in got : g.try # t)'
  BY DEF Sound
<1> QED BY <1>1, <1>2, <1>3, <1>4, <1>5, <1>6 DEF Sound

(* A step that brings the user nothing and begins no request.              *)
LEMMA QuietKeeps ==
  ASSUME IInv, UNCHANGED <<job, got, pages>>, skipped \subseteq skipped', flying' \subseteq flying,
         Trying', Clean',
         \A r \in flying' : Awaited(r)' => Awaited(r) /\ task'[r.try].now = task[r.try].now,
         \A g \in got : Working(g.try)' =>
           /\ Working(g.try)
           /\ task[g.try].done \cup task[g.try].now \subseteq task'[g.try].done \cup task'[g.try].now,
         row' = "deleted" => row = "deleted" \/ Brought
  PROVE  Progress'
<1> USE DEF IInv, Progress
<1>1. Flying'
  <2>1. \A r \in flying' : Awaited(r)' =>
          /\ r.parts \subseteq task'[r.try].now
          /\ \A p \in task'[r.try].now \ r.parts : Came(r.try, p)
    BY DEF Flying
  <2>2. \A r \in flying' : \A p : Came(r.try, p) => Came(r.try, p)'
    BY CameKept
  <2> QED BY <2>1, <2>2 DEF Flying, Ordered
<1>2. Once'
  <2>1. ASSUME NEW g \in got, Working(g.try)'
        PROVE  \E p \in task'[g.try].done \cup task'[g.try].now :
                 g.items \subseteq p /\ \A r \in flying' : r.try = g.try => p \notin r.parts
    <3>1. PICK p \in task[g.try].done \cup task[g.try].now :
            g.items \subseteq p /\ \A r \in flying : r.try = g.try => p \notin r.parts
      BY <2>1 DEF Once
    <3> QED BY <2>1, <3>1
  <2>2. /\ \A g, h \in got' : g.try = h.try /\ g.items \cap h.items # {} => g = h
        /\ \A r \in flying', g \in got' : g.try = r.try => \A p \in r.parts : p \cap g.items = {}
    BY DEF Once
  <2> QED BY <2>1, <2>2 DEF Once
<1>3. InOrder'
  BY OrderKept
<1>4. DeletedIsDelivered'
  BY BroughtKept DEF DeletedIsDelivered, Brought
<1> QED BY <1>1, <1>2, <1>3, <1>4

(* One in which a single try moves on.                                     *)
LEMMA OneMoves ==
  ASSUME IInv, NEW t \in Tries, NEW x, task' = [task EXCEPT ![t] = x],
         UNCHANGED <<job, attempts, got, pages>>, skipped \subseteq skipped', flying' \subseteq flying,
         Sound(t)', Clean',
         x.pc = "wait" => task[t].pc = "wait" /\ x.now = task[t].now,
         x.pc \in {"work", "wait"} => \A g \in got : g.try = t =>
           Working(t) /\ task[t].done \cup task[t].now \subseteq x.done \cup x.now,
         row' = "deleted" => row = "deleted" \/ Brought
  PROVE  Progress'
<1> USE DEF IInv, Progress
<1>1. task'[t] = x /\ (\A u \in Tries : u # t => task'[u] = task[u]) /\ Tries' = Tries
  BY DEF TypeOK, Tries
<1>2. Trying'
  <2>1. ASSUME NEW u \in Tries, u # t PROVE Sound(u)'
    BY <1>1, <2>1, SoundKept DEF Trying
  <2> QED BY <1>1, <2>1 DEF Trying
<1>3. \A r \in flying' : Awaited(r)' => Awaited(r) /\ task'[r.try].now = task[r.try].now
  <2> SUFFICES ASSUME NEW r \in flying', Awaited(r)'
               PROVE  Awaited(r) /\ task'[r.try].now = task[r.try].now
    OBVIOUS
  <2>1. r.try \in Tries
    BY DEF TypeOK
  <2> QED BY <1>1, <2>1 DEF Awaited
<1>4. \A g \in got : Working(g.try)' =>
        /\ Working(g.try)
        /\ task[g.try].done \cup task[g.try].now \subseteq task'[g.try].done \cup task'[g.try].now
  <2> SUFFICES ASSUME NEW g \in got, Working(g.try)'
               PROVE  /\ Working(g.try)
                      /\ task[g.try].done \cup task[g.try].now \subseteq
                           task'[g.try].done \cup task'[g.try].now
    OBVIOUS
  <2>1. g.try \in Tries
    BY DEF TypeOK
  <2> QED BY <1>1, <2>1 DEF Working
<1> QED BY <1>2, <1>3, <1>4, QuietKeeps

LEMMA NoneDone ==
  ASSUME IInv, NEW t \in Tries, job.channel \notin Several, Working(t) PROVE task[t].done = {}
<1>1. TypeOK /\ task[t].done \subseteq Parts(t) /\ task[t].done # Parts(t)
  BY DEF IInv, Progress, Trying, Sound
<1>2. \A p, q \in Parts(t) : p = q
  BY <1>1, OnePart
<1> QED BY <1>1, <1>2

LEMMA IdleIsSound ==
  ASSUME NEW t, task'[t] = At("idle") PROVE Sound(t)'
BY DEF Sound, Working, At

(* A try that fails without an excuse has had no effect.                   *)
Harmless(t) ==
  /\ task[t].pc # "sent"
  /\ job.channel \in Several => task[t].done = {}
  /\ task[t].pc = "wait" =>
       \E r \in flying : /\ r.try = t /\ r.parts # {} /\ r \notin flying'
                         /\ job.channel \in Several => r.parts = task[t].now

LEMMA NoEffect ==
  ASSUME IInv, ~Excused, NEW t \in Live, Harmless(t), flying' \subseteq flying
  PROVE  flying' = {} /\ got = {} /\ Live = {t} /\ t = attempts
<1> USE DEF IInv, Progress
<1>1. /\ t \in Tries /\ t = attempts /\ Live = {t}
      /\ \A r \in flying : Awaited(r) /\ r.try \in Tries
      /\ \A g \in got : g.try = t
  BY DEF Clean, Live, TypeOK
<1>2. \A r \in flying : r.try = t /\ task[t].pc = "wait"
  BY <1>1 DEF Awaited, Live
<1>3. Working(t) => task[t].done = {}
  BY <1>1, NoneDone DEF Harmless
<1>4. task[t].pc \in {"start", "work", "wait"}
  BY <1>1 DEF Live, Harmless, TypeOK, Try
<1>5. Sound(t)
  BY <1>1 DEF Trying
<1>6. CASE task[t].pc = "start"
  BY <1>1, <1>2, <1>5, <1>6 DEF Sound
<1>7. CASE task[t].pc = "work"
  <2>1. flying = {}
    BY <1>2, <1>7
  <2>2. task[t].done \cup task[t].now = {}
    BY <1>3, <1>5, <1>7 DEF Sound, Working
  <2>3. got = {}
    BY <1>1, <1>7, <2>2 DEF Once, Working
  <2> QED BY <1>1, <2>1, <2>3
<1>8. CASE task[t].pc = "wait"
  <2>1. PICK r \in flying : /\ r.try = t /\ r.parts # {} /\ r \notin flying'
                            /\ job.channel \in Several => r.parts = task[t].now
    BY <1>8 DEF Harmless
  <2>2. r.parts = task[t].now
    <3>1. r.parts \subseteq task[t].now /\ task[t].now \subseteq Parts(t)
      BY <1>1, <1>5, <1>8, <2>1 DEF Flying, Sound
    <3> QED BY <2>1, <3>1, OnePart
  <2>3. \A s \in flying : s = r
    BY <1>2, <2>1 DEF Flying
  <2>4. task[t].done \cup task[t].now = r.parts
    BY <1>3, <1>8, <2>2 DEF Working
  <2>5. got = {}
    BY <1>1, <1>8, <2>1, <2>4 DEF Once, Working
  <2> QED BY <1>1, <2>1, <2>3, <2>5
<1> QED BY <1>4, <1>6, <1>7, <1>8

LEMMA FailedIsClean ==
  ASSUME IInv, NEW dead \in SUBSET Live, dead # {}, UNCHANGED <<job, attempts, got>>,
         flying' \subseteq flying,
         \A t \in Tries : task'[t] = IF t \in dead THEN At("idle") ELSE task[t],
         ~Excused' => ~Excused /\ \A t \in dead : Harmless(t)
  PROVE  Clean'
<1> SUFFICES ASSUME ~Excused' PROVE flying' = {} /\ got = {} /\ Live' = {}
  BY DEF Clean
<1>1. PICK t \in dead : t \in Live
  OBVIOUS
<1>2. flying' = {} /\ got = {} /\ Live = {t}
  BY <1>1, NoEffect
<1>3. dead = Live /\ Tries' = Tries
  BY <1>1, <1>2 DEF Tries
<1>4. ASSUME NEW u \in Tries PROVE task'[u].pc = "idle"
  BY <1>3 DEF At, Live
<1> QED BY <1>2, <1>3, <1>4 DEF Live

(* A try that fails.                                                       *)
LEMMA TryFails ==
  ASSUME IInv, NEW t \in Live, Ends(t), flying' \subseteq flying,
         UNCHANGED <<job, attempts, got, pages, skipped>>,
         ~Excused' => ~Excused /\ Harmless(t)
  PROVE  Progress'
<1>1. t \in Tries /\ \A u \in Tries : task'[u] = IF u = t THEN At("idle") ELSE task[u]
  BY DEF Ends, Live, IInv, TypeOK
<1>2. Clean'
  <2>1. \A u \in Tries : task'[u] = IF u \in {t} THEN At("idle") ELSE task[u]
    BY <1>1
  <2> QED BY <2>1, FailedIsClean
<1>3. Sound(t)'
  BY <1>1, IdleIsSound
<1>4. At("idle").pc = "idle"
  BY DEF At
<1> QED BY <1>1, <1>2, <1>3, <1>4, OneMoves DEF Ends

-----------------------------------------------------------------------------
(* The steps.                                                              *)

LEMMA InitProgress == Init => Progress
<1> SUFFICES ASSUME Init PROVE Progress
  OBVIOUS
<1>1. Tries = {} /\ row = "queued" /\ flying = {} /\ got = {}
  BY DEF Init, Tries
<1> QED BY <1>1 DEF Progress, Trying, Flying, Once, InOrder, Clean, Live, DeletedIsDelivered

LEMMA ReadKeeps == ASSUME IInv, Read \/ ReadUnderTask PROVE Progress'
<1> USE DEF IInv, Progress
<1>1. /\ row = "queued" /\ attempts' = attempts + 1
      /\ task' = [t \in 1..attempts' |-> IF t \in Tries THEN task[t] ELSE At("start")]
      /\ UNCHANGED <<job, row, flying, got, pages, skipped, doubt, halfway, undone, cause>>
  BY DEF Read, ReadUnderTask, NewTry
<1>2. /\ Tries' = Tries \cup {attempts'} /\ attempts' \notin Tries
      /\ \A t \in Tries : task'[t] = task[t]
      /\ task'[attempts'] = At("start")
  BY <1>1 DEF Tries, TypeOK
<1>3. (\A r \in flying : r.try \in Tries) /\ (\A g \in got : g.try \in Tries)
  BY DEF TypeOK
<1>4. Trying'
  <2>1. ASSUME NEW t \in Tries PROVE Sound(t)'
    BY <1>1, <1>2, <2>1, SoundKept DEF Trying
  <2>2. ASSUME NEW n, n = attempts' PROVE Sound(n)'
    <3>1. /\ task'[n].pc = "start"
          /\ task'[n].done = {} /\ task'[n].now = {} /\ task'[n].left = {}
      BY <1>2, <2>2 DEF At
    <3>2. (\A g \in got' : g.try # n) /\ \A r \in flying' : r.try # n
      BY <1>1, <1>2, <1>3, <2>2
    <3> HIDE DEF IInv, Progress
    <3> QED BY <3>1, <3>2 DEF Sound, Working
  <2> QED BY <1>2, <2>1, <2>2 DEF Trying
<1>5. Clean'
  <2>1. CASE Live # {}
    BY <1>1, <2>1 DEF Read, ReadUnderTask, Clean, Excused
  <2>2. CASE Live = {}
    <3> SUFFICES ASSUME ~Excused' PROVE flying = {} /\ got = {} /\ \A t \in Live' : t = attempts'
      BY <1>1 DEF Clean
    <3>1. ~Excused
      BY <1>1, <2>2 DEF Read, ReadUnderTask, Excused
    <3>2. flying = {}
      BY <1>3, <2>2, <3>1 DEF Clean, Awaited, Live
    <3>3. got = {}
      BY <1>1, <1>3, <2>2, <3>1 DEF Clean, Live
    <3>4. \A t \in Live' : t = attempts'
      BY <1>2, <2>2 DEF Live
    <3> QED BY <3>2, <3>3, <3>4
  <2> QED BY <2>1, <2>2
<1>6. \A r \in flying' : Awaited(r)' => Awaited(r) /\ task'[r.try].now = task[r.try].now
  BY <1>1, <1>2, <1>3 DEF Awaited
<1>7. \A g \in got : Working(g.try)' =>
        /\ Working(g.try)
        /\ task[g.try].done \cup task[g.try].now \subseteq task'[g.try].done \cup task'[g.try].now
  BY <1>2, <1>3 DEF Working
<1> QED BY <1>1, <1>4, <1>5, <1>6, <1>7, QuietKeeps

(* The parts that have come are what is owed.                              *)
LEMMA AllHasCome ==
  ASSUME IInv, NEW t \in Tries, \A p \in Parts(t) : Came(t, p)
  PROVE  Brought
<1>1. ASSUME NEW i \in Items, Owed(i)
      PROVE  Copies(i) # {} \/ (i \in pages /\ job.channel = "whatsapp" /\ i \in Files)
  <2>1. TypeOK /\ task[t].left \subseteq skipped
    BY DEF IInv, Progress, Trying, Sound
  <2>2. PICK p \in Parts(t) : i \in p
    BY <1>1, <2>1, PartsCover
  <2>3. Came(t, p)
    BY <2>2
  <2>4. CASE i \in Page(p)
    BY <2>3, <2>4 DEF Came, Page
  <2>5. CASE i \notin Page(p)
    BY <2>2, <2>3, <2>5 DEF Came, Copies
  <2> QED BY <2>4, <2>5
<1>2. job.text => Copies(0) # {}
  BY <1>1, JobType DEF Owed, IInv
<1>3. ASSUME NEW i \in Files PROVE Copies(i) # {} \/ LeftOut(i)
  <2>1. i # 0 /\ i \in Items
    BY JobType DEF IInv
  <2> QED BY <1>1, <2>1 DEF Owed, LeftOut
<1> QED BY <1>2, <1>3 DEF Brought

(* Moving on from one place to another leaves the history clean.           *)
LEMMA CleanMoves ==
  ASSUME IInv, NEW t \in Live, UNCHANGED <<job, attempts, got>>, flying' \subseteq flying,
         \A u \in Tries : u # t => task'[u] = task[u],
         Excused => Excused',
         ~Excused' =>
           /\ \A r \in flying' : r.try = t => task'[t].pc = "wait"
           /\ \A g \in got : g.try = t /\ row' = "queued" =>
                task[t].pc = "start" \/ task'[t].pc \in {"work", "wait", "sent"}
           /\ row' = "queued" => row = "queued"
  PROVE  Clean'
<1> SUFFICES ASSUME ~Excused'
             PROVE  /\ \A u \in Live' : u = attempts
                    /\ \A r \in flying' : Awaited(r)'
                    /\ \A g \in got : /\ g.try = attempts
                                      /\ row' = "queued" => task'[attempts].pc \in {"work", "wait", "sent"}
  BY DEF Clean
<1> USE DEF IInv, Progress
<1>1. /\ t = attempts /\ t \in Tries /\ Tries' = Tries
      /\ \A u \in Live : u = attempts
      /\ \A r \in flying : Awaited(r) /\ r.try \in Tries
      /\ \A g \in got : /\ g.try = attempts
                        /\ row = "queued" => task[attempts].pc \in {"work", "wait", "sent"}
  BY DEF Clean, Live, TypeOK, Tries
<1>2. \A u \in Live' : u = attempts
  BY <1>1 DEF Live
<1>3. \A r \in flying' : Awaited(r)'
  BY <1>1 DEF Awaited, Live
<1> QED BY <1>1, <1>2, <1>3

LEMMA StartKeeps == ASSUME IInv, NEW t \in Live, Start(t) PROVE Progress'
<1> USE DEF IInv, Progress
<1>1. /\ UNCHANGED <<job, attempts, flying, got, pages, skipped, doubt, halfway, undone, overrun>>
      /\ task[t].pc = "start" /\ t \in Tries /\ Excused' = Excused
  BY DEF Start, Live, Excused
<1>2. /\ Sound(t) /\ task[t].done = {} /\ task[t].now = {} /\ task[t].left = {}
      /\ (\A r \in flying : r.try # t) /\ (\A g \in got : g.try # t)
  BY <1>1 DEF Trying, Sound, Working
<1>3. CASE /\ job.known /\ (Parts(t) # {} \/ job.channel = "delta_chat")
           /\ task' = [task EXCEPT ![t].pc = IF Parts(t) = {} THEN "sent" ELSE "work"]
           /\ UNCHANGED <<row, cause, faults>>
  <2> DEFINE x == [task[t] EXCEPT !.pc = IF Parts(t) = {} THEN "sent" ELSE "work"]
  <2>1. /\ task' = [task EXCEPT ![t] = x] /\ task'[t] = x /\ \A u \in Tries : u # t => task'[u] = task[u]
    BY <1>1, <1>3 DEF TypeOK
  <2>2. /\ x.done = {} /\ x.now = {} /\ x.left = {}
        /\ x.pc = IF Parts(t) = {} THEN "sent" ELSE "work"
    BY <1>1, <1>2 DEF TypeOK, Try
  <2> HIDE DEF x
  <2>3. Parts(t)' = Parts(t)
    BY <1>1, <1>2, <2>1, <2>2, PartsStay
  <2>4. Parts(t) = {} => Brought'
    <3>1. Parts(t) = {} => Brought
      BY <1>1, AllHasCome
    <3> QED BY <1>1, <3>1, BroughtKept
  <2>5. Sound(t)'
    BY <1>1, <1>2, <2>1, <2>2, <2>3, <2>4 DEF Sound, Working
  <2>6. Clean'
    BY <1>1, <1>2, <1>3, <2>1, CleanMoves
  <2> QED BY <1>1, <1>2, <1>3, <2>1, <2>2, <2>5, <2>6, OneMoves
<1>4. ASSUME NEW verdict, NEW error, EndTry(t, verdict, error) \/ Retire(t, verdict, error)
      PROVE  Progress'
  <2>1. Ends(t)
    BY <1>4, EndEnds
  <2>2. Harmless(t)
    BY <1>1, <1>2 DEF Harmless
  <2> QED BY <1>1, <2>1, <2>2, TryFails
<1> QED BY <1>3, <1>4, StartFails

LEMMA FetchKeeps == ASSUME IInv, NEW t \in Live, Fetch(t) PROVE Progress'
<1> USE DEF IInv, Progress
<1>1. /\ UNCHANGED <<job, row, attempts, flying, got, pages, skipped, doubt, halfway, undone, overrun>>
      /\ task[t].pc = "work" /\ t \in Tries /\ Excused' = Excused
  BY DEF Fetch, Live, Excused
<1>2. PICK i \in NextFile(t) : task' = [task EXCEPT ![t].have = @ \cup {i}]
  BY DEF Fetch
<1> DEFINE x == [task[t] EXCEPT !.have = @ \cup {i}]
<1>3. /\ task' = [task EXCEPT ![t] = x] /\ task'[t] = x /\ \A u \in Tries : u # t => task'[u] = task[u]
  BY <1>1, <1>2 DEF TypeOK
<1>4. x.pc = "work" /\ x.done = task[t].done /\ x.now = task[t].now /\ x.left = task[t].left
  BY <1>1 DEF TypeOK, Try
<1> HIDE DEF x
<1>5. Sound(t)'
  BY <1>1, <1>3, <1>4, SoundKept DEF Trying
<1>6. Clean'
  <2>1. \A r \in flying : r.try # t
    BY <1>1 DEF Trying, Sound
  <2> QED BY <1>1, <1>3, <1>4, <2>1, CleanMoves
<1> QED BY <1>1, <1>3, <1>4, <1>5, <1>6, OneMoves DEF Working

LEMMA SkipKeeps ==
  ASSUME IInv, NEW t \in Live, job.channel = "email", task[t].pc = "work", NEW i \in Files,
         task' = [task EXCEPT ![t].left = @ \cup {i}], skipped' = skipped \cup {i},
         UNCHANGED <<job, row, attempts, flying, got, pages, doubt, halfway, undone, overrun>>
  PROVE  Progress'
<1> USE DEF IInv, Progress
<1> DEFINE x == [task[t] EXCEPT !.left = @ \cup {i}]
<1>1. /\ t \in Tries /\ Excused' = Excused /\ Working(t) /\ Sound(t)
      /\ task' = [task EXCEPT ![t] = x] /\ task'[t] = x /\ \A u \in Tries : u # t => task'[u] = task[u]
  BY DEF TypeOK, Live, Excused, Working, Trying
<1>2. x.pc = "work" /\ x.done = task[t].done /\ x.now = task[t].now /\ x.left = task[t].left \cup {i}
  BY <1>1 DEF TypeOK, Try
<1> HIDE DEF x
<1>3. task[t].done = {} /\ task[t].now = {} /\ \A r \in flying : r.try # t
  BY <1>1, NoneDone DEF Several, Sound
<1>4. Parts(t)' # {}
  BY DEF Parts, EmailParts
<1>5. Sound(t)'
  BY <1>1, <1>2, <1>3, <1>4 DEF Sound, Working
<1>6. Clean'
  BY <1>1, <1>2, <1>3, CleanMoves
<1> QED BY <1>1, <1>2, <1>3, <1>5, <1>6, OneMoves

LEMMA FetchFailsKeeps == ASSUME IInv, NEW t \in Live, FetchFails(t) PROVE Progress'
<1>1. /\ UNCHANGED <<job, attempts, flying, got, pages, doubt, undone, overrun>>
      /\ task[t].pc = "work" /\ TypeOK
  BY DEF FetchFails, IInv
<1>2. PICK i \in NextFile(t) : \E error \in Troubles(i) : \E verdict \in OfFetch(error) :
        Failed(t, i, verdict, error)
  BY <1>1, FetchFailsBy
<1>3. PICK error \in Troubles(i) : \E verdict \in OfFetch(error) : Failed(t, i, verdict, error)
  BY <1>2
<1>4. PICK verdict \in OfFetch(error) : Failed(t, i, verdict, error)
  BY <1>3
<1>5. i \in Files /\ (verdict = "skip" => job.channel = "email")
  BY <1>1, FetchTypes
<1>6. CASE verdict = "skip"
  BY <1>1, <1>4, <1>5, <1>6, SkipKeeps DEF Failed
<1>7. CASE verdict # "skip"
  <2>1. EndTry(t, verdict, error) /\ halfway' = (halfway \/ task[t].done # {}) /\ UNCHANGED skipped
    BY <1>4, <1>7 DEF Failed
  <2>2. Ends(t)
    BY <2>1, EndEnds
  <2>3. ~Excused' => ~Excused /\ Harmless(t)
    BY <1>1, <2>1 DEF Excused, Harmless
  <2> QED BY <1>1, <2>1, <2>2, <2>3, TryFails
<1> QED BY <1>6, <1>7

LEMMA DeleteKeeps == ASSUME IInv, NEW t \in Live, Delete(t) PROVE Progress'
<1> USE DEF IInv, Progress
<1>1. /\ UNCHANGED <<job, attempts, flying, got, pages, skipped, doubt, halfway, undone, overrun>>
      /\ task[t].pc = "sent" /\ t \in Tries /\ Excused' = Excused
      /\ row' = IF row = "queued" THEN "deleted" ELSE row
      /\ task' = [task EXCEPT ![t] = At("idle")] /\ At("idle").pc = "idle"
  BY DEF Delete, Live, Excused, At
<1>2. Brought /\ \A r \in flying : r.try # t
  BY <1>1 DEF Trying, Sound
<1>3. task'[t] = At("idle") /\ \A u \in Tries : u # t => task'[u] = task[u]
  BY <1>1 DEF TypeOK
<1>4. Sound(t)'
  BY <1>3, IdleIsSound
<1>5. Clean'
  BY <1>1, <1>2, <1>3, CleanMoves
<1> QED BY <1>1, <1>2, <1>4, <1>5, OneMoves

LEMMA DeleteFailsKeeps == ASSUME IInv, NEW t \in Live, DeleteFails(t) PROVE Progress'
<1>1. /\ undone' = TRUE /\ UNCHANGED <<job, attempts, flying, got, pages, skipped>>
      /\ Leave(t) \/ \E verdict \in {"transient", "unknown"} : Retire(t, verdict, "db")
  BY DEF DeleteFails
<1>2. Ends(t)
  BY <1>1, EndEnds DEF Leave, Ends
<1>3. Excused'
  BY <1>1 DEF Excused
<1> QED BY <1>1, <1>2, <1>3, TryFails

LEMMA PostKeeps == ASSUME IInv, NEW t \in Live, Post(t) PROVE Progress'
<1> USE DEF IInv, Progress
<1>1. PICK parts \in SUBSET Parts(t) :
        /\ IsRequest(t, parts)
        /\ flying' = flying \cup {[try |-> t, parts |-> parts]}
        /\ task' = [task EXCEPT ![t].pc = "wait", ![t].now = parts]
  BY DEF Post
<1> DEFINE R == [try |-> t, parts |-> parts]
           x == [task[t] EXCEPT !.pc = "wait", !.now = parts]
<1>2. /\ UNCHANGED <<job, row, attempts, got, pages, skipped, doubt, halfway, undone, overrun>>
      /\ task[t].pc = "work" /\ t \in Tries /\ Excused' = Excused /\ Tries' = Tries
  BY DEF Post, Live, Excused, Tries
<1>3. task' = [task EXCEPT ![t] = x] /\ task'[t] = x /\ \A u \in Tries : u # t => task'[u] = task[u]
  BY <1>1, <1>2 DEF TypeOK
<1>4. /\ x.pc = "wait" /\ x.done = task[t].done /\ x.now = parts /\ x.left = task[t].left
      /\ R.try = t /\ R.parts = parts /\ flying' = flying \cup {R}
  BY <1>1, <1>2 DEF TypeOK, Try
<1> HIDE DEF R, x
<1>5. Parts(t)' = Parts(t) /\ IsRequest(t, parts)'
  <2>1. Parts(t)' = Parts(t)
    BY <1>2, <1>3, <1>4, PartsStay
  <2> QED BY <1>1, <1>2, <1>3, <1>4, <2>1, RequestStays
<1>6. /\ Sound(t) /\ Working(t) /\ task[t].now = {} /\ task[t].done \subseteq Parts(t)
      /\ \A r \in flying : r.try # t
  BY <1>2 DEF Trying, Sound, Working
<1>7. Parts(t) \subseteq SUBSET Items /\ Ordered(Parts(t)) /\ Items \subseteq Int
  BY PartsOrdered, JobType DEF Items
<1>8. \A q \in parts : q \notin task[t].done /\ q \in Parts(t)
  BY <1>1, <1>6 DEF IsRequest, Coming, Sound
<1>9. ASSUME NEW p \in Parts(t), NEW q \in Parts(t), p # q PROVE p \cap q = {}
  <2>1. Apart(p, q) /\ p \subseteq Int /\ q \subseteq Int
    BY <1>7, <1>9 DEF Ordered
  <2> QED BY <2>1 DEF Apart
<1>10. \A r \in flying : r.try \in Tries
  BY DEF TypeOK
<1>11. Trying'
  <2>1. \A p \in task[t].done : Came(t, p)'
    BY <1>2, <1>6, CameKept DEF Sound
  <2>2. Sound(t)'
    BY <1>2, <1>3, <1>4, <1>5, <1>6, <2>1 DEF Sound, Working, IsRequest, Coming, IsFirst, Before
  <2>3. ASSUME NEW u \in Tries, u # t PROVE Sound(u)'
    BY <1>2, <1>3, <1>4, <2>3, SoundKept DEF Trying
  <2> QED BY <1>2, <2>2, <2>3 DEF Trying
<1>12. Flying'
  <2>1. Ordered(parts)
    BY <1>7 DEF Ordered
  <2>2. \A r, s \in flying' : r.try = s.try => r = s
    BY <1>4, <1>6 DEF Flying
  <2>3. \A r \in flying' : Ordered(r.parts)
    BY <1>4, <2>1 DEF Flying
  <2>4. ASSUME NEW r \in flying', Awaited(r)'
        PROVE  r.parts \subseteq task'[r.try].now /\ \A p \in task'[r.try].now \ r.parts : Came(r.try, p)'
    <3>1. CASE r = R
      BY <1>3, <1>4, <3>1
    <3>2. CASE r # R
      <4>1. r \in flying /\ r.try # t /\ task'[r.try] = task[r.try]
        BY <1>3, <1>4, <1>6, <1>10, <3>2
      <4>2. r.parts \subseteq task[r.try].now /\ \A p \in task[r.try].now \ r.parts : Came(r.try, p)
        BY <2>4, <4>1 DEF Flying, Awaited
      <4> QED BY <1>2, <4>1, <4>2, CameKept
    <3> QED BY <3>1, <3>2
  <2> QED BY <2>2, <2>3, <2>4 DEF Flying, Ordered
<1>13. Once'
  <2>1. ASSUME NEW g \in got, g.try = t
        PROVE  \E p \in task[t].done : g.items \subseteq p /\ \A q \in parts : p \cap q = {}
    <3>1. PICK p \in task[t].done : g.items \subseteq p
      BY <1>6, <2>1 DEF Once
    <3> QED BY <1>6, <1>8, <1>9, <3>1
  <2>2. \A g, h \in got : g.try = h.try /\ g.items \cap h.items # {} => g = h
    BY DEF Once
  <2>3. \A r \in flying', g \in got : g.try = r.try => \A p \in r.parts : p \cap g.items = {}
    BY <1>4, <2>1 DEF Once
  <2>4. ASSUME NEW g \in got, Working(g.try)'
        PROVE  \E p \in task'[g.try].done \cup task'[g.try].now :
                 g.items \subseteq p /\ \A r \in flying' : r.try = g.try => p \notin r.parts
    <3>1. CASE g.try = t
      <4>1. PICK p \in task[t].done : g.items \subseteq p
        BY <1>6, <3>1 DEF Once
      <4>2. \A r \in flying' : r.try = t => r = R
        BY <1>4, <1>6
      <4> QED BY <1>3, <1>4, <1>8, <3>1, <4>1, <4>2
    <3>2. CASE g.try # t
      <4>1. g.try \in Tries /\ task'[g.try] = task[g.try]
        BY <1>3, <3>2 DEF TypeOK
      <4>2. PICK p \in task[g.try].done \cup task[g.try].now :
              g.items \subseteq p /\ \A r \in flying : r.try = g.try => p \notin r.parts
        BY <2>4, <4>1 DEF Once, Working
      <4> QED BY <1>4, <3>2, <4>1, <4>2
    <3> QED BY <3>1, <3>2
  <2> QED BY <1>2, <2>2, <2>3, <2>4 DEF Once
<1>14. InOrder'
  <2>1. Items' = Items /\ \A i : Due(i)' => Due(i)
    BY <1>2, DueStays DEF Items
  <2>2. \A u, i : Got(u, i)' <=> Got(u, i)
    BY <1>2 DEF Got
  <2>3. ASSUME NEW p \in parts, NEW j \in p, NEW i \in Items, i < j, Due(i)
        PROVE  Got(t, i) \/ \E q \in parts : i \in q
    <3>1. Owed(i) /\ \A q : i \notin Page(q)
      BY <2>3, DueIsOwed
    <3>2. PICK q \in Parts(t) : i \in q
      BY <1>6, <3>1, PartsCover DEF Sound
    <3>3. CASE q \in task[t].done
      <4>1. Came(t, q)
        BY <1>6, <3>3 DEF Sound
      <4> QED BY <3>1, <3>2, <4>1 DEF Came, Got
    <3>4. CASE q \notin task[t].done
      <4>1. q = p \/ (q \in Parts(t) \ task[t].done /\ p \in Parts(t))
        BY <1>8, <2>3, <3>4
      <4>2. parts = Parts(t) \/ (parts = {p} /\ IsFirst(p, Parts(t) \ task[t].done))
        BY <1>1, <2>3 DEF IsRequest, Coming
      <4>3. q # p /\ IsFirst(p, Parts(t) \ task[t].done) => FALSE
        <5> SUFFICES ASSUME q # p, IsFirst(p, Parts(t) \ task[t].done) PROVE FALSE
          OBVIOUS
        <5>1. Before(p, q) /\ p \in SUBSET Int /\ q \in SUBSET Int /\ Apart(p, q)
          <6>1. p \in Parts(t) /\ q \in (Parts(t) \ task[t].done) \ {p}
            BY <1>8, <3>2, <3>4
          <6> QED BY <1>7, <6>1 DEF IsFirst, Ordered
        <5> QED BY <2>3, <3>2, <5>1, FirstIsBefore
      <4> QED BY <3>2, <4>2, <4>3
    <3> QED BY <3>3, <3>4
  <2>4. ASSUME NEW r \in flying', NEW p \in r.parts, NEW j \in p, NEW i \in Items, i < j, Due(i)
        PROVE  Got(r.try, i) \/ \E q \in r.parts : i \in q
    <3>1. CASE r = R
      BY <1>4, <2>3, <2>4, <3>1
    <3>2. CASE r # R
      BY <1>4, <2>4, <3>2 DEF InOrder
    <3> QED BY <3>1, <3>2
  <2>5. \A g \in got : \A j \in g.items, i \in Items : i < j /\ Due(i) => Got(g.try, i)
    BY DEF InOrder
  <2> QED BY <1>2, <2>1, <2>2, <2>4, <2>5 DEF InOrder
<1>15. Clean'
  <2> SUFFICES ASSUME ~Excused'
               PROVE  /\ \A u \in Live' : u = attempts
                      /\ \A r \in flying' : Awaited(r)'
                      /\ \A g \in got : /\ g.try = attempts
                                        /\ row = "queued" => task'[attempts].pc \in {"work", "wait", "sent"}
    BY <1>2 DEF Clean
  <2>1. t = attempts /\ (\A u \in Live : u = attempts) /\ (\A r \in flying : Awaited(r))
        /\ \A g \in got : g.try = attempts
    BY <1>2 DEF Clean
  <2>2. \A u \in Live' : u = attempts
    BY <1>2, <1>3, <2>1 DEF Live
  <2>3. \A r \in flying' : Awaited(r)'
    BY <1>3, <1>4, <1>6, <1>10, <2>1 DEF Awaited
  <2> QED BY <1>3, <1>4, <2>1, <2>2, <2>3
<1>16. DeletedIsDelivered'
  BY <1>2, BroughtKept DEF DeletedIsDelivered, Brought
<1> QED BY <1>11, <1>12, <1>13, <1>14, <1>15, <1>16

LEMMA AnswerKeeps == ASSUME IInv, NEW r \in flying, Answer(r) PROVE Progress'
<1> USE DEF IInv, Progress
<1> DEFINE t == r.try
<1>1. /\ r.parts = {} /\ flying' = flying \ {r} /\ Awaited(r)
      /\ UNCHANGED <<job, row, attempts, got, pages, skipped, doubt, halfway, undone, overrun>>
      /\ \/ LastRequest(t) /\ task' = [task EXCEPT ![t] = At("sent")]
         \/ /\ ~LastRequest(t)
            /\ task' = [task EXCEPT ![t].pc = "work", ![t].done = @ \cup task[t].now, ![t].now = {}]
  BY DEF Answer
<1> HIDE DEF t
<1>2. /\ t = r.try /\ t \in Tries /\ task[t].pc = "wait" /\ t \in Live /\ Excused' = Excused /\ Working(t)
      /\ Sound(t)
  BY <1>1 DEF t, TypeOK, Awaited, Live, Excused, Working, Trying
<1>3. \A p \in task[t].done \cup task[t].now : Came(t, p)
  <2>1. \A p \in task[t].now : Came(t, p)
    BY <1>1, <1>2 DEF Flying
  <2> QED BY <1>2, <2>1 DEF Sound
<1>4. \A s \in flying' : s.try # t
  BY <1>1, <1>2 DEF Flying
<1>5. CASE LastRequest(t)
  <2>1. /\ task' = [task EXCEPT ![t] = At("sent")] /\ task'[t] = At("sent")
        /\ \A u \in Tries : u # t => task'[u] = task[u]
    BY <1>1, <1>2, <1>5 DEF TypeOK
  <2>2. /\ At("sent").pc = "sent" /\ At("sent").done = {} /\ At("sent").now = {}
        /\ At("sent").left = {}
    BY DEF At
  <2>3. Brought'
    <3>1. Brought
      BY <1>2, <1>3, <1>5, AllHasCome DEF LastRequest
    <3> QED BY <1>1, <3>1, BroughtKept
  <2>4. Sound(t)'
    BY <1>4, <2>1, <2>2, <2>3 DEF Sound, Working
  <2>5. Clean'
    BY <1>1, <1>2, <1>4, <2>1, <2>2, CleanMoves
  <2> QED BY <1>1, <1>2, <2>1, <2>2, <2>4, <2>5, OneMoves
<1>6. CASE ~LastRequest(t)
  <2> DEFINE x == [task[t] EXCEPT !.pc = "work", !.done = @ \cup task[t].now, !.now = {}]
  <2>1. /\ task' = [task EXCEPT ![t] = x] /\ task'[t] = x
        /\ \A u \in Tries : u # t => task'[u] = task[u]
    BY <1>1, <1>2, <1>6 DEF TypeOK
  <2>2. /\ x.pc = "work" /\ x.done = task[t].done \cup task[t].now /\ x.now = {}
        /\ x.left = task[t].left
    BY <1>2 DEF TypeOK, Try
  <2> HIDE DEF x
  <2>3. Parts(t)' = Parts(t)
    BY <1>1, <2>1, <2>2, PartsStay
  <2>4. job.channel # "whatsapp"
    BY <1>2, <1>6 DEF Sound, IsRequest, LastRequest
  <2>5. Sound(t)'
    <3>1. \A p \in task[t].done \cup task[t].now : Came(t, p)'
      BY <1>1, <1>3, CameKept
    <3>2. /\ task[t].done \cup task[t].now \subseteq Parts(t) /\ task[t].done \cup task[t].now # Parts(t)
          /\ task[t].left \subseteq skipped
      BY <1>2, <1>6 DEF LastRequest, Sound
    <3> QED BY <1>1, <1>4, <2>1, <2>2, <2>3, <2>4, <3>1, <3>2 DEF Sound, Working
  <2>6. Clean'
    BY <1>1, <1>2, <1>4, <2>1, <2>2, CleanMoves
  <2> QED BY <1>1, <1>2, <2>1, <2>2, <2>5, <2>6, OneMoves
<1> QED BY <1>5, <1>6

LEMMA LoseKeeps == ASSUME IInv, NEW r \in flying, Lose(r) PROVE Progress'
<1> USE DEF IInv, Progress
<1>1. /\ flying' = flying \ {r} /\ Excused' = Excused /\ Tries' = Tries /\ Live' = Live
      /\ UNCHANGED <<job, row, attempts, task, got, pages, skipped>>
  BY DEF Lose, Excused, Tries, Live
<1>2. Trying'
  BY <1>1, SoundKept DEF Trying
<1>3. Clean'
  BY <1>1 DEF Clean, Awaited
<1> QED BY <1>1, <1>2, <1>3, QuietKeeps DEF Awaited, Working

LEMMA StutterKeeps == ASSUME IInv, UNCHANGED vars PROVE Progress'
<1> USE DEF IInv, Progress
<1>1. /\ flying' = flying /\ Excused' = Excused /\ Tries' = Tries /\ Live' = Live
      /\ UNCHANGED <<job, row, attempts, task, got, pages, skipped>>
  BY DEF vars, Excused, Tries, Live
<1>2. Trying'
  BY <1>1, SoundKept DEF Trying
<1>3. Clean'
  BY <1>1 DEF Clean, Awaited
<1> QED BY <1>1, <1>2, <1>3, QuietKeeps DEF Awaited, Working

LEMMA RefuseKeeps == ASSUME IInv, NEW r \in flying, Refuse(r) PROVE Progress'
<1>1. /\ TypeOK /\ Awaited(r) /\ flying' = flying \ {r} /\ r.try \in Live
      /\ halfway' = (halfway \/ task[r.try].done # {} \/ r.parts # task[r.try].now)
      /\ UNCHANGED <<job, attempts, got, pages, skipped, doubt, undone, overrun>>
  BY DEF Refuse, Awaited, IInv, Live, TypeOK
<1>2. PICK error \in DOMAIN Verdicts :
        (r.parts # {} \/ error = "page") /\ \E v \in Verdicts[error] : EndTry(r.try, v, error)
  BY DEF Refuse
<1>3. Ends(r.try)
  BY <1>2, EndEnds
<1>4. r.parts = {} => Excused'
  <2> SUFFICES ASSUME r.parts = {} PROVE halfway' /\ job.channel \in Several
    BY <1>1 DEF Excused
  <2>1. "page" \in DOMAIN Verdicts
    BY <1>2
  <2>2. job.channel \in {"telegram", "imessage", "whatsapp"}
    BY <1>1, <2>1, JobType
       DEF Verdicts, Channels, OfSession, OfEmail, OfSignal, OfSimplex, OfDeltaChat, OfBridge
  <2>3. Sound(r.try) /\ task[r.try].pc = "wait"
    BY <1>1 DEF IInv, Progress, Trying, Live, Awaited
  <2>4. task[r.try].done = {} => task[r.try].now # {}
    BY <2>3 DEF Sound, IsRequest, Working
  <2> QED BY <1>1, <2>2, <2>4 DEF Several
<1>5. ~Excused' => ~Excused /\ Harmless(r.try)
  BY <1>1, <1>4 DEF Excused, Harmless, Awaited
<1> QED BY <1>1, <1>3, <1>5, TryFails

LEMMA GiveUpKeeps == ASSUME IInv, NEW r \in flying, TimeOut(r) \/ Break(r) PROVE Progress'
<1>1. PICK error \in DOMAIN Verdicts : GiveUp(r, error)
  BY DEF TimeOut, Break, GiveUp
<1>2. /\ r.try \in Live /\ doubt' /\ UNCHANGED <<job, attempts, flying, got, pages, skipped>>
      /\ Ends(r.try)
  BY <1>1, EndEnds DEF GiveUp, Awaited, Live, IInv, TypeOK
<1>3. Excused'
  BY <1>2 DEF Excused
<1> QED BY <1>2, <1>3, TryFails

LEMMA CrashKeeps == ASSUME IInv, Crash PROVE Progress'
<1> USE DEF IInv, Progress
<1>1. UNCHANGED <<job, row, attempts, flying, got, pages, skipped, overrun>> /\ Tries' = Tries
  BY DEF Crash, Tries
<1>2. PICK dead \in SUBSET Live :
        /\ dead # {}
        /\ task' = [t \in Tries |-> IF t \in dead THEN At("idle") ELSE task[t]]
        /\ doubt' = (doubt \/ \E t \in dead : task[t].pc = "wait")
        /\ halfway' = (halfway \/ \E t \in dead : task[t].done # {})
        /\ undone' = (undone \/ \E t \in dead : task[t].pc = "sent")
  BY DEF Crash
<1>3. \A t \in Tries : task'[t] = IF t \in dead THEN At("idle") ELSE task[t]
  BY <1>2
<1>4. Clean'
  <2>1. ~Excused' => ~Excused /\ \A t \in dead : Harmless(t)
    BY <1>1, <1>2 DEF Excused, Harmless
  <2> QED BY <1>1, <1>2, <1>3, <2>1, FailedIsClean
<1>5. Trying'
  <2>1. ASSUME NEW t \in Tries PROVE Sound(t)'
    <3>1. CASE t \in dead
      BY <1>3, <3>1, IdleIsSound
    <3>2. CASE t \notin dead
      BY <1>1, <1>3, <3>2, SoundKept DEF Trying
    <3> QED BY <3>1, <3>2
  <2> QED BY <1>1, <2>1 DEF Trying
<1>6. (\A r \in flying : r.try \in Tries) /\ (\A g \in got : g.try \in Tries) /\ At("idle").pc = "idle"
  BY DEF TypeOK, At
<1>7. \A r \in flying' : Awaited(r)' => Awaited(r) /\ task'[r.try].now = task[r.try].now
  BY <1>1, <1>3, <1>6 DEF Awaited
<1>8. \A g \in got : Working(g.try)' => Working(g.try) /\ task'[g.try] = task[g.try]
  BY <1>3, <1>6 DEF Working
<1> QED BY <1>1, <1>4, <1>5, <1>7, <1>8, QuietKeeps

LEMMA PerformKeeps == ASSUME IInv, NEW r \in flying, Perform(r) PROVE Progress'
<1> USE DEF IInv, Progress
<1>1. PICK p \in r.parts :
        /\ IsFirst(p, r.parts)
        /\ got' = got \cup {[try |-> r.try, items |-> p \ Page(p)]}
        /\ pages' = pages \cup Page(p)
        /\ flying' = (flying \ {r}) \cup
             (IF Awaited(r) \/ r.parts # {p} THEN {[r EXCEPT !.parts = @ \ {p}]} ELSE {})
        /\ UNCHANGED <<job, row, attempts, task, skipped, doubt, halfway, undone, overrun, cause>>
  BY DEF Perform, Page
<1> DEFINE G == [try |-> r.try, items |-> p \ Page(p)]
           S == [r EXCEPT !.parts = @ \ {p}]
<1>2. /\ G.try = r.try /\ G.items = p \ Page(p) /\ got' = got \cup {G}
      /\ S.try = r.try /\ S.parts = r.parts \ {p}
      /\ \A s \in flying' : s = S \/ s \in flying \ {r}
  BY <1>1 DEF TypeOK
<1> HIDE DEF G, S
<1>3. /\ \A q \in r.parts : q \in SUBSET Int
      /\ \A q \in r.parts : q = p \/ Apart(p, q)
      /\ Items \subseteq Int
  BY JobType DEF TypeOK, Items, Flying, Ordered
<1>4. \A s \in flying : s.try = r.try => s = r
  BY DEF Flying
<1>5. \A t, q : Came(t, q) => Came(t, q)'
  BY <1>1 DEF Came, Page, Files
<1>6. Came(r.try, p)'
  BY <1>1 DEF Came, Page, Files
<1>7. Items' = Items /\ Tries' = Tries /\ Live' = Live /\ Excused' = Excused
  BY <1>1 DEF Items, Tries, Live, Excused
<1>8. /\ \A s \in flying' \ {S} : s \in flying /\ s # r /\ s.try # r.try
      /\ \A s \in flying : Awaited(s)' <=> Awaited(s)
      /\ Awaited(S)' <=> Awaited(r)
  BY <1>1, <1>2, <1>4 DEF Awaited
<1>9. Trying'
  <2>1. (\A s \in flying' : \E t \in flying : s.try = t.try) /\ (\A g \in got' : g \in got \/ g.try = r.try)
    BY <1>2
  <2> QED BY <1>1, <1>7, <2>1, SoundKept DEF Trying
<1>10. Flying'
  <2>1. \A s, t \in flying' : s.try = t.try => s = t
    BY <1>2, <1>8 DEF Flying
  <2>2. \A s \in flying' : Ordered(s.parts)
    BY <1>2 DEF Flying, Ordered
  <2>3. ASSUME NEW s \in flying', Awaited(s)'
        PROVE  s.parts \subseteq task[s.try].now /\ \A q \in task[s.try].now \ s.parts : Came(s.try, q)'
    <3>1. CASE s = S
      <4>1. /\ r.parts \subseteq task[r.try].now /\ s.try = r.try
            /\ \A q \in task[r.try].now \ r.parts : Came(r.try, q)
        BY <1>2, <1>8, <2>3, <3>1 DEF Flying
      <4>2. \A q \in task[r.try].now \ r.parts : Came(r.try, q)'
        BY <1>5, <4>1
      <4> QED BY <1>2, <1>6, <3>1, <4>1, <4>2
    <3>2. CASE s # S
      <4>1. s \in flying /\ Awaited(s)
        BY <1>8, <2>3, <3>2
      <4> QED BY <1>5, <4>1 DEF Flying
    <3> QED BY <3>1, <3>2
  <2> QED BY <1>1, <2>1, <2>2, <2>3 DEF Flying, Ordered
<1>11. Once'
  <2>1. \A g, h \in got' : g.try = h.try /\ g.items \cap h.items # {} => g = h
    BY <1>2 DEF Once
  <2>2. \A q \in S.parts : p \cap q = {}
    <3> SUFFICES ASSUME NEW q \in S.parts PROVE p \cap q = {}
      OBVIOUS
    <3>1. Apart(p, q) /\ p \in SUBSET Int /\ q \in SUBSET Int
      BY <1>2, <1>3
    <3> QED BY <3>1 DEF Apart
  <2>3. \A s \in flying', g \in got' : g.try = s.try => \A q \in s.parts : q \cap g.items = {}
    <3> SUFFICES ASSUME NEW s \in flying', NEW g \in got', g.try = s.try, NEW q \in s.parts
                 PROVE  q \cap g.items = {}
      OBVIOUS
    <3>1. CASE s = S /\ g = G
      BY <1>2, <2>2, <3>1
    <3>2. CASE s = S /\ g \in got
      BY <1>2, <3>2 DEF Once
    <3>3. CASE s # S /\ g = G
      BY <1>2, <1>8, <3>3
    <3>4. CASE s # S /\ g \in got
      BY <1>8, <3>4 DEF Once
    <3> QED BY <1>2, <3>1, <3>2, <3>3, <3>4
  <2>4. ASSUME NEW g \in got', Working(g.try)
        PROVE  \E q \in task[g.try].done \cup task[g.try].now :
                 g.items \subseteq q /\ \A s \in flying' : s.try = g.try => q \notin s.parts
    <3>1. CASE g \in got
      <4>1. PICK q \in task[g.try].done \cup task[g.try].now :
              g.items \subseteq q /\ \A s \in flying : s.try = g.try => q \notin s.parts
        BY <2>4, <3>1 DEF Once
      <4> QED BY <1>2, <1>8, <4>1
    <3>2. CASE g = G
      <4>1. Awaited(r)
        BY <1>2, <2>4, <3>2 DEF Trying, Sound, Awaited, Working, TypeOK
      <4>2. p \in task[r.try].now
        BY <4>1 DEF Flying
      <4>3. \A s \in flying' : s.try = r.try => s = S
        BY <1>8
      <4> QED BY <1>2, <3>2, <4>2, <4>3
    <3> QED BY <1>2, <3>1, <3>2
  <2> QED BY <1>1, <2>1, <2>3, <2>4 DEF Once, Working
<1>12. InOrder'
  <2>1. ASSUME NEW q \in r.parts, NEW j \in q, NEW i \in Items, i < j, Due(i)
        PROVE  Got(r.try, i)' \/ \E u \in S.parts : i \in u
    <3>1. Got(r.try, i) \/ \E u \in r.parts : i \in u
      BY <2>1 DEF InOrder
    <3>2. Got(r.try, i) => Got(r.try, i)'
      BY <1>2 DEF Got
    <3>3. i \in p => Got(r.try, i)'
      BY <1>2, <2>1, DueIsOwed DEF Got
    <3> QED BY <1>2, <3>1, <3>2, <3>3
  <2>2. ASSUME NEW j \in p, NEW i \in Items, i < j, Due(i) PROVE Got(r.try, i)'
    <3>1. ASSUME NEW u \in S.parts, i \in u PROVE FALSE
      <4>1. Before(p, u) /\ p \in SUBSET Int /\ u \in SUBSET Int /\ (p = u \/ Apart(p, u))
        BY <1>1, <1>2, <1>3, <3>1 DEF IsFirst
      <4> QED BY <2>2, <3>1, <4>1, FirstIsBefore
    <3> QED BY <2>1, <2>2, <3>1
  <2>3. \A i : Due(i)' => Due(i)
    BY <1>1, DueStays
  <2>4. \A t, i : Got(t, i) => Got(t, i)'
    BY <1>2 DEF Got
  <2>5. ASSUME NEW g \in got', NEW j \in g.items, NEW i \in Items, i < j, Due(i) PROVE Got(g.try, i)'
    <3>1. CASE g \in got
      BY <2>4, <2>5, <3>1 DEF InOrder
    <3>2. CASE g = G
      BY <1>2, <2>2, <2>5, <3>2
    <3> QED BY <1>2, <3>1, <3>2
  <2>6. ASSUME NEW s \in flying', NEW q \in s.parts, NEW j \in q, NEW i \in Items, i < j, Due(i)
        PROVE  Got(s.try, i)' \/ \E u \in s.parts : i \in u
    <3>1. CASE s = S
      BY <1>2, <2>1, <2>6, <3>1
    <3>2. CASE s # S
      BY <1>8, <2>4, <2>6, <3>2 DEF InOrder
    <3> QED BY <3>1, <3>2
  <2> QED BY <1>7, <2>3, <2>5, <2>6 DEF InOrder, Got
<1>13. Clean'
  <2> SUFFICES ASSUME ~Excused
               PROVE  /\ \A u \in Live : u = attempts
                      /\ \A s \in flying' : Awaited(s)'
                      /\ \A g \in got' : /\ g.try = attempts
                                         /\ row = "queued" => task[attempts].pc \in {"work", "wait", "sent"}
    BY <1>1, <1>7 DEF Clean
  <2>1. /\ \A u \in Live : u = attempts
        /\ \A s \in flying : Awaited(s)
        /\ \A g \in got : /\ g.try = attempts
                          /\ row = "queued" => task[attempts].pc \in {"work", "wait", "sent"}
    BY DEF Clean
  <2>2. r.try = attempts /\ task[attempts].pc = "wait"
    BY <2>1 DEF Awaited, Live, TypeOK
  <2> QED BY <1>2, <1>8, <2>1, <2>2
<1>14. DeletedIsDelivered'
  BY <1>1, BroughtKept DEF DeletedIsDelivered, Brought
<1> QED BY <1>9, <1>10, <1>11, <1>12, <1>13, <1>14

-----------------------------------------------------------------------------
LEMMA IInvStep == IInv /\ [Next]_vars => IInv'
<1> SUFFICES ASSUME IInv, [Next]_vars PROVE Progress'
  BY TypeStep DEF IInv
<1> QED BY StutterKeeps, ReadKeeps, StartKeeps, FetchKeeps, FetchFailsKeeps, PostKeeps, AnswerKeeps,
          DeleteKeeps, DeleteFailsKeeps, PerformKeeps, LoseKeeps, RefuseKeeps, GiveUpKeeps, CrashKeeps
       DEF Next, TaskStep, Answered

LEMMA IInvCorrect == Spec => []IInv
<1>1. Init => IInv
  BY TypeInit, InitProgress DEF IInv
<1> QED BY <1>1, IInvStep, PTL DEF Spec

(* What is deleted as delivered has come, but for the files that cannot be *)
(* sent (email_attachments.py:95, index.js:329).                           *)
THEOREM DeliveredHasCome == Spec => []DeletedIsDelivered
<1>1. IInv => DeletedIsDelivered
  BY DEF IInv, Progress
<1> QED BY <1>1, IInvCorrect, PTL

LEMMA OnceFromIInv == IInv => RepeatsAreExplained
<1> SUFFICES ASSUME IInv, NEW i \in Items, Cardinality(Copies(i)) > 1, ~Excused
             PROVE  FALSE
  BY DEF RepeatsAreExplained, Excused, Several
<1> USE DEF IInv, Progress
<1>1. \A g, h \in Copies(i) : g = h
  BY DEF Copies, Clean, Once
<1>2. Copies(i) = {} \/ \E g \in Copies(i) : Copies(i) = {g}
  BY <1>1
<1>3. Cardinality(Copies(i)) \in {0, 1}
  BY <1>2, FS_EmptySet, FS_Singleton
<1> QED BY <1>3

(* A part comes twice only when a request was given up without an answer, a*)
(* message was sent and its row not deleted, the row was read under a task,*)
(* or a try of several requests failed half way (base.py:262-318;          *)
(* dc_transport.py:192; tg_transport.py:45; index.js:326).                 *)
THEOREM RepeatsHaveACause == Spec => []RepeatsAreExplained
BY OnceFromIInv, IInvCorrect, PTL

LEMMA OrderFromIInv == IInv => PartsInOrder
<1> SUFFICES ASSUME IInv, NEW i \in Items, NEW j \in Items, i < j, Due(i)
             PROVE  Cardinality(Copies(i)) >= Cardinality(Copies(j))
  BY DEF PartsInOrder
<1> USE DEF IInv, Progress
<1> DEFINE f == [g \in Copies(j) |-> CHOOSE h \in Copies(i) : h.try = g.try]
<1>1. ASSUME NEW g \in Copies(j) PROVE f[g] \in Copies(i) /\ f[g].try = g.try
  <2>1. g \in got /\ j \in g.items
    BY DEF Copies
  <2>2. Got(g.try, i)
    BY <2>1 DEF InOrder
  <2>3. \E h \in Copies(i) : h.try = g.try
    BY <2>2 DEF Got, Copies
  <2> QED BY <2>3
<1>2. f \in [Copies(j) -> Copies(i)]
  BY <1>1
<1>3. ASSUME NEW g \in Copies(j), NEW h \in Copies(j), f[g] = f[h] PROVE g = h
  <2>1. g.try = h.try
    BY <1>1, <1>3
  <2> QED BY <2>1 DEF Copies, Once
<1>4. IsFiniteSet(Copies(i)) /\ IsFiniteSet(Copies(j))
  BY FS_Subset DEF Copies, TypeOK
<1> HIDE DEF f
<1>5. f \in Injection(Copies(j), Copies(i))
  BY <1>2, <1>3 DEF Injection, IsInjective
<1>6. Cardinality(Copies(j)) <= Cardinality(Copies(i))
  BY <1>4, <1>5, FS_Injection
<1>7. Cardinality(Copies(i)) \in Nat /\ Cardinality(Copies(j)) \in Nat
  BY <1>4, FS_CardinalityType
<1> QED BY <1>6, <1>7

(* A later part never overtakes an earlier one, whatever is tried again and*)
(* however late a request is acted on (tg_transport.py:38-49, index.js).   *)
THEOREM NothingOvertakes == Spec => []PartsInOrder
BY OrderFromIInv, IInvCorrect, PTL
=============================================================================
