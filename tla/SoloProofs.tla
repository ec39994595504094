------------------------------ MODULE SoloProofs ------------------------------
(***************************************************************************)
(* Theorems about Solo, for any templates, any number of reader identities *)
(* and any number of restarts.                                             *)
(***************************************************************************)
EXTENDS Solo, SequenceTheorems, WellFoundedInduction, TLAPS

(* supervisor_loop fetches in connect() only, before it has a reader.      *)
SupervisorIsHere ==
    /\ at[supervisor] # "gone" => sup = "session" /\ watched = none
    /\ sup # "session" => watched = none

Typed == TypeOK /\ hand \in [Threads -> Templates \cup {none}] /\ SupervisorIsHere

Alive(t) == at[t] # "gone"

(* Without /restart, one thread at a time looks after the templates: the   *)
(* supervisor until the session has its reader, and then that reader, which*)
(* only a stop leaves behind.                                              *)
OneThread ==
    /\ restart = FALSE
    /\ \A t, u \in Threads : Alive(t) /\ Alive(u) => t = u
    /\ ~stop => \A r \in Readers : Alive(r) => r = watched

(* Template and job are of the same block, but between the two writes of a *)
(* fetch, whose thread has the template in hand.                           *)
PairInHand ==
    /\ \A t \in Threads : at[t] = "job" => hand[t] = last
    /\ job # none /\ (\A t \in Threads : at[t] # "job") => job_id(job) = job_id(last)

AgreeInv == Typed /\ (restarts = 0 => OneThread /\ PairInHand)

-----------------------------------------------------------------------------
(* Typing *)

LEMMA FetchKeepsTypes ==
    ASSUME Typed, NEW t \in Threads, Fetch(t)
    PROVE  Typed'
<1> USE DEF Typed, TypeOK, mineVars
<1>1. UNCHANGED <<node, stop, restart, restarts, sup, watched, mineVars>>
  BY DEF Fetch, Call, StoreTemplate, StoreJob
<1>2. hand' \in [Threads -> Templates \cup {none}]
  BY DEF Fetch, Call, StoreTemplate, StoreJob
<1>3. at' \in [Threads -> {"gone", "look", "call", "template", "job", "sleep", "connected"}]
  BY DEF Fetch, Call, StoreTemplate, StoreJob
<1>4. last' \in Templates \cup {none} /\ job' \in Templates \cup {none}
  BY DEF Fetch, Call, StoreTemplate, StoreJob
<1>5. ASSUME NEW u \in Threads
      PROVE  hand'[u] # none <=> at'[u] \in {"template", "job"}
  <2>1. CASE u # t
    BY <2>1 DEF Fetch, Call, StoreTemplate, StoreJob
  <2>2. CASE u = t
    BY <2>2 DEF Fetch, Call, StoreTemplate, StoreJob
  <2> QED
    BY <2>1, <2>2
<1>6. SupervisorIsHere'
  BY <1>1 DEF Fetch, Call, StoreTemplate, StoreJob, SupervisorIsHere, Threads
<1> QED
  BY <1>1, <1>2, <1>3, <1>4, <1>5, <1>6

LEMMA ReaderKeepsTypes ==
    ASSUME Typed, NEW r \in Readers, ReaderLooks(r) \/ ReaderFails(r) \/ ReaderWakes(r)
    PROVE  Typed'
<1> USE DEF Typed, TypeOK, Threads
<1>1. UNCHANGED <<node, stop, restart, restarts, sup, watched, hand, last, job, search, block>>
  BY DEF ReaderLooks, ReaderFails, ReaderWakes, mineVars
<1>2. at' \in [Threads -> {"gone", "look", "call", "template", "job", "sleep", "connected"}]
  BY DEF ReaderLooks, ReaderFails, ReaderWakes
<1>3. \A u \in Threads : at'[u] \in {"template", "job"} <=> at[u] \in {"template", "job"}
  BY DEF ReaderLooks, ReaderFails, ReaderWakes
<1>4. SupervisorIsHere'
  BY <1>1, SoloAssumption DEF ReaderLooks, ReaderFails, ReaderWakes, SupervisorIsHere
<1> QED
  BY <1>1, <1>2, <1>3, <1>4

LEMMA SupervisorKeepsTypes ==
    ASSUME Typed,
           \/ BeginSession \/ ConnectFails \/ SessionEnds \/ SupervisorEnds
           \/ \E r \in Readers : StartReader(r)
    PROVE  Typed'
<1> USE DEF Typed, TypeOK, Threads
<1>1. UNCHANGED <<node, stop, restarts, hand, last, search, block>>
  BY DEF BeginSession, ConnectFails, SessionEnds, SupervisorEnds, StartReader, mineVars
<1>2. at' \in [Threads -> {"gone", "look", "call", "template", "job", "sleep", "connected"}]
  BY DEF BeginSession, ConnectFails, SessionEnds, SupervisorEnds, StartReader
<1>3. \A u \in Threads : at'[u] \in {"template", "job"} <=> at[u] \in {"template", "job"}
  BY SoloAssumption DEF BeginSession, ConnectFails, SessionEnds, SupervisorEnds, StartReader,
     SupervisorIsHere
<1>4. restart' \in BOOLEAN
  BY DEF BeginSession, ConnectFails, SessionEnds, SupervisorEnds, StartReader
<1>5. /\ sup' \in {"between", "session", "ended"}
      /\ watched' \in Readers \cup {none}
      /\ job' \in Templates \cup {none}
  BY DEF BeginSession, ConnectFails, SessionEnds, SupervisorEnds, StartReader
<1>6. SupervisorIsHere'
  BY SoloAssumption DEF BeginSession, ConnectFails, SessionEnds, SupervisorEnds, StartReader,
     SupervisorIsHere
<1> QED
  BY <1>1, <1>2, <1>3, <1>4, <1>5, <1>6

LEMMA TypedStep == ASSUME Typed, [Next]_vars PROVE Typed'
<1> USE DEF Typed, TypeOK, SupervisorIsHere
<1>1. CASE UNCHANGED vars
  BY <1>1 DEF vars, mineVars
<1>2. ASSUME NEW r \in Readers, ReaderNext(r) PROVE Typed'
  BY <1>2, FetchKeepsTypes, ReaderKeepsTypes DEF ReaderNext, Threads
<1>3. CASE SupervisorNext
  BY <1>3, FetchKeepsTypes, SupervisorKeepsTypes DEF SupervisorNext, Threads
<1>4. CASE MinerNext
  BY <1>4 DEF MinerNext, Search, LeaveSearch, Submit, SubmitReturns
<1>5. CASE NodeChanges \/ Restart \/ Stop
  <2>1. UNCHANGED <<sup, watched, at, hand, last, job, search, block>>
    BY <1>5 DEF NodeChanges, Restart, Stop, mineVars
  <2>2. node' \in Templates \cup {none} /\ stop' \in BOOLEAN /\ restart' \in BOOLEAN
    BY <1>5 DEF NodeChanges, Restart, Stop
  <2>3. restarts' \in 0 .. MaxRestarts
    <3>1. restarts \in 0 .. MaxRestarts
      OBVIOUS
    <3>2. UNCHANGED restarts \/ (restarts < MaxRestarts /\ restarts' = restarts + 1)
      BY <1>5 DEF NodeChanges, Restart, Stop
    <3> HIDE DEF Typed, TypeOK
    <3> QED
      BY <3>1, <3>2, SoloAssumption
  <2> QED
    BY <2>1, <2>2, <2>3
<1> QED
  BY <1>1, <1>2, <1>3, <1>4, <1>5 DEF Next

-----------------------------------------------------------------------------
(* Template and job *)

LEMMA FetchKeepsPair ==
    ASSUME Typed, OneThread, PairInHand, NEW t \in Threads, Fetch(t)
    PROVE  OneThread' /\ PairInHand'
<1> USE SoloAssumption DEF Typed, TypeOK, SupervisorIsHere, Alive, Threads
<1>0. supervisor \notin Readers
  OBVIOUS
<1>1. CASE Call(t)
  BY <1>0, <1>1 DEF Call, OneThread, PairInHand, mineVars
<1>2. CASE StoreTemplate(t)
  <2>1. OneThread'
    BY <1>0, <1>2 DEF StoreTemplate, OneThread, mineVars
  <2>2. \A u \in Threads : at'[u] = "job" => u = t
    BY <1>2 DEF StoreTemplate, OneThread
  <2>3. at'[t] = "job" /\ hand'[t] = last'
    BY <1>2 DEF StoreTemplate
  <2> QED
    BY <2>1, <2>2, <2>3 DEF PairInHand
<1>3. CASE StoreJob(t)
  <2>1. OneThread'
    BY <1>0, <1>3 DEF StoreJob, OneThread, mineVars
  <2>2. \A u \in Threads : at'[u] # "job"
    BY <1>3 DEF StoreJob, OneThread
  <2>3. hand[t] = last /\ last' = last
    BY <1>3 DEF StoreJob, PairInHand
  <2>4. job' # none => job_id(job') = job_id(last)
    BY <1>3, <2>3 DEF StoreJob, TakesJob
  <2> QED
    BY <2>1, <2>2, <2>3, <2>4 DEF PairInHand, job_id
<1> QED
  BY <1>1, <1>2, <1>3 DEF Fetch

LEMMA ReaderKeepsPair ==
    ASSUME Typed, OneThread, PairInHand, NEW r \in Readers,
           ReaderLooks(r) \/ ReaderFails(r) \/ ReaderWakes(r)
    PROVE  OneThread' /\ PairInHand'
<1> USE SoloAssumption DEF Typed, TypeOK, SupervisorIsHere, Alive, Threads, mineVars
<1>1. \A u \in Threads : /\ at'[u] = "job" <=> at[u] = "job"
                         /\ at'[u] # "gone" => at[u] # "gone"
  BY DEF ReaderLooks, ReaderFails, ReaderWakes
<1>2. UNCHANGED <<stop, restart, sup, watched, hand, last, job>>
  BY DEF ReaderLooks, ReaderFails, ReaderWakes
<1>3. OneThread'
  BY <1>1, <1>2 DEF OneThread
<1> QED
  BY <1>1, <1>2, <1>3 DEF PairInHand, job_id

LEMMA SupervisorKeepsPair ==
    ASSUME Typed, OneThread, PairInHand, SupervisorNext, ~Fetch(supervisor)
    PROVE  OneThread' /\ PairInHand'
<1> USE SoloAssumption DEF Typed, TypeOK, SupervisorIsHere, Alive, Threads, mineVars
<1>1. CASE BeginSession
  <2>1. \A t \in Threads : at[t] = "gone"
    BY <1>1 DEF BeginSession, OneThread
  <2> QED
    BY <1>1, <2>1 DEF BeginSession, OneThread, PairInHand
<1>2. CASE ConnectFails
  BY <1>2 DEF ConnectFails, OneThread, PairInHand, job_id
<1>3. ASSUME NEW r \in Readers, StartReader(r) PROVE OneThread' /\ PairInHand'
  <2>1. \A t \in Threads : at'[t] # "gone" => t = r
    BY <1>3 DEF StartReader, OneThread
  <2>2. \A t \in Threads : at[t] # "job" /\ at'[t] # "job"
    BY <1>3 DEF StartReader, OneThread
  <2> QED
    BY <1>3, <2>1, <2>2 DEF StartReader, OneThread, PairInHand, job_id
<1>4. CASE SessionEnds
  BY <1>4 DEF SessionEnds, OneThread, PairInHand, job_id
<1>5. CASE SupervisorEnds
  BY <1>5 DEF SupervisorEnds, OneThread, PairInHand, job_id
<1> QED
  BY <1>1, <1>2, <1>3, <1>4, <1>5 DEF SupervisorNext

LEMMA AgreeStep == ASSUME AgreeInv, [Next]_vars PROVE AgreeInv'
<1>1. Typed /\ Typed'
  BY TypedStep DEF AgreeInv
<1>2. SUFFICES ASSUME restarts' = 0 PROVE OneThread' /\ PairInHand'
  BY <1>1 DEF AgreeInv
<1>3. restarts = 0 /\ ~Restart
  <2>1. restarts \in Nat
    BY <1>1, SoloAssumption DEF Typed, TypeOK, SupervisorIsHere
  <2>2. Restart => restarts' = restarts + 1
    BY DEF Restart
  <2>3. ~Restart => restarts' = restarts
    BY DEF Next, vars, mineVars, ReaderNext, Fetch, Call, StoreTemplate, StoreJob,
       ReaderLooks, ReaderFails, ReaderWakes, SupervisorNext, BeginSession, ConnectFails,
       StartReader, SessionEnds, SupervisorEnds, MinerNext, Search, LeaveSearch, Submit,
       SubmitReturns, NodeChanges, Stop
  <2> QED
    BY <1>2, <2>1, <2>2, <2>3
<1>4. OneThread /\ PairInHand
  BY <1>3 DEF AgreeInv
<1>5. CASE UNCHANGED vars \/ MinerNext \/ NodeChanges \/ Stop
  BY <1>4, <1>5 DEF vars, mineVars, MinerNext, Search, LeaveSearch, Submit, SubmitReturns,
     NodeChanges, Stop, OneThread, PairInHand, Alive, job_id
<1>6. ASSUME NEW r \in Readers, ReaderNext(r) PROVE OneThread' /\ PairInHand'
  BY <1>1, <1>4, <1>6, FetchKeepsPair, ReaderKeepsPair DEF ReaderNext, Threads
<1>7. CASE SupervisorNext
  BY <1>1, <1>4, <1>7, FetchKeepsPair, SupervisorKeepsPair DEF Threads
<1> QED
  BY <1>3, <1>5, <1>6, <1>7 DEF Next

LEMMA AgreeHolds == Spec => []AgreeInv
<1>1. Init => AgreeInv
  <2>1. Init => Typed
    <3>1. SUFFICES ASSUME Init PROVE Typed
      OBVIOUS
    <3>2. restarts \in 0 .. MaxRestarts
      BY <3>1, SoloAssumption DEF Init
    <3>3. at \in [Threads -> {"gone"}] /\ hand \in [Threads -> {none}]
      BY <3>1 DEF Init
    <3>4. stop \in BOOLEAN /\ restart \in BOOLEAN
      BY <3>1 DEF Init
    <3>5. SupervisorIsHere
      BY <3>1, <3>3 DEF Init, SupervisorIsHere, Threads
    <3> QED
      BY <3>1, <3>2, <3>3, <3>4, <3>5 DEF Init, Typed, TypeOK
  <2>2. Init => OneThread /\ PairInHand
    BY DEF Init, OneThread, PairInHand, Alive, Threads
  <2> QED
    BY <2>1, <2>2 DEF AgreeInv
<1> QED
  BY <1>1, AgreeStep, PTL DEF Spec

(* Without /restart, the job of the solo client is of the block that its   *)
(* newest template is of whenever no poll is under way, through any order  *)
(* of polls, failures, sessions and stops (solo.py, _fetch_template).      *)
THEOREM JobAndTemplateStayTogether == Spec => []JobAndTemplateAgree
<1>1. AgreeInv => JobAndTemplateAgree
  BY DEF AgreeInv, PairInHand, JobAndTemplateAgree, Idle
<1> QED
  BY <1>1, AgreeHolds, PTL

(* Every fetch ends with nothing in hand, and a submission lies within its *)
(* search: mine() calls submit() itself.                                   *)
THEOREM SoloTypes == Spec => []TypeOK
<1>1. AgreeInv => TypeOK
  BY DEF AgreeInv, Typed
<1> QED
  BY <1>1, AgreeHolds, PTL

-----------------------------------------------------------------------------
(* Byte orders *)

(* Reversing the groups of four twice restores them.                       *)
LEMMA SwapIsInvolution ==
    ASSUME NEW S, NEW s \in Seq(S), Len(s) % 4 = 0
    PROVE  swap_words(swap_words(s)) = s
<1> DEFINE partner(i) == 4 * ((i - 1) \div 4) + 4 - ((i - 1) % 4)
<1>1. ASSUME NEW i \in 1 .. Len(s) PROVE partner(i) \in 1 .. Len(s) /\ partner(partner(i)) = i
  <2>1. PICK q \in Nat : Len(s) = 4 * q
    <3>1. Len(s) \in Nat
      OBVIOUS
    <3>2. Len(s) \div 4 \in Nat /\ Len(s) = 4 * (Len(s) \div 4)
      BY <3>1
    <3> QED
      BY <3>2
  <2>2. PICK g \in Nat, k \in 0 .. 3 : i = 4 * g + k + 1
    <3>1. (i - 1) \div 4 \in Nat /\ (i - 1) % 4 \in 0 .. 3
      BY <1>1
    <3>2. i = 4 * ((i - 1) \div 4) + ((i - 1) % 4) + 1
      BY <1>1
    <3> QED
      BY <3>1, <3>2
  <2>3. (i - 1) \div 4 = g /\ (i - 1) % 4 = k
    BY <2>2
  <2>4. partner(i) = 4 * g + (3 - k) + 1
    BY <2>2, <2>3
  <2>5. (partner(i) - 1) \div 4 = g /\ (partner(i) - 1) % 4 = 3 - k
    BY <2>2, <2>4
  <2>6. partner(partner(i)) = 4 * g + 4 - (3 - k)
    BY <2>5
  <2>7. partner(i) \in 1 .. Len(s)
    BY <1>1, <2>1, <2>2, <2>4
  <2> QED
    BY <2>2, <2>6, <2>7
<1>2. DOMAIN s = 1 .. Len(s)
  OBVIOUS
<1>3. swap_words(s) = [i \in 1 .. Len(s) |-> s[partner(i)]]
  BY <1>2 DEF swap_words
<1>4. swap_words(swap_words(s)) = [i \in 1 .. Len(s) |-> s[partner(partner(i))]]
  <2>1. DOMAIN swap_words(s) = 1 .. Len(s)
    BY <1>3
  <2>2. swap_words(swap_words(s)) = [i \in 1 .. Len(s) |-> swap_words(s)[partner(i)]]
    BY <2>1 DEF swap_words
  <2>3. \A i \in 1 .. Len(s) : swap_words(s)[partner(i)] = s[partner(partner(i))]
    BY <1>1, <1>3
  <2> QED
    BY <2>2, <2>3
<1>5. \A i \in 1 .. Len(s) : s[partner(partner(i))] = s[i]
  BY <1>1
<1>6. s = [i \in 1 .. Len(s) |-> s[i]]
  BY <1>2
<1> QED
  BY <1>4, <1>5, <1>6

LEMMA ReverseIsSeq ==
    ASSUME NEW S, NEW s \in Seq(S)
    PROVE  Reverse(s) \in Seq(S) /\ Len(Reverse(s)) = Len(s)
<1>1. Reverse(s) = [i \in 1 .. Len(s) |-> s[(Len(s) - i) + 1]]
  BY DEF Reverse
<1>2. \A i \in 1 .. Len(s) : s[(Len(s) - i) + 1] \in S
  OBVIOUS
<1> QED
  BY <1>1, <1>2

LEMMA PackedBytes ==
    ASSUME NEW n, FitsWord(n)
    PROVE  /\ pack_be(n) \in Seq(Byte) /\ Len(pack_be(n)) = 4
           /\ Reverse(pack_be(n)) = pack_le(n)
<1>1. n \in Nat
  BY DEF FitsWord
<1>2. /\ n % 256 \in Byte /\ (n \div 256) % 256 \in Byte
      /\ (n \div 65536) % 256 \in Byte /\ (n \div 16777216) % 256 \in Byte
  BY <1>1 DEF Byte
<1>3. ASSUME NEW a \in Byte, NEW b \in Byte, NEW c \in Byte, NEW d \in Byte
      PROVE  <<a, b, c, d>> \in Seq(Byte) /\ Reverse(<<a, b, c, d>>) = <<d, c, b, a>>
  <2>1. <<a, b, c, d>> \in Seq(Byte) /\ Len(<<a, b, c, d>>) = 4
    OBVIOUS
  <2>2. Reverse(<<a, b, c, d>>) = [i \in 1 .. 4 |-> <<a, b, c, d>>[(4 - i) + 1]]
    BY <2>1 DEF Reverse
  <2> QED
    BY <2>1, <2>2
<1> QED
  BY <1>2, <1>3 DEF pack_be, pack_le

-----------------------------------------------------------------------------
(* The coinbase transaction *)

(* What it has before and after extranonce2, which is as long as marker.   *)
Push(t)   == Append(Tmpl[t].height, Len(marker))
Before(t) == Append(CoinbaseStart, Len(Tmpl[t].height) + 1 + Len(marker)) \o Push(t)
After(t)  == <<255, 255, 255, 255>> \o Tmpl[t].outputs

(* The bytes that cannot begin a marker.                                   *)
NoStart == Byte \ {222}

IsConcat(u, s, t) == u = s \o t

LEMMA ConcatSeq ==
    ASSUME NEW S, NEW s \in Seq(S), NEW t \in Seq(S), NEW u, IsConcat(u, s, t)
    PROVE  u \in Seq(S) /\ Len(u) = Len(s) + Len(t)
BY ConcatProperties DEF IsConcat

LEMMA ConcatLeft ==
    ASSUME NEW S, NEW s \in Seq(S), NEW t \in Seq(S), NEW u, IsConcat(u, s, t),
           NEW i \in 1 .. Len(s)
    PROVE  u[i] = s[i]
<1>1. Len(s) \in Nat /\ Len(t) \in Nat
  BY LenProperties
<1>2. \A k \in 1 .. Len(s) + Len(t) : u[k] = IF k <= Len(s) THEN s[k] ELSE t[k - Len(s)]
  BY ConcatProperties DEF IsConcat
<1> QED
  BY <1>1, <1>2

LEMMA ConcatRight ==
    ASSUME NEW S, NEW s \in Seq(S), NEW t \in Seq(S), NEW u, IsConcat(u, s, t),
           NEW i \in 1 .. Len(t)
    PROVE  u[Len(s) + i] = t[i]
<1>1. Len(s) \in Nat /\ Len(t) \in Nat
  BY LenProperties
<1>2. \A k \in 1 .. Len(s) + Len(t) : u[k] = IF k <= Len(s) THEN s[k] ELSE t[k - Len(s)]
  BY ConcatProperties DEF IsConcat
<1>3. /\ Len(s) + i \in 1 .. Len(s) + Len(t)
      /\ ~ (Len(s) + i <= Len(s)) /\ (Len(s) + i) - Len(s) = i
  BY <1>1
<1> QED
  BY <1>2, <1>3

LEMMA MarkerBytes ==
    /\ marker \in Seq(Byte) /\ Len(marker) = 4
    /\ marker[1] = 222 /\ marker[2] = 173 /\ marker[3] = 190 /\ marker[4] = 239
BY DEF marker, Byte

LEMMA StartBytes == CoinbaseStart \in Seq(NoStart)
<1>1. PICK a : a = <<1, 0, 0, 0, 1>>
  OBVIOUS
<1>2. PICK z : z = [i \in 1 .. 32 |-> 0]
  OBVIOUS
<1>3. PICK f : f = <<255, 255, 255, 255>>
  OBVIOUS
<1>4. PICK b : b = a \o z
  OBVIOUS
<1>5. 0 \in NoStart /\ 1 \in NoStart /\ 255 \in NoStart
  BY DEF NoStart, Byte
<1>6. a \in Seq(NoStart) /\ f \in Seq(NoStart) /\ z \in Seq(NoStart)
  BY <1>1, <1>2, <1>3, <1>5
<1>7. IsConcat(b, a, z) /\ IsConcat(CoinbaseStart, b, f)
  BY <1>1, <1>2, <1>3, <1>4 DEF IsConcat, CoinbaseStart
<1>8. b \in Seq(NoStart)
  BY <1>6, <1>7, ConcatSeq
<1> QED
  BY <1>6, <1>7, <1>8, ConcatSeq

(* The script has as many bytes as the push of the height, the length of   *)
(* extranonce2, and extranonce2.                                           *)
LEMMA CoinbaseParts ==
    ASSUME NEW t \in Templates, NEW e \in Seq(Byte), Len(e) = Len(marker)
    PROVE  /\ Before(t) \in Seq(Byte) /\ After(t) \in Seq(Byte) /\ Push(t) \in Seq(Byte)
           /\ Append(CoinbaseStart, Len(Tmpl[t].height) + 1 + Len(marker)) \in Seq(NoStart)
           /\ _build_coinbase_for_template(t, e) = Before(t) \o (e \o After(t))
<1>1. PICK m : m = Len(marker)
  OBVIOUS
<1>2. PICK h : h = Tmpl[t].height
  OBVIOUS
<1>3. PICK q : q = <<255, 255, 255, 255>>
  OBVIOUS
<1>4. PICK o : o = Tmpl[t].outputs
  OBVIOUS
<1>5. PICK c : c = CoinbaseStart
  OBVIOUS
<1>6. PICK n : n = Len(h) + 1 + m
  OBVIOUS
<1>7. PICK a : a = Append(c, n)
  OBVIOUS
<1>8. PICK b : b = Append(h, m)
  OBVIOUS
<1>9. PICK r : r = q \o o
  OBVIOUS
<1>10. PICK p : p = a \o b
  OBVIOUS
<1>11. h \in Seq(Byte) /\ o \in Seq(Byte)
  BY <1>2, <1>4, TemplatesAreWellFormed
<1>12. m \in Byte /\ n \in NoStart
  <2>1. Len(h) \in 1 .. 4
    BY <1>2, TemplatesAreWellFormed
  <2>2. m = 4
    BY <1>1, MarkerBytes
  <2>3. PICK k : k = Len(h)
    OBVIOUS
  <2>4. k \in 1 .. 4 /\ n = k + 1 + 4
    BY <1>6, <2>1, <2>2, <2>3
  <2>5. n \in NoStart
    BY <2>4 DEF Byte, NoStart
  <2>6. m \in Byte
    BY <2>2 DEF Byte
  <2> QED
    BY <2>5, <2>6
<1>13. q \in Seq(Byte)
  BY <1>3 DEF Byte
<1>14. c \in Seq(NoStart) /\ c \in Seq(Byte) /\ n \in Byte
  <2>1. NoStart \subseteq Byte
    BY DEF NoStart
  <2>2. c \in Seq(NoStart)
    BY <1>5, StartBytes
  <2> QED
    BY <1>12, <2>1, <2>2
<1>15. a \in Seq(NoStart) /\ a \in Seq(Byte) /\ a = c \o <<n>>
  BY <1>7, <1>12, <1>14, AppendProperties, AppendIsConcat
<1>16. b \in Seq(Byte) /\ b = h \o <<m>> /\ Len(b) = Len(h) + 1
  BY <1>8, <1>11, <1>12, AppendProperties, AppendIsConcat
<1>17. r \in Seq(Byte) /\ p \in Seq(Byte)
  BY <1>9, <1>10, <1>11, <1>13, <1>15, <1>16, ConcatProperties
<1>18. Before(t) = p /\ After(t) = r /\ Push(t) = b
  BY <1>1, <1>2, <1>3, <1>4, <1>5, <1>6, <1>7, <1>8, <1>9, <1>10 DEF Before, After, Push
<1>19. _build_coinbase_for_template(t, e) = p \o (e \o r)
  <2>1. PICK be : be = b \o e
    OBVIOUS
  <2>2. IsConcat(be, b, e)
    BY <2>1 DEF IsConcat
  <2>3. be \in Seq(Byte) /\ Len(be) = Len(b) + m
    <3>1. Len(be) = Len(b) + Len(e) /\ be \in Seq(Byte)
      BY <1>16, <2>2, ConcatSeq
    <3> QED
      BY <1>1, <3>1
  <2>4. Len(be) = n
    BY <1>6, <1>16, <2>3
  <2>5. _build_coinbase_for_template(t, e)
          = ((c \o <<Len((h \o <<m>>) \o e)>>) \o ((h \o <<m>>) \o e)) \o q \o o
    BY <1>1, <1>2, <1>3, <1>4, <1>5, Zenon DEF _build_coinbase_for_template
  <2>6. (h \o <<m>>) \o e = be
    BY <1>16, <2>1
  <2>7. _build_coinbase_for_template(t, e) = ((a \o be) \o q) \o o
    BY <1>15, <2>4, <2>5, <2>6, Zenon
  <2>8. a \o be = p \o e
    <3>1. (a \o b) \o e = a \o (b \o e)
      BY <1>15, <1>16, ConcatAssociative
    <3> QED
      BY <1>10, <2>1, <3>1
  <2>9. PICK pe : pe = p \o e
    OBVIOUS
  <2>10. pe \in Seq(Byte)
    <3>1. IsConcat(pe, p, e)
      BY <2>9 DEF IsConcat
    <3> QED
      BY <1>17, <3>1, ConcatSeq
  <2>11. (pe \o q) \o o = pe \o (q \o o)
    BY <1>11, <1>13, <2>10, ConcatAssociative
  <2>12. (p \o e) \o r = p \o (e \o r)
    BY <1>17, ConcatAssociative
  <2> QED
    BY <1>9, <2>7, <2>8, <2>9, <2>11, <2>12
<1> QED
  BY <1>1, <1>2, <1>5, <1>6, <1>7, <1>15, <1>16, <1>17, <1>18, <1>19

(* The marker is always found, and in its place: nothing before it in the  *)
(* coinbase looks like it.  So the RuntimeError of _template_to_job is     *)
(* never raised, and what follows, outputs that contain the same bytes     *)
(* too, does no harm (solo.py:493-499).                                    *)
THEOREM MarkerIsFound ==
    ASSUME NEW t \in Templates
    PROVE  find(_build_coinbase_for_template(t, marker), marker) = Len(Before(t)) + 1
<1>1. PICK p : p = Append(CoinbaseStart, Len(Tmpl[t].height) + 1 + Len(marker))
  OBVIOUS
<1>2. PICK h : h = Push(t)
  OBVIOUS
<1>3. PICK b : b = Before(t)
  OBVIOUS
<1>4. PICK r : r = marker \o After(t)
  OBVIOUS
<1>5. PICK c : c = _build_coinbase_for_template(t, marker)
  OBVIOUS
<1>6. PICK mk : mk = marker
  OBVIOUS
<1>7. PICK lp, lh, l, k : lp = Len(p) /\ lh = Len(h) /\ l = Len(b) /\ k = Len(mk)
  OBVIOUS
<1>8. /\ p \in Seq(NoStart) /\ p \in Seq(Byte) /\ h \in Seq(Byte) /\ b \in Seq(Byte)
      /\ mk \in Seq(Byte) /\ After(t) \in Seq(Byte)
  <2>1. NoStart \subseteq Byte
    BY DEF NoStart
  <2>2. p \in Seq(NoStart)
    BY <1>1, MarkerBytes, CoinbaseParts
  <2> QED
    BY <1>1, <1>2, <1>3, <1>6, <2>1, <2>2, MarkerBytes, CoinbaseParts
<1>9. IsConcat(b, p, h) /\ IsConcat(r, mk, After(t)) /\ IsConcat(c, b, r)
  <2>1. c = Before(t) \o (marker \o After(t))
    BY <1>5, MarkerBytes, CoinbaseParts
  <2>2. b = p \o h
    BY <1>1, <1>2, <1>3 DEF Before
  <2> QED
    BY <1>3, <1>4, <1>6, <2>1, <2>2 DEF IsConcat
<1>10. k = 4 /\ mk[1] = 222 /\ mk[2] = 173 /\ mk[3] = 190 /\ mk[4] = 239
  BY <1>6, <1>7, MarkerBytes
<1>11. lh \in 2 .. 5 /\ h[1] <= 3 /\ h[lh] = k
  <2>1. PICK g : g = Tmpl[t].height
    OBVIOUS
  <2>2. g \in Seq(Byte) /\ Len(g) \in 1 .. 4 /\ g[1] = Len(g) - 1
    BY <2>1, TemplatesAreWellFormed
  <2>3. h = Append(g, k) /\ k \in Byte
    BY <1>2, <1>6, <1>7, <1>10, <2>1 DEF Push, Byte
  <2>4. /\ Len(h) = Len(g) + 1 /\ h[Len(g) + 1] = k
        /\ \A i \in 1 .. Len(g) : h[i] = g[i]
    BY <2>2, <2>3, AppendProperties
  <2> QED
    BY <1>7, <2>2, <2>4
<1>12. r \in Seq(Byte) /\ Len(r) = k + Len(After(t)) /\ Len(After(t)) \in Nat
  BY <1>7, <1>8, <1>9, ConcatSeq, LenProperties
<1>13. lp \in Nat /\ l = lp + lh /\ Len(c) = l + (k + Len(After(t)))
  <2>1. Len(b) = Len(p) + Len(h)
    BY <1>8, <1>9, ConcatSeq
  <2>2. Len(c) = Len(b) + Len(r)
    BY <1>8, <1>9, <1>12, ConcatSeq
  <2>3. Len(p) \in Nat
    BY <1>8, LenProperties
  <2> QED
    BY <1>7, <1>12, <2>1, <2>2, <2>3
<1>14. ASSUME NEW i \in 1 .. l PROVE c[i] = b[i]
  <2>1. i \in 1 .. Len(b)
    BY <1>7
  <2> QED
    BY <1>8, <1>9, <1>12, <2>1, ConcatLeft
<1>15. ASSUME NEW i \in 1 .. lp PROVE c[i] # 222
  <2>1. i \in 1 .. Len(p) /\ i \in 1 .. l
    BY <1>7, <1>11, <1>13
  <2>2. b[i] = p[i]
    BY <1>8, <1>9, <2>1, ConcatLeft
  <2>3. p[i] \in NoStart
    BY <1>8, <2>1, ElementOfSeq
  <2>4. c[i] = p[i]
    BY <1>14, <2>1, <2>2
  <2> QED
    BY <2>3, <2>4 DEF NoStart
<1>16. ASSUME NEW i \in 1 .. lh PROVE c[lp + i] = h[i]
  <2>1. i \in 1 .. Len(h) /\ lp + i \in 1 .. l
    BY <1>7, <1>11, <1>13
  <2>2. b[Len(p) + i] = h[i]
    BY <1>8, <1>9, <2>1, ConcatRight
  <2> QED
    BY <1>7, <1>14, <2>1, <2>2
<1>17. ASSUME NEW i \in 1 .. k PROVE c[l + i] = mk[i]
  <2>1. i \in 1 .. Len(mk) /\ i \in 1 .. Len(r)
    BY <1>7, <1>10, <1>12
  <2>2. r[i] = mk[i]
    BY <1>8, <1>9, <2>1, ConcatLeft
  <2>3. c[Len(b) + i] = r[i]
    BY <1>8, <1>9, <1>12, <2>1, ConcatRight
  <2> QED
    BY <1>7, <2>2, <2>3
<1>18. PICK len : len = Len(c)
  OBVIOUS
<1>19. PICK places : places = {i \in 1 .. len - k + 1 : \A j \in 1 .. k : c[i + j - 1] = mk[j]}
  OBVIOUS
<1>20. find(c, mk)
         = IF places = {} THEN 0 ELSE CHOOSE i \in places : \A j \in places : i <= j
  BY <1>7, <1>18, <1>19 DEF find
<1>21. len \in Nat /\ len - k >= l /\ l \in Nat
  BY <1>10, <1>11, <1>12, <1>13, <1>18
<1>22. l + 1 \in places
  <2>1. l + 1 \in 1 .. len - k + 1
    BY <1>10, <1>21
  <2>2. \A j \in 1 .. k : (l + 1) + j - 1 = l + j
    BY <1>10, <1>21
  <2>3. \A j \in 1 .. k : c[(l + 1) + j - 1] = mk[j]
    BY <1>17, <2>2
  <2> QED
    BY <1>19, <2>1, <2>3
<1>23. ASSUME NEW i \in 1 .. l PROVE i \notin places
  <2> SUFFICES ASSUME \A j \in 1 .. k : c[i + j - 1] = mk[j] PROVE FALSE
    BY <1>19
  <2>1. c[i] = 222 /\ c[i + 1] = 173 /\ c[i + 2] = 190 /\ c[i + 3] = 239
    <3>1. 1 \in 1 .. k /\ 2 \in 1 .. k /\ 3 \in 1 .. k /\ 4 \in 1 .. k
      BY <1>10
    <3>2. i + 1 - 1 = i /\ i + 2 - 1 = i + 1 /\ i + 3 - 1 = i + 2 /\ i + 4 - 1 = i + 3
      BY <1>21
    <3> QED
      BY <1>10, <3>1, <3>2
  <2>2. CASE i <= lp
    BY <1>13, <1>15, <2>1, <2>2
  <2>3. CASE i = lp + 1
    BY <1>11, <1>16, <2>1, <2>3
  <2>4. CASE i > lp + 1
    <3>1. c[l] = 4
      BY <1>10, <1>11, <1>13, <1>16
    <3>2. l \in {i, i + 1, i + 2, i + 3}
      BY <1>11, <1>13, <2>4
    <3> QED
      BY <2>1, <3>1, <3>2
  <2> QED
    BY <1>13, <1>21, <2>2, <2>3, <2>4
<1>24. \A j \in places : l + 1 <= j
  BY <1>19, <1>21, <1>23
<1>25. \A i \in places : (\A j \in places : i <= j) => i = l + 1
  BY <1>19, <1>21, <1>22, <1>24
<1>26. (CHOOSE i \in places : \A j \in places : i <= j) = l + 1
  BY <1>22, <1>24, <1>25
<1> QED
  BY <1>3, <1>5, <1>6, <1>7, <1>20, <1>22, <1>26

LEMMA CutOut ==
    ASSUME NEW S, NEW a \in Seq(S), NEW m \in Seq(S), NEW c \in Seq(S),
           NEW r, IsConcat(r, m, c), NEW s, IsConcat(s, a, r)
    PROVE  /\ SubSeq(s, 1, Len(a)) = a
           /\ SubSeq(s, Len(a) + 1 + Len(m), Len(s)) = c
<1>1. PICK la, lm, lc, ls : la = Len(a) /\ lm = Len(m) /\ lc = Len(c) /\ ls = Len(s)
  OBVIOUS
<1>2. la \in Nat /\ lm \in Nat /\ lc \in Nat
  BY <1>1, LenProperties
<1>3. r \in Seq(S) /\ Len(r) = lm + lc
  BY <1>1, ConcatSeq
<1>4. s \in Seq(S) /\ ls = la + (lm + lc)
  <2>1. s \in Seq(S) /\ Len(s) = Len(a) + Len(r)
    BY <1>3, ConcatSeq
  <2> QED
    BY <1>1, <1>3, <2>1
<1>5. ASSUME NEW i \in 1 .. ls PROVE s[i] \in S
  BY <1>1, <1>4, ElementOfSeq
<1>6. ASSUME NEW i \in 1 .. la PROVE s[i] = a[i]
  BY <1>1, <1>3, ConcatLeft
<1>7. ASSUME NEW i \in 1 .. lc PROVE s[la + (lm + i)] = c[i]
  <2>1. i \in 1 .. Len(c) /\ lm + i \in 1 .. Len(r)
    BY <1>1, <1>2, <1>3
  <2>2. r[Len(m) + i] = c[i]
    BY <2>1, ConcatRight
  <2>3. s[Len(a) + (lm + i)] = r[lm + i]
    BY <1>3, <2>1, ConcatRight
  <2> QED
    BY <1>1, <2>2, <2>3
<1>8. SubSeq(s, 1, la) = a
  <2>1. PICK x : x = SubSeq(s, 1, la)
    OBVIOUS
  <2>2. la \in Int /\ 1 \in Int /\ \A i \in 1 .. la : s[i] \in S
    BY <1>2, <1>4, <1>5
  <2>3. /\ x \in Seq(S) /\ Len(x) = IF 1 <= la THEN la - 1 + 1 ELSE 0
        /\ \A i \in 1 .. la - 1 + 1 : x[i] = s[1 + i - 1]
    BY <2>1, <2>2, SubSeqProperties
  <2>4. Len(x) = la
    BY <1>2, <2>3
  <2>5. \A i \in 1 .. la : i \in 1 .. la - 1 + 1 /\ 1 + i - 1 = i
    BY <1>2
  <2>6. \A i \in 1 .. la : x[i] = a[i]
    BY <1>6, <2>3, <2>5
  <2>7. x = a
    BY <1>1, <2>3, <2>4, <2>6, SeqEqual
  <2> QED
    BY <2>1, <2>7
<1>9. SubSeq(s, la + 1 + lm, ls) = c
  <2>1. PICK l : l = la + 1 + lm
    OBVIOUS
  <2>2. PICK x : x = SubSeq(s, l, ls)
    OBVIOUS
  <2>3. l \in Int /\ ls \in Int /\ ls - l + 1 = lc /\ l >= 1
    BY <1>2, <1>4, <2>1
  <2>4. \A i \in l .. ls : s[i] \in S
    BY <1>5, <2>3
  <2>5. /\ x \in Seq(S) /\ Len(x) = IF l <= ls THEN ls - l + 1 ELSE 0
        /\ \A i \in 1 .. ls - l + 1 : x[i] = s[l + i - 1]
    BY <2>2, <2>3, <2>4, SubSeqProperties
  <2>6. Len(x) = lc
    BY <1>2, <2>3, <2>5
  <2>7. \A i \in 1 .. lc : l + i - 1 = la + (lm + i)
    BY <1>2, <2>1
  <2>8. \A i \in 1 .. lc : x[i] = c[i]
    BY <1>7, <2>3, <2>5, <2>7
  <2>9. x = c
    BY <1>1, <2>5, <2>6, <2>8, SeqEqual
  <2> QED
    BY <2>1, <2>2, <2>9
<1> QED
  BY <1>1, <1>8, <1>9

(* What mine() puts together from a job is the coinbase that submit()      *)
(* builds for the extranonce2 of the find.                                 *)
LEMMA CoinbaseIsRebuilt ==
    ASSUME NEW t \in Templates, NEW e \in Seq(Byte), Len(e) = Len(marker)
    PROVE  _template_to_job(t).coinb1 \o Extranonce1 \o e \o _template_to_job(t).coinb2
              = _build_coinbase_for_template(t, e)
<1>1. PICK c, b, f, r : /\ c = _build_coinbase_for_template(t, marker)
                        /\ b = Before(t) /\ f = After(t) /\ r = marker \o f
  OBVIOUS
<1>2. /\ b \in Seq(Byte) /\ f \in Seq(Byte) /\ marker \in Seq(Byte)
      /\ _build_coinbase_for_template(t, e) = b \o (e \o f)
  BY <1>1, CoinbaseParts, MarkerBytes
<1>3. IsConcat(r, marker, f) /\ IsConcat(c, b, r)
  BY <1>1, CoinbaseParts, MarkerBytes DEF IsConcat
<1>4. SubSeq(c, 1, Len(b)) = b /\ SubSeq(c, Len(b) + 1 + Len(marker), Len(c)) = f
  BY <1>2, <1>3, CutOut
<1>5. PICK i : i = find(c, marker)
  OBVIOUS
<1>6. i = Len(b) + 1 /\ i - 1 = Len(b)
  <2>1. Len(b) \in Nat
    BY <1>2, LenProperties
  <2>2. i = Len(b) + 1
    BY <1>1, <1>5, MarkerIsFound
  <2> QED
    BY <2>1, <2>2
<1>7. /\ _template_to_job(t).coinb1 = SubSeq(c, 1, i - 1)
      /\ _template_to_job(t).coinb2 = SubSeq(c, i + Len(marker), Len(c))
  BY <1>1, <1>5 DEF _template_to_job
<1>8. _template_to_job(t).coinb1 = b /\ _template_to_job(t).coinb2 = f
  BY <1>4, <1>6, <1>7
<1>9. b \o Extranonce1 = b
  BY <1>2, ConcatEmptySeq DEF Extranonce1
<1>10. (b \o e) \o f = b \o (e \o f)
  BY <1>2, ConcatAssociative
<1> QED
  BY <1>2, <1>8, <1>9, <1>10

(* The block that submit() builds has the header that was searched, field  *)
(* for field, for every extranonce2 and nonce, if the template differs     *)
(* from that of the job in its time only.  The two headers are made        *)
(* independently: one from the job, whose coinbase is cut at a marker and  *)
(* put together again, whose prevhash is reversed and swapped and swapped  *)
(* once more, whose numbers are packed big-endian and reversed; one from   *)
(* the template and the find (solo.py, _template_to_job, submit,           *)
(* _assemble_header; miner.py, _build_header_base).                        *)
THEOREM HeadersAgree == Spec => []BlockIsAsSearched
<1>1. ASSUME NEW t \in Templates, NEW j \in Templates, SameButTime(t, j),
             NEW n \in Extranonces, NEW nonce \in Nonces
      PROVE  SubmittedHeader(t, j, n, nonce) = SearchedHeader(j, n, nonce)
  <2>1. PICK p : p = Tmpl[j].prev
    OBVIOUS
  <2>2. /\ p \in Seq(Byte) /\ Len(p) % 4 = 0
        /\ FitsWord(Tmpl[j].version) /\ FitsWord(Tmpl[j].curtime)
    BY <2>1, TemplatesAreWellFormed
  <2>3. swap_words(PrevOfJob(p)) = Reverse(p)
    <3> DEFINE r == Reverse(p)
    <3>1. r \in Seq(Byte) /\ Len(r) = Len(p)
      BY <2>2, ReverseIsSeq
    <3>2. Len(r) % 4 = 0
      BY <2>2, <3>1
    <3> HIDE DEF r
    <3>3. swap_words(swap_words(r)) = r
      BY <3>1, <3>2, SwapIsInvolution
    <3> QED
      BY <3>3 DEF PrevOfJob, r
  <2>4. /\ Tmpl[t].version = Tmpl[j].version /\ Tmpl[t].bits = Tmpl[j].bits
        /\ Tmpl[t].prev = p /\ Tmpl[t].txs = Tmpl[j].txs
        /\ Tmpl[t].height = Tmpl[j].height /\ Tmpl[t].outputs = Tmpl[j].outputs
    <3> DEFINE T == [Tmpl[t] EXCEPT !.curtime = Tmpl[j].curtime]
    <3>1. /\ T.version = Tmpl[t].version /\ T.bits = Tmpl[t].bits /\ T.prev = Tmpl[t].prev
          /\ T.txs = Tmpl[t].txs /\ T.height = Tmpl[t].height
          /\ T.outputs = Tmpl[t].outputs
      BY DEF SameButTime
    <3>2. T = Tmpl[j]
      BY <1>1 DEF SameButTime
    <3> HIDE DEF T
    <3> QED
      BY <2>1, <3>1, <3>2
  <2>5. PICK e : e = pack_be(n)
    OBVIOUS
  <2>6. e \in Seq(Byte) /\ Len(e) = Len(marker)
    BY <2>5, PackedBytes, MarkerBytes, SoloAssumption
  <2>7. Reverse(pack_be(nonce)) = pack_le(nonce)
    BY PackedBytes, SoloAssumption
  <2>8. Reverse(pack_be(Tmpl[j].version)) = pack_le(Tmpl[j].version)
    BY <2>2, PackedBytes
  <2>9. RootOfBlock(t, n) = build_merkle_root(_build_coinbase_for_template(j, e),
                                              merkle_branch(Tmpl[j].txs))
    BY <2>4, <2>5 DEF RootOfBlock, _build_coinbase_for_template
  <2>10. SubmittedHeader(t, j, n, nonce) =
           <<pack_le(Tmpl[j].version), Reverse(p), RootOfBlock(t, n),
             Reverse(pack_be(Tmpl[j].curtime)), Reverse(Tmpl[j].bits), pack_le(nonce)>>
    BY <2>4, <2>7 DEF SubmittedHeader, _assemble_header
  <2>11. PICK job0 : job0 = _template_to_job(j)
    OBVIOUS
  <2>12. /\ job0.version = pack_be(Tmpl[j].version) /\ job0.prevhash = PrevOfJob(p)
         /\ job0.merkle_branch = merkle_branch(Tmpl[j].txs)
         /\ job0.ntime = pack_be(Tmpl[j].curtime) /\ job0.nbits = Tmpl[j].bits
    BY <2>1, <2>11 DEF _template_to_job
  <2>13. job0.coinb1 \o Extranonce1 \o e \o job0.coinb2 = _build_coinbase_for_template(j, e)
    BY <2>6, <2>11, CoinbaseIsRebuilt
  <2>14. _build_header_base(job0, e) =
           <<pack_le(Tmpl[j].version), Reverse(p), RootOfBlock(t, n),
             Reverse(pack_be(Tmpl[j].curtime)), Reverse(Tmpl[j].bits)>>
    BY <2>3, <2>8, <2>9, <2>12, <2>13 DEF _build_header_base
  <2>15. ASSUME NEW a, NEW b, NEW c, NEW d, NEW f, NEW g
         PROVE  Append(<<a, b, c, d, f>>, g) = <<a, b, c, d, f, g>>
    <3>1. PICK x : x = <<a, b, c, d, f>>
      OBVIOUS
    <3>2. Append(x, g) = [i \in 1 .. 6 |-> IF i <= 5 THEN x[i] ELSE g]
      BY <3>1
    <3>3. PICK y : y = <<a, b, c, d, f, g>>
      OBVIOUS
    <3>4. y = [i \in 1 .. 6 |-> y[i]]
      BY <3>3
    <3>5. /\ y[1] = x[1] /\ y[2] = x[2] /\ y[3] = x[3] /\ y[4] = x[4] /\ y[5] = x[5]
          /\ y[6] = g
      BY <3>1, <3>3
    <3>6. \A i \in 1 .. 6 : y[i] = IF i <= 5 THEN x[i] ELSE g
      BY <3>5
    <3>7. y = Append(x, g)
      BY <3>2, <3>4, <3>6
    <3> QED
      BY <3>1, <3>3, <3>7
  <2> QED
    BY <2>5, <2>10, <2>11, <2>14, <2>15 DEF SearchedHeader
<1>2. AgreeInv => BlockIsAsSearched
  BY <1>1 DEF AgreeInv, Typed, TypeOK, SupervisorIsHere, BlockIsAsSearched
<1> QED
  BY <1>2, AgreeHolds, PTL

-----------------------------------------------------------------------------
(* Merkle trees *)

Rest(s) == SubSeq(s, 2, Len(s))

LEMMA PairUpType ==
    ASSUME NEW S, NEW s \in Seq(S)
    PROVE  /\ PairUp(s) \in Seq(S \X S)
           /\ Len(PairUp(s)) = (Len(s) + 1) \div 2
           /\ \A i \in 1 .. (Len(s) + 1) \div 2 :
                 PairUp(s)[i] = <<s[2 * i - 1], s[IF 2 * i <= Len(s) THEN 2 * i ELSE 2 * i - 1]>>
<1> DEFINE n == (Len(s) + 1) \div 2
           second(i) == IF 2 * i <= Len(s) THEN 2 * i ELSE 2 * i - 1
<1>1. n \in Nat /\ \A i \in 1 .. n : 2 * i - 1 \in 1 .. Len(s) /\ second(i) \in 1 .. Len(s)
  <2>1. Len(s) \in Nat
    BY LenProperties
  <2> QED
    BY <2>1
<1>2. PairUp(s) = [i \in 1 .. n |-> <<s[2 * i - 1], s[second(i)]>>]
  BY DEF PairUp, Hash
<1>3. \A i \in 1 .. n : <<s[2 * i - 1], s[second(i)]>> \in S \X S
  BY <1>1, ElementOfSeq
<1> HIDE DEF n, second
<1>4. PairUp(s) \in Seq(S \X S) /\ Len(PairUp(s)) = n
  BY <1>1, <1>2, <1>3
<1>5. \A i \in 1 .. n : PairUp(s)[i] = <<s[2 * i - 1], s[second(i)]>>
  BY <1>2
<1> QED
  BY <1>4, <1>5 DEF n, second

(* One layer of the tree, for every layer: the branch takes the head of    *)
(* what follows the coinbase's node and pairs up the rest; the full tree   *)
(* pairs up everything.  The node of the coinbase is the same in both, and *)
(* so is all that follows it; what follows gets shorter, so that the loop  *)
(* of merkle_branch ends (solo.py, merkle_branch and build_merkle_root).   *)
THEOREM MerkleStep ==
    ASSUME NEW S, NEW c \in S, NEW layer \in Seq(S), layer # <<>>
    PROVE  /\ PairUp(<<c>> \o layer) = <<Hash(c, Head(layer))>> \o PairUp(Rest(layer))
           /\ Len(PairUp(Rest(layer))) < Len(layer)
<1> DEFINE full == <<c>> \o layer
           rest == Rest(layer)
           n    == Len(layer)
           pair == <<c, layer[1]>>
<1>1. /\ n \in Nat \ {0} /\ Head(layer) = layer[1]
      /\ rest \in Seq(S) /\ Len(rest) = n - 1
      /\ \A i \in 1 .. n - 1 : rest[i] = layer[i + 1]
  <2>1. /\ n \in Nat \ {0} /\ Head(layer) = layer[1]
    BY HeadTailProperties, EmptySeq
  <2>2. /\ rest \in Seq(S) /\ Len(rest) = n - 1
        /\ \A i \in 1 .. n - 1 : rest[i] = layer[i + 1]
    BY <2>1, SubSeqProperties DEF Rest
  <2> QED
    BY <2>1, <2>2
<1>2. /\ full \in Seq(S) /\ Len(full) = n + 1
      /\ full[1] = c /\ \A i \in 1 .. n : full[i + 1] = layer[i]
  <2>1. <<c>> \in Seq(S) /\ Len(<<c>>) = 1 /\ <<c>>[1] = c
    OBVIOUS
  <2>2. /\ full \in Seq(S) /\ Len(full) = 1 + n
        /\ \A i \in 1 .. 1 + n : full[i] = IF i <= 1 THEN <<c>>[i] ELSE layer[i - 1]
    BY <2>1, ConcatProperties
  <2> QED
    BY <1>1, <2>1, <2>2
<1>3. pair \in S \X S
  BY <1>1, ElementOfSeq
<1> HIDE DEF full, rest, n, pair
<1>4. /\ PairUp(full) \in Seq(S \X S)
      /\ Len(PairUp(full)) = (n + 2) \div 2
      /\ \A i \in 1 .. (n + 2) \div 2 :
            PairUp(full)[i] = <<full[2 * i - 1], full[IF 2 * i <= n + 1 THEN 2 * i ELSE 2 * i - 1]>>
  <2>1. (Len(full) + 1) \div 2 = (n + 2) \div 2
    BY <1>1, <1>2
  <2> QED
    BY <1>2, <2>1, PairUpType
<1>5. /\ PairUp(rest) \in Seq(S \X S)
      /\ Len(PairUp(rest)) = n \div 2
      /\ \A i \in 1 .. n \div 2 :
            PairUp(rest)[i] = <<rest[2 * i - 1], rest[IF 2 * i <= n - 1 THEN 2 * i ELSE 2 * i - 1]>>
  <2>1. (Len(rest) + 1) \div 2 = n \div 2
    BY <1>1
  <2> QED
    BY <1>1, <2>1, PairUpType
<1>6. /\ <<pair>> \o PairUp(rest) \in Seq(S \X S)
      /\ Len(<<pair>> \o PairUp(rest)) = 1 + n \div 2
      /\ \A i \in 1 .. 1 + n \div 2 :
            (<<pair>> \o PairUp(rest))[i] = IF i <= 1 THEN pair ELSE PairUp(rest)[i - 1]
  <2>1. <<pair>> \in Seq(S \X S) /\ Len(<<pair>>) = 1 /\ <<pair>>[1] = pair
    BY <1>3
  <2> QED
    BY <1>5, <2>1, ConcatProperties
<1>7. (n + 2) \div 2 = 1 + n \div 2 /\ n \div 2 < n /\ n \div 2 \in Nat
  BY <1>1
<1>8. PairUp(full)[1] = pair
  BY <1>1, <1>2, <1>4, <1>7 DEF pair
<1>9. ASSUME NEW i \in 2 .. 1 + n \div 2
      PROVE  PairUp(full)[i] = PairUp(rest)[i - 1]
  <2> DEFINE k == i - 1
             second == IF 2 * k <= n - 1 THEN 2 * k ELSE 2 * k - 1
  <2>1. /\ k \in 1 .. n \div 2 /\ 2 * i - 1 = 2 * k + 1
        /\ (IF 2 * i <= n + 1 THEN 2 * i ELSE 2 * i - 1) = second + 2
        /\ 2 * k - 1 \in 1 .. n - 1 /\ second \in 1 .. n - 1
    BY <1>1
  <2>2. \A m \in 1 .. n - 1 : full[m + 2] = rest[m]
    BY <1>1, <1>2
  <2>3. full[2 * i - 1] = rest[2 * k - 1] /\ full[second + 2] = rest[second]
    BY <2>1, <2>2
  <2>4. PairUp(rest)[k] = <<rest[2 * k - 1], rest[second]>>
    BY <1>5, <2>1
  <2>5. PairUp(full)[i] = <<full[2 * i - 1], full[second + 2]>>
    BY <1>4, <1>7, <2>1
  <2> QED
    BY <2>3, <2>4, <2>5
<1>10. PairUp(full) = <<pair>> \o PairUp(rest)
  <2> DEFINE left  == PairUp(full)
             right == <<pair>> \o PairUp(rest)
  <2>1. ASSUME NEW i \in 1 .. 1 + n \div 2
        PROVE  left[i] = right[i]
    BY <1>6, <1>7, <1>8, <1>9
  <2>2. /\ left \in Seq(S \X S) /\ right \in Seq(S \X S)
        /\ Len(left) = 1 + n \div 2 /\ Len(right) = 1 + n \div 2
    BY <1>4, <1>6, <1>7
  <2> HIDE DEF left, right
  <2>3. left = right
    BY <2>1, <2>2, SeqEqual
  <2> QED
    BY <2>3 DEF left, right
<1> QED
  BY <1>1, <1>5, <1>7, <1>10 DEF full, rest, n, pair, Hash

(* Nothing comes of nothing: above the last layer there are no nodes.      *)
LEMMA RestStep ==
    ASSUME NEW S, NEW s \in Seq(S)
    PROVE  /\ PairUp(Rest(s)) \in Seq(S \X S)
           /\ s # <<>> => Len(PairUp(Rest(s))) < Len(s)
           /\ s = <<>> => Len(PairUp(Rest(s))) = 0
<1>1. /\ Rest(s) \in Seq(S) /\ Len(s) \in Nat
      /\ Len(Rest(s)) = IF Len(s) = 0 THEN 0 ELSE Len(s) - 1
  BY SubSeqProperties, LenProperties DEF Rest
<1>2. PairUp(Rest(s)) \in Seq(S \X S) /\ Len(PairUp(Rest(s))) = (Len(Rest(s)) + 1) \div 2
  BY <1>1, PairUpType
<1>3. s # <<>> <=> Len(s) # 0
  BY EmptySeq
<1>4. Len(s) # 0 => (Len(Rest(s)) + 1) \div 2 < Len(s)
  BY <1>1
<1>5. Len(s) = 0 => (Len(Rest(s)) + 1) \div 2 = 0
  BY <1>1
<1> QED
  BY <1>2, <1>3, <1>4, <1>5

-----------------------------------------------------------------------------
(* Induction over natural numbers, for sets of them.                       *)

LEMMA NatMin ==
    ASSUME NEW T, T \subseteq Nat, T # {}
    PROVE  \E m \in T : \A n \in T : m <= n
<1> DEFINE R == {p \in Nat \X Nat : p[1] < p[2]}
<1>1. IsWellFoundedOn(R, Nat)
  BY NatLessThanWellFounded DEF OpToRel
<1>2. \E m \in T : \A n \in T : ~ (<<n, m>> \in R)
  BY <1>1, WFMin
<1>3. PICK m \in T : \A n \in T : ~ (<<n, m>> \in R)
  BY <1>2
<1>4. ASSUME NEW n \in T PROVE m <= n
  <2>1. m \in Nat /\ n \in Nat
    OBVIOUS
  <2>2. ~ (<<n, m>> \in R)
    BY <1>3
  <2>3. ~ (n < m)
    BY <2>1, <2>2
  <2> QED
    BY <2>1, <2>3
<1> QED
  BY <1>4

LEMMA NatSet ==
    ASSUME NEW T, 0 \in T, \A n \in Nat : n \in T => n + 1 \in T
    PROVE  \A n \in Nat : n \in T
<1> DEFINE Bad == {n \in Nat : n \notin T}
<1>1. SUFFICES ASSUME Bad # {} PROVE FALSE
  OBVIOUS
<1>2. PICK m \in Bad : \A n \in Bad : m <= n
  <2>1. Bad \subseteq Nat
    OBVIOUS
  <2> HIDE DEF Bad
  <2> QED
    BY <1>1, <2>1, NatMin
<1>3. m # 0 /\ m \in Nat
  OBVIOUS
<1>4. m - 1 \in Nat /\ m - 1 \notin Bad
  BY <1>2, <1>3
<1> QED
  BY <1>3, <1>4

-----------------------------------------------------------------------------
(* What the recursive functions of the tree compute: each exists, being    *)
(* built value by value, so that it satisfies its equation.                *)

LEMMA LayersUnfold ==
    ASSUME NEW txs, Len(txs) \in Nat
    PROVE  /\ layers(txs)[0] = txs
           /\ \A n \in 0 .. Len(txs) - 1 : layers(txs)[n + 1] = PairUp(Rest(layers(txs)[n]))
<1> DEFINE N == Len(txs)
           Up(x) == PairUp(SubSeq(x, 2, Len(x)))
           Is(g, n) == g = [i \in 0 .. n |-> IF i = 0 THEN txs ELSE Up(g[i - 1])]
           T == {n \in Nat : \E g : Is(g, n)}
<1> HIDE DEF Up
<1>1. 0 \in T
  <2>1. Is([i \in {0} |-> txs], 0)
    OBVIOUS
  <2> QED
    BY <2>1
<1>2. ASSUME NEW n \in Nat, n \in T PROVE n + 1 \in T
  <2>1. PICK g : Is(g, n)
    BY <1>2
  <2> DEFINE h == [i \in 0 .. n + 1 |-> IF i <= n THEN g[i] ELSE Up(g[n])]
  <2>2. ASSUME NEW i \in 0 .. n + 1 PROVE h[i] = IF i = 0 THEN txs ELSE Up(h[i - 1])
    BY <2>1
  <2>3. Is(h, n + 1)
    BY <2>2
  <2>4. \E f : Is(f, n + 1)
    <3> HIDE DEF h
    <3> QED
      BY <2>3
  <2> QED
    BY <2>4
<1>3. \E g : Is(g, N)
  <2>1. \A n \in Nat : n \in T
    <3> HIDE DEF T
    <3> QED
      BY <1>1, <1>2, NatSet
  <2>2. N \in T
    BY <2>1
  <2> QED
    BY <2>2
<1>4. layers(txs) = CHOOSE g : Is(g, N)
  BY DEF layers, Up
<1>5. Is(layers(txs), N)
  BY <1>3, <1>4
<1>6. layers(txs)[0] = txs /\ \A n \in 0 .. N - 1 : layers(txs)[n + 1] = Up(layers(txs)[n])
  BY <1>5
<1> QED
  BY <1>6 DEF Up, Rest

LEMMA FullLayersUnfold ==
    ASSUME NEW txs, Len(txs) \in Nat
    PROVE  /\ full_layers(txs)[0] = txs
           /\ \A n \in 0 .. Len(txs) - 1 :
                 full_layers(txs)[n + 1] = IF Len(full_layers(txs)[n]) > 1
                                           THEN PairUp(full_layers(txs)[n])
                                           ELSE full_layers(txs)[n]
<1> DEFINE N == Len(txs)
           Up(x) == IF Len(x) > 1 THEN PairUp(x) ELSE x
           Is(g, n) == g = [i \in 0 .. n |-> IF i = 0 THEN txs ELSE Up(g[i - 1])]
           T == {n \in Nat : \E g : Is(g, n)}
<1> HIDE DEF Up
<1>1. 0 \in T
  <2>1. Is([i \in {0} |-> txs], 0)
    OBVIOUS
  <2> QED
    BY <2>1
<1>2. ASSUME NEW n \in Nat, n \in T PROVE n + 1 \in T
  <2>1. PICK g : Is(g, n)
    BY <1>2
  <2> DEFINE h == [i \in 0 .. n + 1 |-> IF i <= n THEN g[i] ELSE Up(g[n])]
  <2>2. ASSUME NEW i \in 0 .. n + 1 PROVE h[i] = IF i = 0 THEN txs ELSE Up(h[i - 1])
    BY <2>1
  <2>3. Is(h, n + 1)
    BY <2>2
  <2>4. \E f : Is(f, n + 1)
    <3> HIDE DEF h
    <3> QED
      BY <2>3
  <2> QED
    BY <2>4
<1>3. \E g : Is(g, N)
  <2>1. \A n \in Nat : n \in T
    <3> HIDE DEF T
    <3> QED
      BY <1>1, <1>2, NatSet
  <2>2. N \in T
    BY <2>1
  <2> QED
    BY <2>2
<1>4. full_layers(txs) = CHOOSE g : Is(g, N)
  BY DEF full_layers, Up
<1>5. Is(full_layers(txs), N)
  BY <1>3, <1>4
<1>6. /\ full_layers(txs)[0] = txs
      /\ \A n \in 0 .. N - 1 : full_layers(txs)[n + 1] = Up(full_layers(txs)[n])
  BY <1>5
<1> QED
  BY <1>6 DEF Up

LEMMA PathUnfold ==
    ASSUME NEW cb, NEW branch, Len(branch) \in Nat
    PROVE  \E path : /\ path[0] = cb
                     /\ \A n \in 0 .. Len(branch) - 1 :
                           path[n + 1] = Hash(path[n], branch[n + 1])
                     /\ build_merkle_root(cb, branch) = path[Len(branch)]
<1> DEFINE N == Len(branch)
           Is(g, n) == g = [i \in 0 .. n |-> IF i = 0 THEN cb ELSE Hash(g[i - 1], branch[i])]
           T == {n \in Nat : \E g : Is(g, n)}
<1>1. 0 \in T
  <2>1. Is([i \in {0} |-> cb], 0)
    OBVIOUS
  <2> QED
    BY <2>1
<1>2. ASSUME NEW n \in Nat, n \in T PROVE n + 1 \in T
  <2>1. PICK g : Is(g, n)
    BY <1>2
  <2> DEFINE h == [i \in 0 .. n + 1 |-> IF i <= n THEN g[i] ELSE Hash(g[n], branch[n + 1])]
  <2>2. ASSUME NEW i \in 0 .. n + 1
        PROVE  h[i] = IF i = 0 THEN cb ELSE Hash(h[i - 1], branch[i])
    BY <2>1
  <2>3. Is(h, n + 1)
    BY <2>2
  <2>4. \E f : Is(f, n + 1)
    <3> HIDE DEF h
    <3> QED
      BY <2>3
  <2> QED
    BY <2>4
<1>3. \E g : Is(g, N)
  <2>1. \A n \in Nat : n \in T
    <3> HIDE DEF T
    <3> QED
      BY <1>1, <1>2, NatSet
  <2>2. N \in T
    BY <2>1
  <2> QED
    BY <2>2
<1> DEFINE p == CHOOSE g : Is(g, N)
<1>4. Is(p, N) /\ build_merkle_root(cb, branch) = p[N]
  <2>1. Is(p, N)
    BY <1>3
  <2>2. build_merkle_root(cb, branch) = p[N]
    BY DEF build_merkle_root
  <2> QED
    BY <2>1, <2>2
<1> HIDE DEF p
<1>5. p[0] = cb /\ \A n \in 0 .. N - 1 : p[n + 1] = Hash(p[n], branch[n + 1])
  BY <1>4
<1> QED
  BY <1>4, <1>5

(* The root over the branch is the root over all transactions: the branch  *)
(* ends at the top, where the path of the coinbase is the whole layer.     *)
LEMMA MerkleAgree ==
    ASSUME NEW U, NEW cb \in U, NEW txs \in Seq(U)
    PROVE  build_merkle_root(cb, merkle_branch(txs)) = merkle_root(<<cb>> \o txs)
<1> DEFINE N == Len(txs)
           L == layers(txs)
           D == depth(txs)
           branch == merkle_branch(txs)
           F == full_layers(<<cb>> \o txs)
<1>1. N \in Nat /\ Len(<<cb>> \o txs) = N + 1 /\ <<cb>> \o txs \in Seq(U)
  <2>1. <<cb>> \in Seq(U) /\ Len(<<cb>>) = 1
    OBVIOUS
  <2> QED
    BY <2>1, ConcatProperties, LenProperties
<1>2. L[0] = txs /\ \A n \in 0 .. N - 1 : L[n + 1] = PairUp(Rest(L[n]))
  BY <1>1, LayersUnfold
<1>3. /\ F[0] = <<cb>> \o txs
      /\ \A n \in 0 .. N : F[n + 1] = IF Len(F[n]) > 1 THEN PairUp(F[n]) ELSE F[n]
  <2> DEFINE all == <<cb>> \o txs
  <2> HIDE DEF all
  <2>1. Len(all) = N + 1 /\ Len(all) \in Nat /\ Len(all) - 1 = N
    BY <1>1 DEF all
  <2>2. /\ full_layers(all)[0] = all
        /\ \A n \in 0 .. Len(all) - 1 :
              full_layers(all)[n + 1] = IF Len(full_layers(all)[n]) > 1
                                        THEN PairUp(full_layers(all)[n])
                                        ELSE full_layers(all)[n]
    BY <2>1, FullLayersUnfold
  <2> QED
    BY <2>1, <2>2 DEF all
<1>4. D = CHOOSE d \in 0 .. N : L[d] = <<>> /\ \A n \in 0 .. d - 1 : L[n] # <<>>
  BY DEF depth
<1>5. branch = [n \in 1 .. D |-> Head(L[n - 1])]
  BY DEF merkle_branch
<1>6. merkle_root(<<cb>> \o txs) = F[N + 1][1]
  BY <1>1 DEF merkle_root
<1> HIDE DEF N, L, D, branch, F
<1>7. L[N] = <<>>
  <2> DEFINE T == {n \in Nat : n <= N => \E S : L[n] \in Seq(S) /\ Len(L[n]) <= N - n}
  <2>1. 0 \in T
    BY <1>1, <1>2 DEF N
  <2>2. ASSUME NEW n \in Nat, n \in T PROVE n + 1 \in T
    <3> SUFFICES ASSUME n + 1 <= N
                 PROVE  \E S : L[n + 1] \in Seq(S) /\ Len(L[n + 1]) <= N - (n + 1)
      OBVIOUS
    <3>1. n <= N /\ n \in 0 .. N - 1
      BY <1>1
    <3>2. PICK S : L[n] \in Seq(S) /\ Len(L[n]) <= N - n
      BY <2>2, <3>1
    <3>3. L[n + 1] \in Seq(S \X S) /\ (L[n] # <<>> => Len(L[n + 1]) < Len(L[n]))
                                   /\ (L[n] = <<>> => Len(L[n + 1]) = 0)
      BY <1>2, <3>1, <3>2, RestStep
    <3>4. Len(L[n]) \in Nat /\ Len(L[n + 1]) \in Nat
      BY <3>2, <3>3, LenProperties
    <3>5. Len(L[n + 1]) <= N - (n + 1)
      BY <1>1, <3>1, <3>2, <3>3, <3>4
    <3> QED
      BY <3>3, <3>5
  <2>3. N \in T
    <3> HIDE DEF T
    <3> QED
      BY <1>1, <2>1, <2>2, NatSet
  <2>4. PICK S : L[N] \in Seq(S) /\ Len(L[N]) <= N - N
    BY <1>1, <2>3
  <2>5. Len(L[N]) = 0
    BY <1>1, <2>4, LenProperties
  <2> QED
    BY <2>4, <2>5, EmptySeq
<1>8. D \in 0 .. N /\ L[D] = <<>> /\ \A n \in 0 .. D - 1 : L[n] # <<>>
  <2> DEFINE T == {n \in 0 .. N : L[n] = <<>>}
  <2>1. N \in T /\ T \subseteq Nat
    BY <1>1, <1>7
  <2>2. PICK m \in T : \A n \in T : m <= n
    <3> HIDE DEF T
    <3> QED
      BY <2>1, NatMin
  <2>3. ASSUME NEW n \in 0 .. m - 1 PROVE L[n] # <<>>
    <3>1. m \in 0 .. N /\ n \in 0 .. N /\ ~(m <= n)
      BY <1>1
    <3>2. n \notin T
      BY <2>2, <3>1
    <3> QED
      BY <3>1, <3>2
  <2> QED
    BY <1>4, <2>2, <2>3
<1>9. D \in Nat /\ Len(branch) = D /\ \A n \in 0 .. D - 1 : branch[n + 1] = Head(L[n])
  <2>1. D \in Nat
    BY <1>1, <1>8
  <2>2. DOMAIN branch = 1 .. D
    BY <1>5
  <2>3. Len(branch) = D
    BY <1>5, <2>1
  <2>4. ASSUME NEW n \in 0 .. D - 1 PROVE branch[n + 1] = Head(L[n])
    BY <1>5, <2>1
  <2> QED
    BY <2>1, <2>3, <2>4
<1>10. PICK path : /\ path[0] = cb
                   /\ \A n \in 0 .. D - 1 : path[n + 1] = Hash(path[n], branch[n + 1])
                   /\ build_merkle_root(cb, branch) = path[D]
  BY <1>9, PathUnfold
<1>11. F[D] = <<path[D]>>
  <2> DEFINE T == {n \in Nat : n <= D => \E S : /\ path[n] \in S /\ L[n] \in Seq(S)
                                               /\ F[n] = <<path[n]>> \o L[n]}
  <2>1. 0 \in T
    BY <1>2, <1>3, <1>10
  <2>2. ASSUME NEW n \in Nat, n \in T PROVE n + 1 \in T
    <3> SUFFICES ASSUME n + 1 <= D
                 PROVE  \E S : /\ path[n + 1] \in S /\ L[n + 1] \in Seq(S)
                               /\ F[n + 1] = <<path[n + 1]>> \o L[n + 1]
      OBVIOUS
    <3>1. n <= D /\ n \in 0 .. D - 1 /\ n \in 0 .. N - 1 /\ n \in 0 .. N
      BY <1>1, <1>8
    <3>2. PICK S : path[n] \in S /\ L[n] \in Seq(S) /\ F[n] = <<path[n]>> \o L[n]
      BY <2>2, <3>1
    <3>3. L[n] # <<>>
      BY <1>8, <3>1
    <3>4. Len(F[n]) > 1
      <4>1. <<path[n]>> \in Seq(S) /\ Len(<<path[n]>>) = 1
        BY <3>2
      <4>2. Len(F[n]) = 1 + Len(L[n])
        BY <3>2, <4>1, ConcatProperties
      <4>3. Len(L[n]) \in Nat /\ Len(L[n]) # 0
        BY <3>2, <3>3, LenProperties, EmptySeq
      <4> QED
        BY <4>2, <4>3
    <3>5. path[n + 1] = Hash(path[n], Head(L[n]))
      BY <1>9, <1>10, <3>1
    <3>6. F[n + 1] = <<path[n + 1]>> \o L[n + 1]
      <4>1. F[n + 1] = PairUp(<<path[n]>> \o L[n])
        BY <1>3, <3>1, <3>2, <3>4
      <4>2. PairUp(<<path[n]>> \o L[n])
              = <<Hash(path[n], Head(L[n]))>> \o PairUp(Rest(L[n]))
        BY <3>2, <3>3, MerkleStep
      <4>3. L[n + 1] = PairUp(Rest(L[n]))
        BY <1>2, <3>1
      <4> QED
        BY <3>5, <4>1, <4>2, <4>3
    <3>7. path[n + 1] \in S \X S
      <4>1. Head(L[n]) \in S
        BY <3>2, <3>3, HeadTailProperties
      <4> QED
        BY <3>2, <3>5, <4>1 DEF Hash
    <3>8. L[n + 1] \in Seq(S \X S)
      BY <1>2, <3>1, <3>2, RestStep
    <3> QED
      BY <3>6, <3>7, <3>8
  <2>3. D \in T
    <3> HIDE DEF T
    <3> QED
      BY <1>9, <2>1, <2>2, NatSet
  <2>4. PICK S : path[D] \in S /\ F[D] = <<path[D]>> \o L[D]
    BY <1>9, <2>3
  <2>5. <<path[D]>> \in Seq(S)
    BY <2>4
  <2> QED
    BY <1>8, <2>4, <2>5, ConcatEmptySeq
<1>12. F[N + 1] = <<path[D]>>
  <2> DEFINE T == {n \in Nat : D + n <= N + 1 => F[D + n] = <<path[D]>>}
  <2>1. 0 \in T
    BY <1>9, <1>11
  <2>2. ASSUME NEW n \in Nat, n \in T PROVE n + 1 \in T
    <3> SUFFICES ASSUME D + (n + 1) <= N + 1 PROVE F[D + (n + 1)] = <<path[D]>>
      OBVIOUS
    <3>1. D + n \in 0 .. N /\ D + n <= N + 1 /\ D + (n + 1) = (D + n) + 1
      BY <1>1, <1>9
    <3>2. F[D + n] = <<path[D]>> /\ Len(F[D + n]) = 1
      BY <2>2, <3>1
    <3>3. ASSUME NEW k \in 0 .. N, Len(F[k]) = 1 PROVE F[k + 1] = F[k]
      <4>1. ~ (Len(F[k]) > 1)
        BY <3>3
      <4>2. F[k + 1] = IF Len(F[k]) > 1 THEN PairUp(F[k]) ELSE F[k]
        BY <1>3
      <4> QED
        BY <4>1, <4>2
    <3> QED
      BY <3>1, <3>2, <3>3
  <2>3. \A n \in Nat : n \in T
    <3> HIDE DEF T
    <3> QED
      BY <2>1, <2>2, NatSet
  <2>4. (N + 1) - D \in Nat /\ D + ((N + 1) - D) = N + 1
    BY <1>1, <1>8
  <2>5. (N + 1) - D \in T
    BY <2>3, <2>4
  <2> QED
    BY <1>1, <2>4, <2>5
<1>13. F[N + 1][1] = path[D]
  BY <1>12
<1> QED
  BY <1>6, <1>10, <1>13 DEF branch

(* Whatever transactions a template has, and however many, the block that  *)
(* submit() builds commits to the coinbase with the extranonce2 of the     *)
(* find and exactly those, and names the block before in the byte order of *)
(* headers (solo.py, submit).                                              *)
THEOREM BlocksCommitToAll == Spec => []BlocksAreWellFormed
<1>1. ASSUME NEW t \in Templates, NEW c
      PROVE  build_merkle_root(c, merkle_branch(Tmpl[t].txs))
               = merkle_root(<<c>> \o Tmpl[t].txs)
  <2> DEFINE U == Range(Tmpl[t].txs) \cup {c}
  <2>1. Tmpl[t].txs \in Seq(Range(Tmpl[t].txs))
    BY TemplatesAreWellFormed
  <2>2. c \in U
    OBVIOUS
  <2>3. Tmpl[t].txs \in Seq(U)
    BY <2>1
  <2> HIDE DEF U
  <2> QED
    BY <2>2, <2>3, MerkleAgree
<1>2. ASSUME NEW t \in Templates, NEW j, NEW n, NEW nonce
      PROVE  /\ SubmittedHeader(t, j, n, nonce)[2] = Reverse(Tmpl[t].prev)
             /\ SubmittedHeader(t, j, n, nonce)[3]
                  = merkle_root(<<_build_coinbase_for_template(t, pack_be(n))>> \o Tmpl[t].txs)
  <2>1. SubmittedHeader(t, j, n, nonce)[2] = Reverse(Tmpl[t].prev)
    BY DEF SubmittedHeader, _assemble_header
  <2>2. SubmittedHeader(t, j, n, nonce)[3] = RootOfBlock(t, n)
    BY DEF SubmittedHeader, _assemble_header
  <2> QED
    BY <1>1, <2>1, <2>2 DEF RootOfBlock
<1>3. AgreeInv => BlocksAreWellFormed
  BY <1>2 DEF AgreeInv, Typed, TypeOK, BlocksAreWellFormed
<1> QED
  BY <1>3, AgreeHolds, PTL
===============================================================================
