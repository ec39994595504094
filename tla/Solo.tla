-------------------------------- MODULE Solo --------------------------------
(***************************************************************************)
(* The solo client (solo.py): the thread that polls bitcoind for block     *)
(* templates, the job it makes of a template, and submit(), which builds   *)
(* the block of a find from the newest template.                           *)
(*                                                                         *)
(* A template is a number; Tmpl gives what is in it: the numbers version   *)
(* and curtime; bits and prev, the hash of the previous block as bitcoind  *)
(* writes it, as sequences of bytes; of its coinbase transaction height,   *)
(* the push that starts its script, and outputs, all that follows its      *)
(* input; txs, the ids of the other transactions.  A job is the template   *)
(* that it was made of, and a block in submission is the template that it  *)
(* was built from: the conversions are functions of those, below.          *)
(* client.sock, in this mode a mark for /healthz only, is left out.        *)
(***************************************************************************)
EXTENDS Integers, Sequences, SequencesExt, FiniteSets

CONSTANTS
    Tmpl,         \* what is in each template that bitcoind may hand out
    IdLength,     \* bytes of prev that make a job id
    Extranonces,  \* values of extranonce2 that are searched
    Nonces,       \* nonces that are searched
    Readers,      \* identities of reader threads
    supervisor,   \* model value: the thread of supervisor_loop
    MaxRestarts,  \* bound: /restart commands
    ByMine,       \* TRUE: mine() uses the client; FALSE: a caller that looks
                  \* at current_job only, like tests/test_solo.py
    none          \* model value

Templates == DOMAIN Tmpl
Threads   == Readers \cup {supervisor}

Byte == 0 .. 255

(* n fits into four bytes (struct.pack raises if not).                     *)
FitsWord(n) == n \in Nat /\ n \div 16777216 < 256

(* Heights of at most three bytes, the sign with them: up to 8388607.      *)
ASSUME TemplatesAreWellFormed ==
    \A t \in Templates :
        /\ Tmpl[t].prev \in Seq(Byte)
        /\ Len(Tmpl[t].prev) % 4 = 0 /\ IdLength \in 1 .. Len(Tmpl[t].prev)
        /\ FitsWord(Tmpl[t].version) /\ FitsWord(Tmpl[t].curtime)
        /\ Tmpl[t].bits \in Seq(Byte) /\ Len(Tmpl[t].bits) = 4
        /\ Tmpl[t].height \in Seq(Byte) /\ Len(Tmpl[t].height) \in 1 .. 4
        /\ Tmpl[t].height[1] = Len(Tmpl[t].height) - 1
        /\ Tmpl[t].outputs \in Seq(Byte)
        /\ Tmpl[t].txs \in Seq(Range(Tmpl[t].txs))

ASSUME SoloAssumption ==
    /\ \A n \in Extranonces \cup Nonces : FitsWord(n)
    /\ supervisor \notin Readers /\ none \notin Readers \cup Templates
    /\ MaxRestarts \in Nat /\ ByMine \in BOOLEAN

VARIABLES
    node,         \* the template of bitcoind, or none while calls to it fail
    stop,         \* stop_event
    restart,      \* restart_event
    restarts,     \* /restart commands so far
    sup,          \* supervisor_loop: between sessions, in one, or ended
    watched,      \* reader_thread of the session, or none
    at,           \* where each thread is
    hand,         \* the template a thread got and has not made known yet
    last,         \* client._last_template
    job,          \* client.current_job
    search,       \* the job that is searched, or none
    block         \* template of the block being submitted, or none

mineVars == <<search, block>>
vars == <<node, stop, restart, restarts, sup, watched, at, hand, last, job, mineVars>>

Init ==
    /\ node \in Templates \cup {none}
    /\ stop = FALSE /\ restart = FALSE /\ restarts = 0
    /\ sup = "between" /\ watched = none
    /\ at = [t \in Threads |-> "gone"] /\ hand = [t \in Threads |-> none]
    /\ last = none /\ job = none /\ search = none /\ block = none

-----------------------------------------------------------------------------
(* Byte orders, coinbase and merkle trees.  A hash is the pair of what is  *)
(* hashed, and that of the coinbase transaction its bytes.                 *)

Hash(a, b) == <<a, b>>

(* struct.pack("<I", n), and ">I": its bytes in reverse.                   *)
pack_le(n) == <<n % 256, (n \div 256) % 256, (n \div 65536) % 256, (n \div 16777216) % 256>>
pack_be(n) == <<(n \div 16777216) % 256, (n \div 65536) % 256, (n \div 256) % 256, n % 256>>

(* Each group of four bytes reversed (swap_words and prev_stratum_hex).    *)
swap_words(s) == [i \in DOMAIN s |-> s[4 * ((i - 1) \div 4) + 4 - ((i - 1) % 4)]]

(* The next layer of a merkle tree; an odd one out is paired with itself.  *)
PairUp(s) ==
    [i \in 1 .. (Len(s) + 1) \div 2 |->
        Hash(s[2 * i - 1], s[IF 2 * i <= Len(s) THEN 2 * i ELSE 2 * i - 1])]

layers_no_odd(txs) ==   \* mutant: an odd one out is lost
    LET layer[n \in 0 .. Len(txs)] ==
          IF n = 0 THEN txs
          ELSE LET below == layer[n - 1]
                   rest  == SubSeq(below, 2, Len(below))
               IN  PairUp(SubSeq(rest, 1, 2 * (Len(rest) \div 2)))
    IN  layer

(* What follows the node of the coinbase in each layer of the tree: all    *)
(* but its neighbour is paired up for the next.                            *)
layers(txs) ==
    LET layer[n \in 0 .. Len(txs)] ==
          IF n = 0 THEN txs
          ELSE LET below == layer[n - 1] IN PairUp(SubSeq(below, 2, Len(below)))
    IN  layer

(* Layers above the transactions until nothing follows the coinbase.       *)
depth(txs) ==
    CHOOSE d \in 0 .. Len(txs) :
        layers(txs)[d] = <<>> /\ \A n \in 0 .. d - 1 : layers(txs)[n] # <<>>

(* The neighbours of the coinbase on its way to the root.                  *)
merkle_branch(txs) == [n \in 1 .. depth(txs) |-> Head(layers(txs)[n - 1])]

build_merkle_root(cb, branch) ==
    LET path[n \in 0 .. Len(branch)] == IF n = 0 THEN cb ELSE Hash(path[n - 1], branch[n])
    IN  path[Len(branch)]

(* The layers over all transactions, by the definition of bitcoin, and     *)
(* their last one, the root.                                               *)
full_layers(txs) ==
    LET layer[n \in 0 .. Len(txs)] ==
          IF n = 0 THEN txs
          ELSE LET below == layer[n - 1] IN IF Len(below) > 1 THEN PairUp(below) ELSE below
    IN  layer

merkle_root(txs) == full_layers(txs)[Len(txs)][1]

(* Version, count of inputs, and the output that is spent: none.           *)
CoinbaseStart ==
    <<1, 0, 0, 0, 1>> \o [i \in 1 .. 32 |-> 0] \o <<255, 255, 255, 255>>

(* build_coinbase: the script pushes the height and the extranonce.        *)
_build_coinbase_for_template(t, extranonce) ==
    LET script == Tmpl[t].height \o <<Len(extranonce)>> \o extranonce
    IN  CoinbaseStart \o <<Len(script)>> \o script \o <<255, 255, 255, 255>> \o Tmpl[t].outputs

(* The first place of m in s, or 0.                                        *)
find(s, m) ==
    LET places == {i \in 1 .. Len(s) - Len(m) + 1 :
                      \A k \in 1 .. Len(m) : s[i + k - 1] = m[k]}
    IN  IF places = {} THEN 0 ELSE CHOOSE i \in places : \A j \in places : i <= j

marker == <<222, 173, 190, 239>>   \* deadbeef

PrevOfJobUnswapped(prev) == swap_words(prev)   \* mutant: the byte order of before

(* prevhash of a job: the bytes in reverse, each group of four swapped.    *)
PrevOfJob(prev) == swap_words(Reverse(prev))

job_id(t) == SubSeq(Tmpl[t].prev, 1, IdLength)

(* The coinbase is cut in two around a marker in the place of extranonce2. *)
_template_to_job(t) ==
    LET coinbase == _build_coinbase_for_template(t, marker)
        idx      == find(coinbase, marker)
    IN  [job_id  |-> job_id(t),
         prevhash |-> PrevOfJob(Tmpl[t].prev),
         coinb1  |-> SubSeq(coinbase, 1, idx - 1),
         coinb2  |-> SubSeq(coinbase, idx + Len(marker), Len(coinbase)),
         merkle_branch |-> merkle_branch(Tmpl[t].txs),
         version |-> pack_be(Tmpl[t].version),
         nbits   |-> Tmpl[t].bits,
         ntime   |-> pack_be(Tmpl[t].curtime)]

Extranonce1 == <<>>   \* SoloClient.__init__; never written again

(* A header is the sequence of its fields.  What mine() makes of a job,    *)
(* and the workers with each nonce:                                        *)
_build_header_base(j, extranonce2) ==
    LET coinbase == j.coinb1 \o Extranonce1 \o extranonce2 \o j.coinb2
    IN  <<Reverse(j.version), swap_words(j.prevhash),
          build_merkle_root(coinbase, j.merkle_branch), Reverse(j.ntime), Reverse(j.nbits)>>

SearchedHeader(t, n, nonce) ==
    Append(_build_header_base(_template_to_job(t), pack_be(n)), pack_le(nonce))

(* What submit() makes of its template and of a find:                      *)
_assemble_header(t, root, ntime_le, nonce_be) ==
    <<pack_le(Tmpl[t].version), Reverse(Tmpl[t].prev), root, ntime_le,
      Reverse(Tmpl[t].bits), Reverse(nonce_be)>>

RootOfBlock(t, n) ==
    build_merkle_root(_build_coinbase_for_template(t, pack_be(n)), merkle_branch(Tmpl[t].txs))

SubmittedHeaderOfNow(t, j, n, nonce) ==   \* mutant: the time of the newest template
    _assemble_header(t, RootOfBlock(t, n), Reverse(pack_be(Tmpl[t].curtime)), pack_be(nonce))

(* The find is handed over with the ntime of the job j it was made for.    *)
SubmittedHeader(t, j, n, nonce) ==
    _assemble_header(t, RootOfBlock(t, n), Reverse(pack_be(Tmpl[j].curtime)), pack_be(nonce))

-----------------------------------------------------------------------------
(* _fetch_template, by the supervisor in connect() or by a reader          *)

Call(t) ==
    /\ at[t] = "call" /\ node # none
    /\ hand' = [hand EXCEPT ![t] = node]
    /\ at' = [at EXCEPT ![t] = "template"]
    /\ UNCHANGED <<node, stop, restart, restarts, sup, watched, last, job, mineVars>>

StoreTemplate(t) ==
    /\ at[t] = "template"
    /\ last' = hand[t]
    /\ at' = [at EXCEPT ![t] = "job"]
    /\ UNCHANGED <<node, stop, restart, restarts, sup, watched, hand, job, mineVars>>

TakesJobFirstOnly(t) == job = none   \* mutant: later templates are ignored

TakesJob(t) == job = none \/ job_id(job) # job_id(t)

StoreJob(t) ==
    /\ at[t] = "job"
    /\ job' = IF TakesJob(hand[t]) THEN hand[t] ELSE job
    /\ hand' = [hand EXCEPT ![t] = none]
    /\ at' = [at EXCEPT ![t] = IF t = supervisor THEN "connected" ELSE "sleep"]
    /\ UNCHANGED <<node, stop, restart, restarts, sup, watched, last, mineVars>>

-----------------------------------------------------------------------------
(* reader_loop *)

ReaderLooks(r) ==
    /\ at[r] = "look"
    /\ at' = [at EXCEPT ![r] = IF stop THEN "gone" ELSE "call"]
    /\ UNCHANGED <<node, stop, restart, restarts, sup, watched, hand, last, job, mineVars>>

(* The call fails or times out: the reader leaves the work to the          *)
(* supervisor.                                                             *)
ReaderFails(r) ==
    /\ at[r] = "call" /\ node = none
    /\ at' = [at EXCEPT ![r] = "gone"]
    /\ UNCHANGED <<node, stop, restart, restarts, sup, watched, hand, last, job, mineVars>>

ReaderSleepsThrough(r) ==   \* mutant: the pause does not end at a stop
    /\ at[r] = "sleep" /\ ~stop
    /\ at' = [at EXCEPT ![r] = "look"]
    /\ UNCHANGED <<node, stop, restart, restarts, sup, watched, hand, last, job, mineVars>>

(* stop_event.wait(timeout=wait_s)                                         *)
ReaderWakes(r) ==
    /\ at[r] = "sleep"
    /\ at' = [at EXCEPT ![r] = IF stop THEN "gone" ELSE "look"]
    /\ UNCHANGED <<node, stop, restart, restarts, sup, watched, hand, last, job, mineVars>>

-----------------------------------------------------------------------------
(* supervisor_loop without a pool list, run_session, connect *)

BeginSession ==
    /\ sup = "between" /\ ~stop
    /\ sup' = "session"
    /\ job' = none
    /\ at' = [at EXCEPT ![supervisor] = "call"]
    /\ UNCHANGED <<node, stop, restart, restarts, watched, hand, last, mineVars>>

(* connect() raises; the pause before the next session may take any time.  *)
ConnectFails ==
    /\ at[supervisor] = "call" /\ node = none
    /\ at' = [at EXCEPT ![supervisor] = "gone"]
    /\ sup' = "between"
    /\ UNCHANGED <<node, stop, restart, restarts, watched, hand, last, job, mineVars>>

StartReader(r) ==
    /\ at[supervisor] = "connected" /\ at[r] = "gone"
    /\ at' = [at EXCEPT ![supervisor] = "gone", ![r] = "look"]
    /\ watched' = r
    /\ UNCHANGED <<node, stop, restart, restarts, sup, hand, last, job, mineVars>>

SessionEndsByCommand ==   \* mutant: nobody notices that the reader is gone
    /\ watched # none
    /\ restart \/ stop
    /\ sup' = "between" /\ watched' = none
    /\ restart' = FALSE
    /\ UNCHANGED <<node, stop, restarts, at, hand, last, job, mineVars>>

(* The reader ended, or a /restart came, or a stop.  client.close() does   *)
(* not end the reader here: it goes on polling after a /restart.           *)
SessionEnds ==
    /\ watched # none
    /\ at[watched] = "gone" \/ restart \/ stop
    /\ sup' = "between" /\ watched' = none
    /\ restart' = (restart /\ at[watched] = "gone")
    /\ UNCHANGED <<node, stop, restarts, at, hand, last, job, mineVars>>

SupervisorEnds ==
    /\ sup = "between" /\ stop
    /\ sup' = "ended"
    /\ UNCHANGED <<node, stop, restart, restarts, watched, at, hand, last, job, mineVars>>

-----------------------------------------------------------------------------
(* The miner, or another caller *)

(* `if not job or not en1` of mine().                                      *)
Search ==
    /\ search = none /\ ~stop
    /\ job # none /\ (ByMine => Extranonce1 # <<>>)
    /\ search' = job
    /\ UNCHANGED <<node, stop, restart, restarts, sup, watched, at, hand, last, job, block>>

LeaveSearchDuringSubmit ==   \* mutant: a submission does not hold mine() up
    /\ search # none
    /\ ~(~stop /\ job # none /\ job_id(job) = job_id(search))
    /\ search' = none
    /\ UNCHANGED <<node, stop, restart, restarts, sup, watched, at, hand, last, job, block>>

LeaveSearch ==
    /\ search # none /\ block = none
    /\ ~(~stop /\ job # none /\ job_id(job) = job_id(search))
    /\ search' = none
    /\ UNCHANGED <<node, stop, restart, restarts, sup, watched, at, hand, last, job, block>>

(* submit() for a find: the block is built from the newest template.       *)
Submit ==
    /\ search # none /\ block = none /\ last # none
    /\ block' = last
    /\ UNCHANGED <<node, stop, restart, restarts, sup, watched, at, hand, last, job, search>>

(* submitblock returns or fails; submit() returns.                         *)
SubmitReturns ==
    /\ block # none
    /\ block' = none
    /\ UNCHANGED <<node, stop, restart, restarts, sup, watched, at, hand, last, job, search>>

-----------------------------------------------------------------------------
(* Environment: bitcoind and the operator *)

NodeChanges ==
    /\ node' \in Templates \cup {none}
    /\ UNCHANGED <<stop, restart, restarts, sup, watched, at, hand, last, job, mineVars>>

Restart ==
    /\ restarts < MaxRestarts
    /\ restart' = TRUE /\ restarts' = restarts + 1
    /\ UNCHANGED <<node, stop, sup, watched, at, hand, last, job, mineVars>>

Stop ==
    /\ ~stop
    /\ stop' = TRUE
    /\ UNCHANGED <<node, restart, restarts, sup, watched, at, hand, last, job, mineVars>>

Fetch(t) == Call(t) \/ StoreTemplate(t) \/ StoreJob(t)

ReaderNext(r) == Fetch(r) \/ ReaderLooks(r) \/ ReaderFails(r) \/ ReaderWakes(r)

SupervisorNext ==
    \/ Fetch(supervisor) \/ BeginSession \/ ConnectFails \/ SessionEnds \/ SupervisorEnds
    \/ \E r \in Readers : StartReader(r)

MinerNext == Search \/ LeaveSearch \/ Submit \/ SubmitReturns

Next ==
    \/ \E r \in Readers : ReaderNext(r)
    \/ SupervisorNext
    \/ MinerNext
    \/ NodeChanges \/ Restart \/ Stop

Spec == Init /\ [][Next]_vars

(* Threads keep running: calls to bitcoind and pauses have timeouts.       *)
FairSpec ==
    /\ Spec
    /\ \A r \in Readers : WF_vars(ReaderNext(r))
    /\ WF_vars(SupervisorNext) /\ WF_vars(MinerNext)

-----------------------------------------------------------------------------
(* Properties *)

TypeOK ==
    /\ node \in Templates \cup {none}
    /\ stop \in BOOLEAN /\ restart \in BOOLEAN /\ restarts \in 0 .. MaxRestarts
    /\ sup \in {"between", "session", "ended"}
    /\ watched \in Readers \cup {none}
    /\ at \in [Threads -> {"gone", "look", "call", "template", "job", "sleep", "connected"}]
    /\ \A t \in Threads : hand[t] # none <=> at[t] \in {"template", "job"}
    /\ last \in Templates \cup {none}
    /\ job \in Templates \cup {none} /\ search \in Templates \cup {none}
    /\ block \in Templates \cup {none} /\ (block # none => search # none)

(* A block that submit() builds is one, whatever was found: its header     *)
(* names the block before in the byte order of headers, and commits to the *)
(* coinbase with the extranonce2 of the find and to all its transactions.  *)
BlocksAreWellFormed ==
    block # none =>
        \A n \in Extranonces, nonce \in Nonces :
            LET header   == SubmittedHeader(block, search, n, nonce)
                coinbase == _build_coinbase_for_template(block, pack_be(n))
            IN  /\ header[2] = Reverse(Tmpl[block].prev)
                /\ header[3] = merkle_root(<<coinbase>> \o Tmpl[block].txs)

SameButTime(t, u) == [Tmpl[t] EXCEPT !.curtime = Tmpl[u].curtime] = Tmpl[u]

(* The two ways to a header agree in every field: the block of a find has  *)
(* the header that was searched, if the templates that came in since       *)
(* differ from that of the job in nothing but their time.  (With other     *)
(* transactions the block is another: submit() takes the newest.)          *)
BlockIsAsSearched ==
    block # none /\ SameButTime(block, search) =>
        \A n \in Extranonces, nonce \in Nonces :
            SubmittedHeader(block, search, n, nonce) = SearchedHeader(search, n, nonce)

Idle == \A t \in Threads : at[t] \notin {"call", "template", "job"}

(* Between polls the job is of the newest template's block, as long as     *)
(* /restart has not left a second reader behind: the two are written under *)
(* different locks, and a slow reader could install an older pair half.    *)
JobAndTemplateAgree ==
    restarts = 0 /\ Idle /\ job # none => job_id(job) = job_id(last)

(* Once bitcoind stays on a block and answers, the job comes to be of that *)
(* block, whatever readers are around.                                     *)
JobFollowsNode ==
    \A t \in Templates :
        <>[](node # none /\ job_id(node) = job_id(t) /\ ~stop)
            => <>[](job # none /\ job_id(job) = job_id(t))

(* After a stop the supervisor and every reader end, those left behind by  *)
(* /restart too.                                                           *)
StopEndsSolo == stop ~> (sup = "ended" /\ \A t \in Threads : at[t] = "gone")

(* CLAIM of solo.py:467 "guaranteed unique between templates" and of       *)
(* solo.py:327-328 "updates current_job if the template changed": violated *)
(* where hashes of blocks begin with 16 zero digits, as on mainnet.        *)
JobIsOfTip ==
    restarts = 0 /\ Idle /\ job # none => Tmpl[job].prev = Tmpl[last].prev

(* CLAIM of solo.py:482, the client makes a job "compatible with mine()",  *)
(* with the empty string as extranonce1 (484): violated, mine() waits for  *)
(* one that is not empty.                                                  *)
SoloIsMined == <>[](node # none /\ ~stop) => <>(search # none)
=============================================================================
