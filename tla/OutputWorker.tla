---------------------------- MODULE OutputWorker ----------------------------
(* A claimed pad's feedback: OutputWorker (source/usb) over OutputMailbox   *)
(* (core/input), Seqlock and WorkerWake (core/thread).  Receive threads and *)
(* the GUI post the newest value of a kind; the worker's own thread takes   *)
(* every pending kind with the newest state and writes it to the pad,       *)
(* sleeping on a semaphore in between.  Every atomic access that another    *)
(* thread can tell apart is a step.                                         *)
(*                                                                          *)
(* The state is a row of atomic words; a kind's value covers one or more of *)
(* them, so a reader can see half of it, and a word holds parts of several  *)
(* kinds (the light bar's bytes lie in two words, one of them rumble's).  A *)
(* word is, for every kind, the version of the value its part belongs to.   *)
(* Accesses are taken as sequentially consistent: what the x86-64 build     *)
(* gives them, the relaxed load of pending_ included (it follows a locked   *)
(* store of sleeping_).                                                     *)
EXTENDS Integers, Sequences

CONSTANTS
  Producers,     \* threads that post
  Kinds,         \* rumble, light bar, trigger effects, player LEDs, mic lamp
  WordCount,     \* AtomicWords<OutputState>::kWords
  WordsOf,       \* the words a kind's value covers
  MaxPosts       \* bound: posts altogether

Words == 1 .. WordCount
Blank == [w \in Words |-> [k \in Kinds |-> 0]]

ASSUME WordAssumption == WordCount \in Nat \ {0}
ASSUME KindAssumption == WordsOf \in [Kinds -> (SUBSET Words) \ {{}}]
ASSUME PostAssumption == MaxPosts \in Nat
ASSUME ProducerAssumption == "free" \notin Producers /\ "stop" \notin Producers

VARIABLES
  writer,        \* writer_: the producer that holds the flag, or "free"
  gen,           \* seq_'s generation; its wrap after 2^31 posts is not modelled
  state,         \* state_: per word, a version per kind
  pending,       \* pending_
  sleeping,      \* wake_.sleeping_
  tokens,        \* wake_.wake_, the semaphore
  stopping,      \* stopping_
  post,          \* per producer, and for stop(): where it is in its call
  worker,        \* where run() is, and what it took
  latest,        \* per kind: the newest version posted and flagged pending
  tried,         \* per kind: the version last handed to the pad's writer
  posts          \* posts begun

vars == <<writer, gen, state, pending, sleeping, tokens, stopping, post, worker,
          latest, tried, posts>>

Idle == [pc |-> "idle", kind |-> "none", next |-> Blank, word |-> 1]
Start == [pc |-> "check", kinds |-> {}, before |-> 0, copy |-> Blank, word |-> 1]

Init ==
  /\ writer = "free" /\ gen = 0 /\ pending = {} /\ posts = 0
  /\ state = Blank
  /\ sleeping = FALSE /\ tokens = 0 /\ stopping = FALSE
  /\ post = [p \in Producers \cup {"stop"} |-> Idle]
  /\ worker = Start
  /\ latest = [k \in Kinds |-> 0] /\ tried = [k \in Kinds |-> 0]

----------------------------------------------------------------------------
(* OutputMailbox::post.  Only producers can tell the flag taken from the    *)
(* write begun, or the kind flagged from the flag freed, and they just wait *)
(* in between, so each pair is one step.                                    *)
Step(p, pc) == post' = [post EXCEPT ![p].pc = pc]

TakesFlag(p) == writer = "free"

EditedBlank(k) ==                    \* mutant: the edit starts from an empty state
  [w \in Words |-> IF w \in WordsOf[k] THEN [Blank[w] EXCEPT ![k] = state[w][k] + 1] ELSE Blank[w]]
Edited(k) ==
  [w \in Words |-> IF w \in WordsOf[k] THEN [state[w] EXCEPT ![k] = @ + 1] ELSE state[w]]

BeginWrite(p) ==
  /\ post[p].pc = "idle" /\ posts < MaxPosts /\ TakesFlag(p)
  /\ writer' = p /\ posts' = posts + 1 /\ gen' = gen + 1
  /\ \E k \in Kinds :
       post' = [post EXCEPT ![p] = [pc |-> "store", kind |-> k, next |-> Edited(k), word |-> 1]]
  /\ UNCHANGED <<state, pending, sleeping, tokens, stopping, worker, latest, tried>>

StoreWord(p) ==
  /\ post[p].pc = "store"
  /\ LET w == post[p].word
     IN /\ state' = [state EXCEPT ![w] = post[p].next[w]]
        /\ post' = [post EXCEPT ![p] = [@ EXCEPT !.word = w + 1,
                        !.pc = IF w = WordCount THEN "end" ELSE "store"]]
  /\ UNCHANGED <<writer, gen, pending, sleeping, tokens, stopping, worker, latest, tried, posts>>

EndWrite(p) ==
  /\ post[p].pc = "end"
  /\ gen' = gen + 1 /\ Step(p, "flag")
  /\ UNCHANGED <<writer, state, pending, sleeping, tokens, stopping, worker, latest, tried, posts>>

SetPending(p) ==
  /\ post[p].pc = "flag"
  /\ LET k == post[p].kind
     IN /\ pending' = pending \cup {k}
        /\ latest' = [latest EXCEPT ![k] = post[p].next[CHOOSE w \in WordsOf[k] : TRUE][k]]
  /\ writer' = "free" /\ post' = [post EXCEPT ![p] = [Idle EXCEPT !.pc = "notify"]]
  /\ UNCHANGED <<gen, state, sleeping, tokens, stopping, worker, tried, posts>>

(* WorkerWake::notify, after a post and in stop: the load, the exchange.    *)
NotifyLoad(p) ==
  /\ post[p].pc = "notify"
  /\ Step(p, IF sleeping THEN "exchange" ELSE "idle")
  /\ UNCHANGED <<writer, gen, state, pending, sleeping, tokens, stopping, worker, latest, tried,
                 posts>>

NotifyExchange(p) ==
  /\ post[p].pc = "exchange"
  /\ tokens' = IF sleeping THEN tokens + 1 ELSE tokens
  /\ sleeping' = FALSE /\ Step(p, "idle")
  /\ UNCHANGED <<writer, gen, state, pending, stopping, worker, latest, tried, posts>>

Post(p) ==
  BeginWrite(p) \/ StoreWord(p) \/ EndWrite(p) \/ SetPending(p) \/ NotifyLoad(p)
    \/ NotifyExchange(p)

(* OutputWorker::stop, up to the join.                                      *)
Stop ==
  /\ ~stopping /\ stopping' = TRUE
  /\ Step("stop", "notify")
  /\ UNCHANGED <<writer, gen, state, pending, sleeping, tokens, worker, latest, tried, posts>>

----------------------------------------------------------------------------
(* OutputWorker::run.                                                       *)
Goto(pc) == worker' = [worker EXCEPT !.pc = pc]

Check ==
  /\ worker.pc = "check"
  /\ Goto(IF stopping THEN "done" ELSE "announce")
  /\ UNCHANGED <<writer, gen, state, pending, sleeping, tokens, stopping, post, latest, tried,
                 posts>>

(* WorkerWake::sleepUnless: announce, look once more, sleep.                *)
Announce ==
  /\ worker.pc = "announce"
  /\ sleeping' = TRUE /\ Goto("look")
  /\ UNCHANGED <<writer, gen, state, pending, tokens, stopping, post, latest, tried, posts>>

HasPosts == pending # {}             \* mutant: stop is not a reason to stay awake
HasWork == stopping \/ pending # {}

Look ==
  /\ worker.pc = "look"
  /\ Goto(IF HasWork THEN "awake" ELSE "asleep")
  /\ UNCHANGED <<writer, gen, state, pending, sleeping, tokens, stopping, post, latest, tried,
                 posts>>

Acquire ==
  /\ worker.pc = "asleep" /\ tokens > 0
  /\ tokens' = tokens - 1 /\ Goto("awake")
  /\ UNCHANGED <<writer, gen, state, pending, sleeping, stopping, post, latest, tried, posts>>

Awake ==
  /\ worker.pc = "awake"
  /\ sleeping' = FALSE /\ Goto("take")
  /\ UNCHANGED <<writer, gen, state, pending, tokens, stopping, post, latest, tried, posts>>

(* OutputMailbox::take: exchange pending, then Seqlock::read.               *)
TakePending ==
  /\ worker.pc = "take"
  /\ pending' = {}
  /\ worker' = [Start EXCEPT !.kinds = pending,
                             !.pc = IF pending = {} THEN "check" ELSE "read"]
  /\ UNCHANGED <<writer, gen, state, sleeping, tokens, stopping, post, latest, tried, posts>>

ReadGeneration ==
  /\ worker.pc = "read"
  /\ worker' = [worker EXCEPT !.before = gen,
                              !.pc = IF gen % 2 = 1 THEN "restore" ELSE "copy"]
  /\ UNCHANGED <<writer, gen, state, pending, sleeping, tokens, stopping, post, latest, tried,
                 posts>>

CopyWord ==
  /\ worker.pc = "copy"
  /\ LET w == worker.word
     IN worker' = [worker EXCEPT !.copy[w] = state[w], !.word = w + 1,
                                 !.pc = IF w = WordCount THEN "confirm" ELSE "copy"]
  /\ UNCHANGED <<writer, gen, state, pending, sleeping, tokens, stopping, post, latest, tried,
                 posts>>

Unconfirmed == TRUE                  \* mutant: the closing load of the generation is left out
Confirmed == gen = worker.before

Confirm ==
  /\ worker.pc = "confirm"
  /\ Goto(IF Confirmed THEN "write" ELSE "restore")
  /\ UNCHANGED <<writer, gen, state, pending, sleeping, tokens, stopping, post, latest, tried,
                 posts>>

KindsDropped == pending              \* mutant: what a failed read took is lost
KindsRestored == pending \cup worker.kinds

Restore ==
  /\ worker.pc = "restore"
  /\ pending' = KindsRestored /\ worker' = Start
  /\ UNCHANGED <<writer, gen, state, sleeping, tokens, stopping, post, latest, tried, posts>>

(* writeTaken: one report per kind.  A write the pad refuses is counted and *)
(* not repeated, so what is recorded is that the version was tried.         *)
ValueOf(k) == worker.copy[CHOOSE w \in WordsOf[k] : TRUE][k]

WriteTaken ==
  /\ worker.pc = "write"
  /\ tried' = [k \in Kinds |-> IF k \in worker.kinds THEN ValueOf(k) ELSE tried[k]]
  /\ worker' = Start
  /\ UNCHANGED <<writer, gen, state, pending, sleeping, tokens, stopping, post, latest, posts>>

Run ==
  Check \/ Announce \/ Look \/ Acquire \/ Awake \/ TakePending \/ ReadGeneration \/ CopyWord
    \/ Confirm \/ Restore \/ WriteTaken

Next ==
  \/ \E p \in Producers : Post(p)
  \/ Stop \/ NotifyLoad("stop") \/ NotifyExchange("stop")
  \/ Run

Spec == Init /\ [][Next]_vars

(* Threads are scheduled; a producer that finds the flag free often enough  *)
(* gets it.  Nobody has to post or to stop.                                 *)
Fairness ==
  /\ WF_vars(Run)
  /\ \A p \in Producers : WF_vars(Post(p) /\ post[p].pc # "idle")
  /\ WF_vars(NotifyLoad("stop") \/ NotifyExchange("stop"))

FairSpec == Spec /\ Fairness

----------------------------------------------------------------------------
(* Every variable keeps its type, and the generation is odd exactly while a *)
(* producer is storing words, which takes producers that take turns.        *)
TypeOK ==
  /\ writer \in Producers \cup {"free"}
  /\ gen \in Nat /\ (gen % 2 = 1) = (\E p \in Producers : post[p].pc \in {"store", "end"})
  /\ state \in [Words -> [Kinds -> Nat]] /\ pending \subseteq Kinds
  /\ sleeping \in BOOLEAN /\ tokens \in Nat /\ stopping \in BOOLEAN
  /\ latest \in [Kinds -> Nat] /\ tried \in [Kinds -> Nat] /\ posts \in 0 .. MaxPosts
  /\ worker.kinds \subseteq Kinds /\ worker.copy \in [Words -> [Kinds -> Nat]]

(* Seqlock: everything a confirmed read copied belongs to one write.  So    *)
(* the pad is never handed a value whose halves come from two posts.  With  *)
(* the types, and a generation that is odd only during a write.             *)
PadGetsWholeValues ==
  /\ TypeOK
  /\ worker.pc = "write" =>
       \A k \in worker.kinds : \A v, w \in WordsOf[k] : worker.copy[v][k] = worker.copy[w][k]

(* A burst collapses to its last value, never to an earlier one: what the   *)
(* pad is handed is at least as new as what it was handed before.           *)
NeverBackwards == [][\A k \in Kinds : tried'[k] >= tried[k]]_vars

(* WorkerWake: one of producer and worker always sees the other.  So no     *)
(* post is slept through or lost to a write it raced: the pad is handed it, *)
(* or something newer, unless the claim is stopped first.                   *)
NewestReachesPad ==
  \A k \in Kinds : (tried[k] < latest[k]) ~> (tried[k] >= latest[k] \/ stopping)

(* stop joins the worker: it never sleeps through the request.              *)
StopReturns == stopping ~> (worker.pc = "done")

============================================================================
