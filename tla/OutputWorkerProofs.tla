------------------------- MODULE OutputWorkerProofs -------------------------
(* What OutputWorker's seqlock promises, for any number of producers, kinds *)
(* and words and any layout of the kinds over the words: a confirmed copy   *)
(* belongs to one write, and what the pad is handed never gets older.       *)
(*                                                                          *)
(* The invariant ties the reader's copy to the generation: as long as the   *)
(* generation is the (even) one the reader began with, nobody has stored a  *)
(* word since, so what was copied so far is what the state holds.           *)
EXTENDS OutputWorker, TLAPS

States == [Words -> [Kinds -> Nat]]
Threads == Producers \cup {"stop"}
PostRecords == [pc : {"idle", "store", "end", "flag", "notify", "exchange"},
                kind : Kinds \cup {"none"}, next : States, word : Nat]
WorkerRecords == [pc : {"check", "announce", "look", "asleep", "awake", "take", "read",
                        "copy", "confirm", "restore", "write", "done"},
                  kinds : SUBSET Kinds, before : Nat, copy : States, word : Nat]

(* The words of every kind's value come from one post.                      *)
Whole(f) == \A k \in Kinds : \A v, w \in WordsOf[k] : f[v][k] = f[w][k]

Writing == {"store", "end", "flag"}

(* The types, of the records too.                                           *)
Types ==
  /\ writer \in Producers \cup {"free"} /\ gen \in Nat
  /\ state \in States /\ pending \in SUBSET Kinds
  /\ sleeping \in BOOLEAN /\ tokens \in Nat /\ stopping \in BOOLEAN
  /\ post \in [Threads -> PostRecords] /\ worker \in WorkerRecords
  /\ latest \in [Kinds -> Nat] /\ tried \in [Kinds -> Nat] /\ posts \in 0 .. MaxPosts

(* The flag is held by the one producer that is writing; stop() posts       *)
(* nothing.                                                                 *)
FlagHeld ==
  /\ \A p \in Producers : (post[p].pc \in Writing) <=> (writer = p)
  /\ post["stop"].pc \notin Writing

Storing == \E p \in Producers : post[p].pc \in {"store", "end"}

(* A generation is odd exactly while words are stored.                      *)
Parity == (gen % 2 = 1) <=> Storing

(* What a writer is about to publish is whole and nowhere older than the    *)
(* state; what it has stored is there.                                      *)
Writers ==
  \A p \in Producers : post[p].pc \in Writing =>
    /\ post[p].kind \in Kinds /\ Whole(post[p].next)
    /\ post[p].pc = "store" =>
         /\ post[p].word \in Words
         /\ \A w \in Words :
              /\ \A k \in Kinds : state[w][k] <= post[p].next[w][k]
              /\ w < post[p].word => state[w] = post[p].next[w]
    /\ post[p].pc # "store" => state = post[p].next

(* Between writes the state is whole.                                       *)
Settled == ~Storing => Whole(state)

(* What the reader has copied under an unchanged generation is the state.   *)
Reader ==
  /\ worker.pc = "read" => worker.word = 1
  /\ worker.pc \in {"copy", "confirm"} =>
       /\ worker.before % 2 = 0 /\ worker.before <= gen
       /\ gen = worker.before =>
            \A w \in Words : w < worker.word => worker.copy[w] = state[w]
  /\ worker.pc = "copy" => worker.word \in Words
  /\ worker.pc \in {"confirm", "write"} => worker.word = WordCount + 1
  /\ worker.pc = "write" => Whole(worker.copy)

(* What was handed to the pad is no newer than the state, and what is being *)
(* copied lies between the two.                                             *)
Ages ==
  \A k \in Kinds : \A w \in WordsOf[k] :
    /\ tried[k] <= state[w][k]
    /\ worker.pc \in {"copy", "confirm", "write"} /\ w < worker.word =>
         tried[k] <= worker.copy[w][k] /\ worker.copy[w][k] <= state[w][k]

SeqlockInv == Types /\ FlagHeld /\ Parity /\ Writers /\ Settled /\ Reader /\ Ages

----------------------------------------------------------------------------
(* A row of words with one word replaced is a row of words.                 *)
LEMMA WordReplaced ==
  ASSUME NEW f \in States, NEW w \in Words, NEW v \in [Kinds -> Nat]
  PROVE  [f EXCEPT ![w] = v] \in States
  BY DEF States

(* A thread's record with another place in the call is a thread's record.   *)
LEMMA PostMoved ==
  ASSUME NEW f \in [Threads -> PostRecords], NEW p \in Threads,
         NEW pc \in {"idle", "store", "end", "flag", "notify", "exchange"}
  PROVE  /\ [f EXCEPT ![p].pc = pc] \in [Threads -> PostRecords]
         /\ [f EXCEPT ![p].pc = pc][p] = [f[p] EXCEPT !.pc = pc]
         /\ \A q \in Threads \ {p} : [f EXCEPT ![p].pc = pc][q] = f[q]
  BY DEF PostRecords

(* The same for the worker's record.                                        *)
LEMMA WorkerMoved ==
  ASSUME NEW r \in WorkerRecords,
         NEW pc \in {"check", "announce", "look", "asleep", "awake", "take", "read",
                     "copy", "confirm", "restore", "write", "done"}
  PROVE  [r EXCEPT !.pc = pc] \in WorkerRecords
  BY DEF WorkerRecords

(* The blank records of a thread and of the worker are records.             *)
LEMMA Blanks ==
  /\ Blank \in States /\ Idle \in PostRecords
  /\ Start \in WorkerRecords /\ Start.pc = "check" /\ Idle.pc = "idle"
  <1>1. Blank \in States
    BY DEF Blank, States
  <1>. QED
    BY <1>1 DEF Idle, Start, PostRecords, WorkerRecords

(* Init establishes the invariant.                                          *)
LEMMA InitSeqlock == Init => SeqlockInv
  <1>. SUFFICES ASSUME Init PROVE SeqlockInv
    OBVIOUS
  <1>0. \A p \in Threads : post[p] = Idle
    BY DEF Init, Threads
  <1>1. Types
    <2>1. sleeping \in BOOLEAN /\ stopping \in BOOLEAN
      BY Zenon DEF Init
    <2>2. post \in [Threads -> PostRecords] /\ worker \in WorkerRecords /\ state \in States
      BY Blanks DEF Init, Threads
    <2>. QED
      BY <2>1, <2>2, PostAssumption DEF Init, Types
  <1>2. FlagHeld /\ ~Storing /\ Writers
    BY <1>0, Blanks, ProducerAssumption
       DEF Init, FlagHeld, Storing, Writers, Writing, Threads
  <1>3. Whole(state)
    BY KindAssumption DEF Init, Whole, Blank
  <1>4. Reader
    BY Blanks DEF Init, Reader
  <1>5. Ages
    BY Blanks, KindAssumption DEF Init, Ages, Blank
  <1>6. Parity
    BY <1>2 DEF Init, Parity
  <1>. QED
    BY <1>1, <1>2, <1>3, <1>4, <1>5, <1>6 DEF SeqlockInv, Settled

----------------------------------------------------------------------------
(* OutputMailbox::post, step by step.                                       *)

(* The edit bumps the versions of one kind, in all the words it covers.     *)
LEMMA EditIsWhole ==
  ASSUME state \in States, Whole(state), NEW k \in Kinds
  PROVE  /\ Edited(k) \in States /\ Whole(Edited(k))
         /\ \A w \in Words : \A j \in Kinds : state[w][j] <= Edited(k)[w][j]
  <1>1. \A w \in Words : \A j \in Kinds :
          /\ Edited(k)[w] \in [Kinds -> Nat]
          /\ Edited(k)[w][j] = IF w \in WordsOf[k] /\ j = k THEN state[w][j] + 1 ELSE state[w][j]
    BY DEF Edited, States
  <1>2. Edited(k) \in States
    BY <1>1 DEF Edited, States
  <1>3. Whole(Edited(k))
    BY <1>1, KindAssumption DEF Whole
  <1>4. \A w \in Words : \A j \in Kinds : state[w][j] <= Edited(k)[w][j]
    BY <1>1 DEF States
  <1>. QED
    BY <1>2, <1>3, <1>4

(* The flag is taken and the generation becomes odd: no reader that began   *)
(* before will be confirmed.                                                *)
LEMMA BeginWriteSeqlock ==
  ASSUME SeqlockInv, NEW p \in Producers, BeginWrite(p)
  PROVE  SeqlockInv'
  <1>. USE DEF SeqlockInv
  <1>1. PICK k \in Kinds :
          post' = [post EXCEPT ![p] = [pc |-> "store", kind |-> k, next |-> Edited(k), word |-> 1]]
    BY Zenon DEF BeginWrite
  <1>2. /\ writer = "free" /\ writer' = p /\ gen' = gen + 1
        /\ posts < MaxPosts /\ posts' = posts + 1
        /\ UNCHANGED <<state, pending, sleeping, tokens, stopping, worker, latest, tried>>
    BY DEF BeginWrite, TakesFlag
  <1>3. ~Storing /\ Whole(state)
    BY <1>2, ProducerAssumption DEF FlagHeld, Storing, Writing, Settled
  <1>4. /\ Edited(k) \in States /\ Whole(Edited(k))
        /\ \A w \in Words : \A j \in Kinds : state[w][j] <= Edited(k)[w][j]
    BY <1>3, EditIsWhole DEF Types
  <1>5. /\ post \in [Threads -> PostRecords] /\ p \in Threads /\ p # "stop"
        /\ post' \in [Threads -> PostRecords]
    BY <1>1, <1>4, ProducerAssumption DEF Types, Threads, PostRecords
  <1>6. /\ post'[p] = [pc |-> "store", kind |-> k, next |-> Edited(k), word |-> 1]
        /\ \A q \in Threads \ {p} : post'[q] = post[q]
    BY <1>1, <1>5
  <1>7. Types'
    BY <1>2, <1>5, PostAssumption DEF Types
  <1>8. FlagHeld'
    BY <1>2, <1>5, <1>6, ProducerAssumption DEF FlagHeld, Writing, Threads
  <1>9. Storing' /\ gen' % 2 = 1
    <2>1. gen \in Nat /\ ~(gen % 2 = 1)
      BY <1>3 DEF Parity, Types
    <2>2. gen' % 2 = 1
      BY <2>1, <1>2
    <2>3. Storing'
      BY <1>6 DEF Storing
    <2>. QED
      BY <2>2, <2>3
  <1>10. Writers'
    <2>. SUFFICES ASSUME NEW q \in Producers, post'[q].pc \in Writing
         PROVE q = p
      BY <1>2, <1>4, <1>6, WordAssumption DEF Writers, Whole, Words
    <2>. QED
      BY <1>2, <1>8 DEF FlagHeld
  <1>11. Reader'
    BY <1>2 DEF Reader, Whole, Types, WorkerRecords
  <1>12. Ages'
    BY <1>2 DEF Ages
  <1>. QED
    BY <1>7, <1>8, <1>9, <1>10, <1>11, <1>12 DEF Parity, Settled

(* A word is stored while the generation is odd, so no reader's is it.      *)
LEMMA StoreWordSeqlock ==
  ASSUME SeqlockInv, NEW p \in Producers, StoreWord(p)
  PROVE  SeqlockInv'
  <1>. USE DEF SeqlockInv
  <1>. DEFINE w == post[p].word
              pc == IF w = WordCount THEN "end" ELSE "store"
              next == post[p].next
  <1>1. /\ post[p].pc = "store" /\ state' = [state EXCEPT ![w] = next[w]]
        /\ post' = [post EXCEPT ![p] = [@ EXCEPT !.word = w + 1, !.pc = pc]]
        /\ UNCHANGED <<writer, gen, pending, sleeping, tokens, stopping, worker, latest, tried,
                       posts>>
    BY DEF StoreWord
  <1>2. /\ post \in [Threads -> PostRecords] /\ p \in Threads /\ p # "stop"
        /\ next \in States /\ state \in States /\ w \in Words /\ post[p].kind \in Kinds
        /\ Whole(next)
    BY <1>1, ProducerAssumption DEF Types, Threads, PostRecords, Writers, Writing
  <1>3. /\ \A v \in Words : \A k \in Kinds : state[v][k] \in Nat /\ next[v][k] \in Nat
        /\ \A v \in Words : \A k \in Kinds : state[v][k] <= next[v][k]
        /\ \A v \in Words : v < w => state[v] = next[v]
    BY <1>1, <1>2 DEF Writers, States, Writing
  <1>4. /\ post' \in [Threads -> PostRecords]
        /\ post'[p] = [post[p] EXCEPT !.word = w + 1, !.pc = pc]
        /\ \A q \in Threads \ {p} : post'[q] = post[q]
    <2>1. w + 1 \in Nat /\ pc \in {"idle", "store", "end", "flag", "notify", "exchange"}
      BY <1>2, WordAssumption DEF Words
    <2>2. [post[p] EXCEPT !.word = w + 1, !.pc = pc] \in PostRecords
      <3>. HIDE DEF w, pc
      <3>. QED
        BY <2>1, <1>2, Zenon DEF PostRecords
    <2>. QED
      BY <2>2, <1>1, <1>2
  <1>5. /\ post'[p].pc = pc /\ post'[p].word = w + 1 /\ post'[p].next = next
        /\ post'[p].kind = post[p].kind
    BY <1>2, <1>4 DEF PostRecords
  <1>6. /\ state' \in States
        /\ \A v \in Words : state'[v] = IF v = w THEN next[w] ELSE state[v]
    BY <1>1, <1>2 DEF States
  <1>7. \A v \in Words : \A k \in Kinds :
          state[v][k] <= state'[v][k] /\ state'[v][k] <= next[v][k]
    BY <1>3, <1>6
  <1>8. Types'
    BY <1>1, <1>4, <1>6 DEF Types
  <1>9. FlagHeld'
    BY <1>1, <1>2, <1>4, <1>5 DEF FlagHeld, Writing, Threads
  <1>10. Storing /\ Storing'
    BY <1>1, <1>5 DEF Storing
  <1>11. Writers'
    <2>1. ASSUME NEW q \in Producers, post'[q].pc \in Writing PROVE q = p
      <3>1. writer' = q /\ writer' = p
        BY <2>1, <1>5, <1>9 DEF FlagHeld, Writing
      <3>. QED
        BY <3>1
    <2>2. pc = "store" =>
            /\ w + 1 \in Words
            /\ \A v \in Words : v < w + 1 => state'[v] = next[v]
      BY <1>2, <1>3, <1>6, WordAssumption DEF Words
    <2>3. pc # "store" => state' = next
      <3>1. SUFFICES ASSUME w = WordCount PROVE \A v \in Words : state'[v] = next[v]
        BY <1>2, <1>6 DEF States
      <3>. QED
        BY <3>1, <1>2, <1>3, <1>6, WordAssumption DEF Words
    <2>. QED
      BY <2>1, <2>2, <2>3, <1>2, <1>5, <1>7 DEF Writers, Writing, Whole
  <1>12. Reader'
    <2>1. gen % 2 = 1
      BY <1>10 DEF Parity
    <2>2. worker.pc \in {"copy", "confirm"} => gen # worker.before
      BY <2>1 DEF Reader
    <2>. QED
      BY <1>1, <2>2 DEF Reader, Whole
  <1>13. Ages'
    <2>. SUFFICES ASSUME NEW k \in Kinds, NEW v \in WordsOf[k]
         PROVE /\ tried[k] <= state'[v][k]
               /\ worker.pc \in {"copy", "confirm", "write"} /\ v < worker.word =>
                    tried[k] <= worker.copy[v][k] /\ worker.copy[v][k] <= state'[v][k]
      BY <1>1 DEF Ages
    <2>1. v \in Words
      BY KindAssumption
    <2>2. /\ state[v][k] <= state'[v][k] /\ state[v][k] \in Nat /\ state'[v][k] \in Nat
          /\ tried[k] \in Nat /\ worker.copy[v][k] \in Nat
      BY <2>1, <1>2, <1>6, <1>7 DEF Types, WorkerRecords, States
    <2>. QED
      BY <2>2 DEF Ages
  <1>. QED
    BY <1>1, <1>8, <1>9, <1>10, <1>11, <1>12, <1>13 DEF Parity, Settled

(* The generation becomes even, and is past that of every reader.           *)
LEMMA EndWriteSeqlock ==
  ASSUME SeqlockInv, NEW p \in Producers, EndWrite(p)
  PROVE  SeqlockInv'
  <1>. USE DEF SeqlockInv
  <1>1. /\ post[p].pc = "end" /\ gen' = gen + 1 /\ post' = [post EXCEPT ![p].pc = "flag"]
        /\ UNCHANGED <<writer, state, pending, sleeping, tokens, stopping, worker, latest, tried,
                       posts>>
    BY DEF EndWrite, Step
  <1>2. post \in [Threads -> PostRecords] /\ p \in Threads /\ p # "stop"
    BY ProducerAssumption DEF Types, Threads
  <1>3. /\ post' \in [Threads -> PostRecords] /\ post'[p] = [post[p] EXCEPT !.pc = "flag"]
        /\ \A q \in Threads \ {p} : post'[q] = post[q]
    BY <1>1, <1>2, PostMoved, Zenon
  <1>4. /\ post'[p].pc = "flag" /\ post'[p].next = post[p].next
        /\ post'[p].kind = post[p].kind
    BY <1>2, <1>3 DEF PostRecords
  <1>5. Types'
    BY <1>1, <1>3 DEF Types
  <1>6. FlagHeld'
    BY <1>1, <1>2, <1>3, <1>4 DEF FlagHeld, Writing, Threads
  <1>7. /\ post[p].kind \in Kinds /\ Whole(post[p].next) /\ state = post[p].next
    BY <1>1 DEF Writers, Writing
  <1>8. \A q \in Producers : post'[q].pc \in Writing => q = p
    <2>. SUFFICES ASSUME NEW q \in Producers, post'[q].pc \in Writing PROVE q = p
      OBVIOUS
    <2>1. writer' = q /\ writer' = p
      BY <1>4, <1>6 DEF FlagHeld, Writing
    <2>. QED
      BY <2>1
  <1>9. Writers' /\ ~Storing' /\ Whole(state)'
    BY <1>1, <1>4, <1>7, <1>8 DEF Writers, Storing, Writing, Whole
  <1>10. gen \in Nat /\ gen % 2 = 1
    BY <1>1 DEF Types, Parity, Storing
  <1>11. ~(gen' % 2 = 1)
    BY <1>1, <1>10
  <1>12. Reader'
    BY <1>1, <1>10 DEF Reader, Whole, Types, WorkerRecords
  <1>13. Ages'
    BY <1>1 DEF Ages
  <1>. QED
    BY <1>5, <1>6, <1>9, <1>11, <1>12, <1>13 DEF Parity, Settled

(* The kind is flagged and the producers' flag freed.                       *)
LEMMA SetPendingSeqlock ==
  ASSUME SeqlockInv, NEW p \in Producers, SetPending(p)
  PROVE  SeqlockInv'
  <1>. USE DEF SeqlockInv
  <1>. DEFINE k == post[p].kind
              done == [Idle EXCEPT !.pc = "notify"]
              word == CHOOSE w \in WordsOf[k] : TRUE
  <1>1. /\ post[p].pc = "flag" /\ pending' = pending \cup {k}
        /\ latest' = [latest EXCEPT ![k] = post[p].next[word][k]]
        /\ writer' = "free" /\ post' = [post EXCEPT ![p] = done]
        /\ UNCHANGED <<gen, state, sleeping, tokens, stopping, worker, tried, posts>>
    BY DEF SetPending
  <1>2. /\ post \in [Threads -> PostRecords] /\ p \in Threads /\ p # "stop"
        /\ k \in Kinds /\ post[p].next \in States /\ writer = p
    BY <1>1, ProducerAssumption DEF Types, Threads, PostRecords, Writers, FlagHeld, Writing
  <1>3. done \in PostRecords /\ done.pc = "notify"
    BY Blanks DEF PostRecords
  <1>4. /\ post' \in [Threads -> PostRecords] /\ post'[p] = done
        /\ \A q \in Threads \ {p} : post'[q] = post[q]
    BY <1>1, <1>2, <1>3
  <1>5. post[p].next[word][k] \in Nat
    <2>1. word \in Words
      BY <1>2, KindAssumption
    <2>. QED
      BY <2>1, <1>2, Zenon DEF States
  <1>6. Types'
    BY <1>1, <1>2, <1>4, <1>5 DEF Types
  <1>7. \A q \in Producers : post'[q].pc \notin Writing /\ (q # p => post[q].pc \notin Writing)
    BY <1>2, <1>3, <1>4, Zenon DEF FlagHeld, Writing, Threads
  <1>8. FlagHeld' /\ Writers'
    BY <1>1, <1>2, <1>4, <1>7, ProducerAssumption DEF FlagHeld, Writers, Threads
  <1>9. ~Storing /\ ~Storing'
    BY <1>1, <1>7 DEF Storing, Writing
  <1>10. Parity' /\ Settled'
    BY <1>1, <1>9 DEF Parity, Settled, Whole
  <1>11. Reader' /\ Ages'
    BY <1>1 DEF Reader, Ages, Whole
  <1>. QED
    BY <1>6, <1>8, <1>10, <1>11

(* A step of notify, or of stop: nothing the seqlock guards is touched.     *)
LEMMA NotifySeqlock ==
  ASSUME SeqlockInv, NEW p \in Threads, post[p].pc \notin Writing,
         NEW pc \in {"idle", "notify", "exchange"}, post' = [post EXCEPT ![p].pc = pc],
         tokens' \in Nat, sleeping' \in BOOLEAN, stopping' \in BOOLEAN,
         UNCHANGED <<writer, gen, state, pending, worker, latest, tried, posts>>
  PROVE  SeqlockInv'
  <1>1. post \in [Threads -> PostRecords]
    BY DEF SeqlockInv, Types
  <1>2. /\ post' \in [Threads -> PostRecords] /\ post'[p] = [post[p] EXCEPT !.pc = pc]
        /\ \A q \in Threads \ {p} : post'[q] = post[q]
    <2>1. pc \in {"idle", "store", "end", "flag", "notify", "exchange"}
      OBVIOUS
    <2>. QED
      BY <1>1, <2>1, PostMoved, Zenon
  <1>. USE DEF SeqlockInv
  <1>3. post'[p].pc = pc
    BY <1>1, <1>2 DEF PostRecords
  <1>4. \A q \in Threads : /\ post'[q].pc \in Writing <=> post[q].pc \in Writing
                           /\ post'[q].pc \in Writing => post'[q] = post[q]
    BY <1>2, <1>3 DEF Writing
  <1>5. Producers \subseteq Threads /\ "stop" \in Threads
    BY DEF Threads
  <1>6. Types'
    BY <1>2 DEF Types
  <1>7. FlagHeld'
    BY <1>4, <1>5 DEF FlagHeld
  <1>8. Storing' <=> Storing
    BY <1>4, <1>5 DEF Storing, Writing
  <1>9. Writers'
    BY <1>4, <1>5 DEF Writers, Whole
  <1>10. Parity' /\ Settled' /\ Reader' /\ Ages'
    BY <1>8 DEF Parity, Settled, Reader, Ages, Whole
  <1>. QED
    BY <1>6, <1>7, <1>9, <1>10

----------------------------------------------------------------------------
(* OutputWorker::run, step by step.                                         *)

(* A step of the worker alone keeps what is said of the writers.            *)
LEMMA WorkerSeqlock ==
  ASSUME SeqlockInv, worker' \in WorkerRecords, Reader', Ages',
         pending' \in SUBSET Kinds, tokens' \in Nat, sleeping' \in BOOLEAN,
         tried' \in [Kinds -> Nat],
         UNCHANGED <<writer, gen, state, stopping, post, latest, posts>>
  PROVE  SeqlockInv'
  BY DEF SeqlockInv, Types, FlagHeld, Parity, Storing, Writers, Settled, Whole

(* A worker that is not reading claims nothing of its copy.                 *)
LEMMA NotReading ==
  ASSUME SeqlockInv, worker'.pc \notin {"read", "copy", "confirm", "write"},
         UNCHANGED <<gen, state, tried>>
  PROVE  Reader' /\ Ages'
  BY DEF SeqlockInv, Reader, Ages

(* The steps between two reads.                                             *)
LEMMA SleepSeqlock ==
  ASSUME SeqlockInv, Check \/ Announce \/ Look \/ Acquire \/ Awake
  PROVE  SeqlockInv'
  <1>1. PICK pc \in {"done", "announce", "look", "awake", "asleep", "take"} :
          worker' = [worker EXCEPT !.pc = pc]
    BY DEF Check, Announce, Look, Acquire, Awake, Goto
  <1>2. worker \in WorkerRecords /\ tokens \in Nat /\ sleeping \in BOOLEAN
    BY DEF SeqlockInv, Types
  <1>3. worker' \in WorkerRecords
    BY <1>1, <1>2, WorkerMoved, Zenon
  <1>4. worker'.pc = pc
    BY <1>1, <1>2 DEF WorkerRecords
  <1>5. UNCHANGED <<writer, gen, state, pending, stopping, post, latest, tried, posts>>
    BY DEF Check, Announce, Look, Acquire, Awake
  <1>6. tokens' \in Nat
    BY <1>2 DEF Check, Announce, Look, Acquire, Awake
  <1>7. sleeping' \in BOOLEAN
    BY <1>2, Zenon DEF Check, Announce, Look, Acquire, Awake
  <1>8. Reader' /\ Ages'
    BY <1>4, <1>5, NotReading
  <1>. QED
    BY <1>3, <1>5, <1>6, <1>7, <1>8, WorkerSeqlock DEF SeqlockInv, Types

(* OutputMailbox::take's exchange, and a restore after a failed read.       *)
LEMMA TakeSeqlock ==
  ASSUME SeqlockInv, TakePending \/ Restore
  PROVE  SeqlockInv'
  <1>1. UNCHANGED <<writer, gen, state, sleeping, tokens, stopping, post, latest, tried, posts>>
    BY DEF TakePending, Restore
  <1>2. worker \in WorkerRecords /\ pending \in SUBSET Kinds /\ worker.kinds \in SUBSET Kinds
    BY DEF SeqlockInv, Types, WorkerRecords
  <1>3. /\ worker' \in WorkerRecords /\ pending' \in SUBSET Kinds
        /\ worker'.pc \in {"check", "read"} /\ worker'.word = 1
    <2>1. CASE TakePending
      <3>. DEFINE pc == IF pending = {} THEN "check" ELSE "read"
      <3>1. worker' = [Start EXCEPT !.kinds = pending, !.pc = pc] /\ pending' = {}
        BY <2>1 DEF TakePending
      <3>2. pc \in {"check", "read"}
        OBVIOUS
      <3>. HIDE DEF pc
      <3>. QED
        BY <3>1, <3>2, <1>2, Blanks, Zenon DEF Start, WorkerRecords
    <2>2. CASE Restore
      BY <2>2, <1>2, Blanks DEF Restore, Start, KindsRestored
    <2>. QED
      BY <2>1, <2>2
  <1>4. Reader' /\ Ages'
    BY <1>1, <1>3 DEF SeqlockInv, Reader, Ages
  <1>. QED
    BY <1>1, <1>3, <1>4, WorkerSeqlock DEF SeqlockInv, Types

(* Seqlock::read begins: nothing is copied yet.                             *)
LEMMA ReadGenerationSeqlock ==
  ASSUME SeqlockInv, ReadGeneration
  PROVE  SeqlockInv'
  <1>. DEFINE pc == IF gen % 2 = 1 THEN "restore" ELSE "copy"
  <1>1. /\ worker.pc = "read" /\ worker' = [worker EXCEPT !.before = gen, !.pc = pc]
        /\ UNCHANGED <<writer, gen, state, pending, sleeping, tokens, stopping, post, latest,
                       tried, posts>>
    BY DEF ReadGeneration
  <1>2. worker \in WorkerRecords /\ gen \in Nat /\ worker.word = 1
    BY <1>1 DEF SeqlockInv, Types, Reader
  <1>3. /\ worker' \in WorkerRecords /\ worker'.pc = pc /\ worker'.before = gen
        /\ worker'.word = 1
    BY <1>1, <1>2, Zenon DEF WorkerRecords
  <1>4. pc = "copy" => gen % 2 = 0
    BY <1>2
  <1>5. Reader'
    BY <1>1, <1>2, <1>3, <1>4, WordAssumption DEF Reader, Words
  <1>6. Ages'
    BY <1>1, <1>3, KindAssumption DEF Ages, SeqlockInv, Words
  <1>. QED
    BY <1>1, <1>3, <1>5, <1>6, WorkerSeqlock DEF SeqlockInv, Types

(* One more word is copied.                                                 *)
LEMMA CopyWordSeqlock ==
  ASSUME SeqlockInv, CopyWord
  PROVE  SeqlockInv'
  <1>. DEFINE w == worker.word
              pc == IF w = WordCount THEN "confirm" ELSE "copy"
              copy == [worker.copy EXCEPT ![w] = state[w]]
  <1>1. /\ worker.pc = "copy"
        /\ worker' = [worker EXCEPT !.copy[w] = state[w], !.word = w + 1, !.pc = pc]
        /\ UNCHANGED <<writer, gen, state, pending, sleeping, tokens, stopping, post, latest,
                       tried, posts>>
    BY DEF CopyWord
  <1>2. /\ worker \in WorkerRecords /\ gen \in Nat /\ state \in States /\ w \in Words
        /\ worker.copy \in States /\ tried \in [Kinds -> Nat]
    BY <1>1 DEF SeqlockInv, Types, Reader, WorkerRecords
  <1>3. copy \in States /\ \A v \in Words : copy[v] = IF v = w THEN state[w] ELSE worker.copy[v]
    BY <1>2 DEF States
  <1>4. /\ worker' \in WorkerRecords /\ worker'.pc = pc /\ worker'.before = worker.before
        /\ worker'.word = w + 1 /\ worker'.copy = copy
    <2>1. w + 1 \in Nat /\ pc \in {"confirm", "copy"} /\ state[w] \in [Kinds -> Nat]
      BY <1>2, WordAssumption DEF Words, States
    <2>2. worker' = [worker EXCEPT !.copy = copy, !.word = w + 1, !.pc = pc]
      BY <1>1, <1>2 DEF WorkerRecords
    <2>. HIDE DEF w, pc, copy
    <2>. QED
      BY <2>1, <2>2, <1>2, <1>3, Zenon DEF WorkerRecords
  <1>5. Reader'
    BY <1>1, <1>2, <1>3, <1>4, WordAssumption DEF SeqlockInv, Reader, Words
  <1>6. Ages'
    <2>. SUFFICES ASSUME NEW k \in Kinds, NEW v \in WordsOf[k]
         PROVE /\ tried[k] <= state[v][k]
               /\ v < w + 1 => tried[k] <= copy[v][k] /\ copy[v][k] <= state[v][k]
      BY <1>1, <1>4 DEF Ages
    <2>1. v \in Words /\ state[v][k] \in Nat
      BY <1>2, KindAssumption DEF States
    <2>2. /\ tried[k] <= state[v][k]
          /\ v < w => tried[k] <= worker.copy[v][k] /\ worker.copy[v][k] <= state[v][k]
      BY <1>1 DEF SeqlockInv, Ages
    <2>3. v < w + 1 => v < w \/ v = w
      BY <2>1, <1>2 DEF Words
    <2>. QED
      BY <2>1, <2>2, <2>3, <1>3
  <1>. QED
    BY <1>1, <1>4, <1>5, <1>6, WorkerSeqlock DEF SeqlockInv, Types

(* The generation is still the one the read began with, so nobody is        *)
(* storing, the state is whole and the copy is the state.                   *)
LEMMA ConfirmSeqlock ==
  ASSUME SeqlockInv, Confirm
  PROVE  SeqlockInv'
  <1>. DEFINE pc == IF Confirmed THEN "write" ELSE "restore"
  <1>1. /\ worker.pc = "confirm" /\ worker' = [worker EXCEPT !.pc = pc]
        /\ UNCHANGED <<writer, gen, state, pending, sleeping, tokens, stopping, post, latest,
                       tried, posts>>
    BY DEF Confirm, Goto
  <1>2. /\ worker \in WorkerRecords /\ worker.copy \in States /\ state \in States
        /\ worker.word = WordCount + 1 /\ worker.before % 2 = 0
    BY <1>1 DEF SeqlockInv, Types, Reader, WorkerRecords
  <1>3. /\ worker' \in WorkerRecords /\ worker'.pc = pc /\ worker'.word = worker.word
        /\ worker'.copy = worker.copy
    BY <1>1, <1>2 DEF WorkerRecords
  <1>4. ASSUME Confirmed PROVE Whole(worker.copy)
    <2>1. gen = worker.before /\ ~Storing
      BY <1>2, <1>4 DEF Confirmed, SeqlockInv, Parity
    <2>2. Whole(state)
      BY <2>1 DEF SeqlockInv, Settled
    <2>3. \A w \in Words : worker.copy[w] = state[w]
      BY <2>1, <1>1, <1>2, WordAssumption DEF SeqlockInv, Reader, Words
    <2>. QED
      BY <2>2, <2>3, KindAssumption DEF Whole
  <1>5. Reader'
    BY <1>2, <1>3, <1>4 DEF Reader, Whole
  <1>6. Ages'
    BY <1>1, <1>3 DEF SeqlockInv, Ages
  <1>. QED
    BY <1>1, <1>3, <1>5, <1>6, WorkerSeqlock DEF SeqlockInv, Types

(* What is handed to the pad is between what was handed and the state.      *)
LEMMA HandedIsNewer ==
  ASSUME SeqlockInv, WriteTaken, NEW k \in Kinds
  PROVE  /\ tried[k] \in Nat /\ tried'[k] \in Nat /\ tried[k] <= tried'[k]
         /\ \A w \in WordsOf[k] : tried'[k] <= state[w][k]
  <1>1. /\ worker.pc = "write" /\ worker.copy \in States /\ tried \in [Kinds -> Nat]
        /\ Whole(worker.copy) /\ worker.word = WordCount + 1
    BY DEF WriteTaken, SeqlockInv, Types, WorkerRecords, Reader
  <1>2. tried'[k] = IF k \in worker.kinds THEN ValueOf(k) ELSE tried[k]
    BY DEF WriteTaken
  <1>3. PICK v \in WordsOf[k] : ValueOf(k) = worker.copy[v][k]
    BY KindAssumption, Zenon DEF ValueOf
  <1>4. WordsOf[k] \subseteq Words
    BY KindAssumption
  <1>5. ValueOf(k) \in Nat
    BY <1>1, <1>3, <1>4 DEF States
  <1>6. \A w \in WordsOf[k] : /\ w < worker.word /\ worker.copy[w][k] = ValueOf(k)
                              /\ tried[k] <= worker.copy[w][k]
                              /\ worker.copy[w][k] <= state[w][k] /\ tried[k] <= state[w][k]
    <2>. TAKE w \in WordsOf[k]
    <2>1. w < worker.word
      BY <1>1, <1>4, WordAssumption DEF Words
    <2>2. worker.copy[w][k] = ValueOf(k)
      BY <1>1, <1>3 DEF Whole
    <2>. QED
      BY <2>1, <2>2, <1>1 DEF SeqlockInv, Ages
  <1>. QED
    BY <1>1, <1>2, <1>3, <1>5, <1>6

(* writeTaken: what was handed becomes what was tried.                      *)
LEMMA WriteTakenSeqlock ==
  ASSUME SeqlockInv, WriteTaken
  PROVE  SeqlockInv'
  <1>1. /\ worker' = Start
        /\ tried' = [k \in Kinds |-> IF k \in worker.kinds THEN ValueOf(k) ELSE tried[k]]
        /\ UNCHANGED <<writer, gen, state, pending, sleeping, tokens, stopping, post, latest,
                       posts>>
    BY DEF WriteTaken
  <1>2. worker' \in WorkerRecords /\ worker'.pc = "check"
    BY <1>1, Blanks
  <1>3. tried' \in [Kinds -> Nat]
    <2>1. \A k \in Kinds : tried'[k] \in Nat
      BY HandedIsNewer
    <2>. QED
      BY <2>1, <1>1
  <1>4. Reader'
    BY <1>2 DEF Reader
  <1>5. Ages'
    BY <1>1, <1>2, HandedIsNewer DEF Ages
  <1>. QED
    BY <1>1, <1>2, <1>3, <1>4, <1>5, WorkerSeqlock DEF SeqlockInv, Types

----------------------------------------------------------------------------
(* Every step preserves the invariant.                                      *)
LEMMA NextSeqlock == SeqlockInv /\ [Next]_vars => SeqlockInv'
  <1>. SUFFICES ASSUME SeqlockInv, [Next]_vars PROVE SeqlockInv'
    OBVIOUS
  <1>. DEFINE Notifies(p) == NotifyLoad(p) \/ NotifyExchange(p)
  <1>1. ASSUME NEW p \in Threads, Notifies(p) PROVE SeqlockInv'
    <2>1. post[p].pc \notin Writing
      BY <1>1 DEF NotifyLoad, NotifyExchange, Writing
    <2>2. PICK pc \in {"idle", "exchange"} : post' = [post EXCEPT ![p].pc = pc]
      BY <1>1 DEF NotifyLoad, NotifyExchange, Step
    <2>3. tokens' \in Nat
      BY <1>1 DEF NotifyLoad, NotifyExchange, SeqlockInv, Types
    <2>4. sleeping' \in BOOLEAN /\ stopping' \in BOOLEAN
      <3>1. sleeping \in BOOLEAN /\ stopping \in BOOLEAN
        BY DEF SeqlockInv, Types
      <3>. QED
        BY <1>1, <3>1, Zenon DEF NotifyLoad, NotifyExchange
    <2>5. UNCHANGED <<writer, gen, state, pending, worker, latest, tried, posts>>
      BY <1>1 DEF NotifyLoad, NotifyExchange
    <2>. QED
      BY <2>1, <2>2, <2>3, <2>4, <2>5, NotifySeqlock, Zenon
  <1>2. CASE Stop
    <2>1. /\ "stop" \in Threads /\ post["stop"].pc \notin Writing
          /\ post' = [post EXCEPT !["stop"].pc = "notify"]
          /\ tokens' \in Nat
          /\ UNCHANGED <<writer, gen, state, pending, worker, latest, tried, posts>>
      BY <1>2 DEF Stop, Step, SeqlockInv, FlagHeld, Threads, Types
    <2>2. sleeping' \in BOOLEAN /\ stopping' \in BOOLEAN
      <3>1. sleeping \in BOOLEAN
        BY DEF SeqlockInv, Types
      <3>. QED
        BY <1>2, <3>1, Zenon DEF Stop
    <2>. QED
      BY <2>1, <2>2, NotifySeqlock, Zenon
  <1>3. ASSUME NEW p \in Producers, Post(p) PROVE SeqlockInv'
    <2>1. p \in Threads
      BY DEF Threads
    <2>. QED
      BY <1>1, <1>3, <2>1, BeginWriteSeqlock, StoreWordSeqlock, EndWriteSeqlock, SetPendingSeqlock
         DEF Post
  <1>4. CASE Run
    BY <1>4, SleepSeqlock, TakeSeqlock, ReadGenerationSeqlock, CopyWordSeqlock, ConfirmSeqlock,
       WriteTakenSeqlock DEF Run
  <1>5. CASE UNCHANGED vars
    <2>1. Types' /\ FlagHeld' /\ Parity'
      BY <1>5 DEF vars, SeqlockInv, Types, FlagHeld, Parity, Storing
    <2>2. Writers' /\ Settled'
      BY <1>5 DEF vars, SeqlockInv, Writers, Settled, Storing
    <2>3. Reader' /\ Ages'
      BY <1>5 DEF vars, SeqlockInv, Reader, Ages, Whole
    <2>. QED
      BY <2>1, <2>2, <2>3 DEF SeqlockInv
  <1>6. "stop" \in Threads
    BY DEF Threads
  <1>. QED
    BY <1>1, <1>2, <1>3, <1>4, <1>5, <1>6 DEF Next

(* The seqlock's invariant holds throughout.                                *)
THEOREM SeqlockHolds == Spec => []SeqlockInv
  BY InitSeqlock, NextSeqlock, PTL DEF Spec

(* Seqlock::read confirms a copy only when all its words belong to one      *)
(* write, so no kind reaches the pad in halves of two posts.                *)
THEOREM CopiesAreWhole == Spec => []PadGetsWholeValues
  <1>1. SeqlockInv => PadGetsWholeValues
    <2>. SUFFICES ASSUME SeqlockInv PROVE PadGetsWholeValues
      OBVIOUS
    <2>1. worker.kinds \subseteq Kinds /\ worker.copy \in [Words -> [Kinds -> Nat]]
      BY DEF SeqlockInv, Types, WorkerRecords, States
    <2>2. (gen % 2 = 1) = Storing
      BY Zenon DEF SeqlockInv, Parity, Storing
    <2>3. TypeOK
      BY <2>1, <2>2, Zenon DEF SeqlockInv, Types, TypeOK, Storing, States
    <2>4. worker.pc = "write" => Whole(worker.copy)
      BY DEF SeqlockInv, Reader
    <2>. QED
      BY <2>1, <2>3, <2>4 DEF PadGetsWholeValues, Whole
  <1>. QED
    BY <1>1, SeqlockHolds, PTL

(* OutputMailbox: a burst collapses to its newest value.  What writeTaken   *)
(* hands to the pad is never older than what it handed before.              *)
THEOREM HandedNeverAges == Spec => NeverBackwards
  <1>1. SeqlockInv /\ [Next]_vars => [\A k \in Kinds : tried'[k] >= tried[k]]_vars
    <2>. SUFFICES ASSUME SeqlockInv, Next, NEW k \in Kinds PROVE tried'[k] >= tried[k]
      BY DEF vars
    <2>1. CASE WriteTaken
      BY <2>1, HandedIsNewer
    <2>2. CASE ~WriteTaken
      <3>1. tried' = tried
        BY <2>2, Zenon DEF Next, Post, BeginWrite, StoreWord, EndWrite, SetPending, NotifyLoad,
           NotifyExchange, Stop, Run, Check, Announce, Look, Acquire, Awake, TakePending,
           ReadGeneration, CopyWord, Confirm, Restore
      <3>. QED
        BY <3>1 DEF SeqlockInv, Types
    <2>. QED
      BY <2>1, <2>2
  <1>. QED
    BY <1>1, SeqlockHolds, PTL DEF Spec, NeverBackwards

============================================================================
