-------------------------------- MODULE Pipe ---------------------------------
(***************************************************************************)
(* One pipe of src/src/kernel/fs/pipe.c with the mutex and condition       *)
(* variables of mutex.c, used by writer tasks (pipe_write) and reader      *)
(* tasks (pipe_read), or by the kernel's stdout task (stdout_handler of    *)
(* stdio_handler.c) as the reader.                                         *)
(*                                                                         *)
(* Everything between mutex_acquire(pipe->mutex) and the next release or   *)
(* condvar_wait is one step: nothing else touches the pipe without that    *)
(* mutex.  condvar_wait releases the mutex and blocks under task_lock, so  *)
(* no signal falls between the two; a woken task calls mutex_acquire as a  *)
(* step of its own.  condvar_signal wakes every task waiting on the key.   *)
(* Both ends stay open: pipe_close is reached only through file_close,     *)
(* which calls the close pointer it has just zeroed.  The condvars list is *)
(* a lookup by key and is abstracted to the waiters of each key.           *)
(***************************************************************************)
EXTENDS Integers, Sequences, FiniteSets, FiniteSetsExt

CONSTANTS
    Writers,     \* tasks calling pipe_write
    Readers,     \* tasks calling pipe_read
    Type,        \* pipe->type: "unbuf" or "bufchar"
    HandlerLoop, \* the readers run stdout_handler's loop
    Cap,         \* pipe->size, the length of pipe->buffer
    PipeSz,      \* PIPE_SIZE
    Vals,        \* bytes
    Nul,         \* the byte '\0', in Vals
    MaxLen,      \* bytes per call
    MaxBytes     \* bound on the bytes written

Tasks == Writers \cup Readers

ASSUME /\ Writers \cap Readers = {}
       /\ Type \in {"unbuf", "bufchar"} /\ HandlerLoop \in BOOLEAN
       /\ HandlerLoop => Type = "bufchar"
       /\ Cap \in 1..PipeSz /\ Nul \in Vals

VARIABLES
    bw, br,    \* pipe->b_write, pipe->b_read
    buf,       \* the bytes at pipe->buffer[0 .. PIPE_SIZE - 1]
    sem,       \* pipe->mutex: [count, waiters]
    cv,        \* the tasks waiting on the condvar of &b_read ("r"), &b_write ("w")
    pc,
    after,     \* where a task goes once it holds the mutex
    req,       \* the bytes a writer has still to write
    want,      \* the size a reader asked for
    sent, got  \* every byte written, every byte read, in order

vars == <<bw, br, buf, sem, cv, pc, after, req, want, sent, got>>

BelowU32(c, n) == c >= 0 /\ c < n

Init ==
    /\ bw = 0 /\ br = 0
    /\ buf \in [0..PipeSz-1 -> Vals]
    /\ sem = [count |-> 0, waiters |-> <<>>]
    /\ cv = [k \in {"r", "w"} |-> {}]
    /\ pc = [t \in Tasks |-> "idle"]
    /\ after = [t \in Tasks |-> "idle"]
    /\ req = [t \in Tasks |-> <<>>]
    /\ want = [t \in Tasks |-> 0]
    /\ sent = <<>> /\ got = <<>>

\* semaphore_acquire: take the mutex and go on to `next`, or queue.
Acquire(t, next) ==
    IF BelowU32(sem.count, 1)
    THEN /\ sem' = [sem EXCEPT !.count = @ + 1]
         /\ pc' = [pc EXCEPT ![t] = next]
         /\ UNCHANGED after
    ELSE /\ sem' = [sem EXCEPT !.waiters = Append(@, t)]
         /\ pc' = [pc EXCEPT ![t] = "mutex"]
         /\ after' = [after EXCEPT ![t] = next]

\* A release that counts down even when it hands the mutex over.
RelSemDrop(s) == [s EXCEPT !.count = @ - 1,
                           !.waiters = IF @ = <<>> THEN @ ELSE Tail(@)]

\* semaphore_release: hand the mutex to the first waiter, which goes on
\* where it queued, or decrement the count.
RelSem(s) == IF s.waiters = <<>> THEN [s EXCEPT !.count = @ - 1]
             ELSE [s EXCEPT !.waiters = Tail(@)]
RelPc(s, p) == IF s.waiters = <<>> THEN p
               ELSE [p EXCEPT ![Head(s.waiters)] = after[Head(s.waiters)]]

\* condvar_signal(key) on pc p: every waiter is unblocked.
Signal(p, key) == [u \in Tasks |-> IF u \in cv[key] THEN "woken" ELSE p[u]]

\* A full test that lets one more byte in than PIPE_SIZE.
RoomOverfill == PipeSz - (bw - br) + 1

\* pipe_unbuf_write's full test: the bytes it may add before b_write
\* equals b_read + PIPE_SIZE.
Room == PipeSz - (bw - br)

\* The bytes a reader finds, from b_read on, read at b_read % pipe->size.
Avail == [j \in 1..(bw - br) |-> buf[(br + j - 1) % Cap]]

\* How many bytes pipe_unbuf_read (up to size) or pipe_bufchar_read (up to
\* and including the first '\0') copies.
CopyLen(t) ==
    IF Type = "unbuf" THEN Min({want[t], bw - br})
    ELSE IF \E j \in DOMAIN Avail : Avail[j] = Nul
         THEN Min({j \in DOMAIN Avail : Avail[j] = Nul})
         ELSE bw - br

-----------------------------------------------------------------------------
\* pipe_write: mutex_acquire(pipe->mutex).
WStart(t, d) ==
    /\ t \in Writers /\ pc[t] = "idle"
    /\ Len(sent) + MapThenSumSet(LAMBDA u : Len(req[u]), Writers) + Len(d) <= MaxBytes
    /\ req' = [req EXCEPT ![t] = d]
    /\ Acquire(t, "wloop")
    /\ UNCHANGED <<bw, br, buf, cv, want, sent, got>>

\* pipe_unbuf_write's loop until the pipe holds PIPE_SIZE bytes, at
\* buffer[b_write % PIPE_SIZE]; then, if bytes remain, condvar_signal(&b_read)
\* and condvar_wait(&b_write); if none remain, pipe_write's
\* condvar_signal(&b_read) and mutex_release.  read_open is 1.
WLoop(t) ==
    LET k    == Min({Len(req[t]), Room})
        rest == SubSeq(req[t], k + 1, Len(req[t]))
        p1   == RelPc(sem, Signal(pc, "r"))
    IN  /\ pc[t] = "wloop"
        /\ buf' = [i \in 0..PipeSz-1 |->
                     LET j == ((i - bw) % PipeSz) + 1 IN IF j <= k THEN req[t][j] ELSE buf[i]]
        /\ bw' = bw + k
        /\ sent' = sent \o SubSeq(req[t], 1, k)
        /\ req' = [req EXCEPT ![t] = rest]
        /\ sem' = RelSem(sem)
        /\ IF rest = <<>>
           THEN /\ pc' = [p1 EXCEPT ![t] = "idle"]
                /\ cv' = [cv EXCEPT !["r"] = {}]
                /\ UNCHANGED after
           ELSE /\ pc' = [p1 EXCEPT ![t] = "cv"]
                /\ cv' = [cv EXCEPT !["r"] = {}, !["w"] = @ \cup {t}]
                /\ after' = [after EXCEPT ![t] = "wloop"]
        /\ UNCHANGED <<br, want, got>>

\* pipe_read: mutex_acquire(pipe->mutex).
RStart(t, n) ==
    /\ t \in Readers /\ pc[t] = "idle"
    /\ want' = [want EXCEPT ![t] = n]
    /\ Acquire(t, "rtest")
    /\ UNCHANGED <<bw, br, buf, cv, req, sent, got>>

\* The copy of pipe_unbuf_read or pipe_bufchar_read, then pipe_read's
\* condvar_signal(&b_write) and mutex_release.  stdout_handler goes on to
\* print and take the mutex again.
Copy(t) ==
    LET k == CopyLen(t)
    IN  /\ br' = br + k
        /\ got' = got \o SubSeq(Avail, 1, k)
        /\ sem' = RelSem(sem)
        /\ pc' = [RelPc(sem, Signal(pc, "w")) EXCEPT
                     ![t] = IF HandlerLoop THEN "print" ELSE "idle"]
        /\ cv' = [cv EXCEPT !["w"] = {}]
        /\ UNCHANGED <<bw, buf, after, req, want, sent>>

\* The reader's test, write_open being 1: on an empty pipe
\* condvar_wait(&b_read), which goes on to the copy without a second test.
RTest(t) ==
    /\ pc[t] = "rtest"
    /\ \/ /\ br = bw
          /\ cv' = [cv EXCEPT !["r"] = @ \cup {t}]
          /\ after' = [after EXCEPT ![t] = "rcopy"]
          /\ sem' = RelSem(sem)
          /\ pc' = [RelPc(sem, pc) EXCEPT ![t] = "cv"]
          /\ UNCHANGED <<bw, br, buf, req, want, sent, got>>
       \/ /\ br # bw
          /\ Copy(t)

\* The copy after condvar_wait returned with the mutex.
RCopy(t) ==
    /\ pc[t] = "rcopy"
    /\ Copy(t)

\* stdout_handler, after printing: mutex_acquire(pipe->mutex).
HAcquire(t) ==
    /\ pc[t] = "print"
    /\ Acquire(t, "hwait")
    /\ UNCHANGED <<bw, br, buf, cv, req, want, sent, got>>

\* stdout_handler: condvar_wait(&b_read), whatever the pipe holds.
HWait(t) ==
    /\ pc[t] = "hwait"
    /\ cv' = [cv EXCEPT !["r"] = @ \cup {t}]
    /\ after' = [after EXCEPT ![t] = "hrel"]
    /\ sem' = RelSem(sem)
    /\ pc' = [RelPc(sem, pc) EXCEPT ![t] = "cv"]
    /\ UNCHANGED <<bw, br, buf, req, want, sent, got>>

\* stdout_handler: mutex_release, back to file_read.
HRelease(t) ==
    /\ pc[t] = "hrel"
    /\ sem' = RelSem(sem)
    /\ pc' = [RelPc(sem, pc) EXCEPT ![t] = "idle"]
    /\ UNCHANGED <<bw, br, buf, cv, after, req, want, sent, got>>

\* A task unblocked by condvar_signal runs again: mutex_acquire.
Reacquire(t) ==
    /\ pc[t] = "woken"
    /\ Acquire(t, after[t])
    /\ UNCHANGED <<bw, br, buf, cv, req, want, sent, got>>

\* The bytes a pipe_write call may carry.
Writes == UNION {[1..n -> Vals] : n \in 1..MaxLen}

\* The sizes readers ask for; stdout_handler passes '\0' as the size.
ReadSizes == IF Type = "unbuf" THEN 1..MaxLen ELSE {0}

Next ==
    \E t \in Tasks :
        \/ \E d \in Writes : WStart(t, d)
        \/ WLoop(t)
        \/ \E n \in ReadSizes : RStart(t, n)
        \/ RTest(t) \/ RCopy(t)
        \/ HAcquire(t) \/ HWait(t) \/ HRelease(t)
        \/ Reacquire(t)

Spec == Init /\ [][Next]_vars

-----------------------------------------------------------------------------
TypeOK ==
    /\ bw \in 0..MaxBytes /\ br \in 0..bw /\ bw - br <= PipeSz
    /\ buf \in [0..PipeSz-1 -> Vals]
    /\ sem.count \in {0, 1} /\ sem.waiters \in Seq(Tasks)
    /\ pc \in [Tasks -> {"idle", "mutex", "cv", "woken", "wloop", "rtest",
                          "rcopy", "print", "hwait", "hrel"}]

\* Readers receive the bytes writers wrote, in order, none lost or made up:
\* pipe_unbuf_write's full test and pipe_read's copy keep b_read and
\* b_write within PIPE_SIZE of each other across every wait and wake-up.
FifoDelivery == got = SubSeq(sent, 1, Len(got))

\* A reader sleeps on &b_read only while the pipe is empty: every write
\* that puts bytes in the pipe signals &b_read before the writer lets the
\* mutex go.
ReaderWaitsOnEmpty == \A t \in Readers : t \in cv["r"] => br = bw

\* A writer asleep on a full pipe has a reader that is not itself asleep
\* on &b_read, so that something will drain the pipe and signal &b_write;
\* otherwise the writer and the readers wait on each other.
WriterHasDrainer ==
    (\E t \in Writers : t \in cv["w"]) => \E t \in Readers : t \notin cv["r"]
=============================================================================
