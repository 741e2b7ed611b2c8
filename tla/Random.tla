------------------------------- MODULE Random -------------------------------
(* Random numbers over threads and forks: utils/s2n_random.c,               *)
(* utils/s2n_fork_detection.c, crypto/s2n_drbg.c and the parts of           *)
(* utils/s2n_init.c that set them up and take them down.                    *)
(*                                                                          *)
(* Every thread has its own pair of generators and the fork generation      *)
(* number they were seeded under; the number, its read-write lock and a     *)
(* sentinel byte that a fork clears are global to a process and are         *)
(* inherited, as they stand, by its children.  The random bits are          *)
(* abstracted to their origin: which process seeded the generator, and      *)
(* whether from a source of entropy.  The bits that s2n_drbg_generate mixes *)
(* in come on top of that, and nothing here relies on them.                 *)
(*                                                                          *)
(* After a fork, parent and child share nothing that the code uses, so the  *)
(* module follows one line of descent: a fork goes on in the child, and a   *)
(* behaviour that does not take the step goes on in the parent.             *)
EXTENDS Naturals, FiniteSets

CONSTANTS
  MaxForks,    \* bound: forks in the line of descent
  Threads,     \* names of the threads of a process
  Main,        \* the thread a program starts with
  Platforms,   \* what the kernel, the libc and the CPU offer
  MaxCalls,    \* bound: calls for random data and of s2n_init, and threads started
  MaxEvents,   \* bound: other operations of the applications
  MaxUInt      \* UINT64_MAX, a smaller power of two less one

\* A platform: does the kernel clear the page of the sentinel (MADV_WIPEONFORK,
\* MAP_INHERIT_ZERO)?  Does the libc run the handlers of pthread_atfork?  Does
\* the CPU have RDRAND?  And a bound the applications give to
\* s2n_public_random, an int64_t.
ASSUME RandomAssumption ==
  /\ MaxForks \in Nat /\ Main \in Threads
  /\ MaxCalls \in Nat /\ MaxEvents \in Nat /\ MaxUInt \in Nat
  /\ \A f \in Platforms :
       /\ f \in [wipe : BOOLEAN, atfork : BOOLEAN, rdrand : BOOLEAN, bound : 1 .. MaxUInt \div 2]
       /\ f.wipe \/ f.atfork

VARIABLES
  platform,
  pid,      \* the process: 1, its child 2, ...
  process,  \* the global variables of the library
  thread,   \* [Threads -> its call and its thread-local variables]
  calls,    \* calls so far, in the line of descent
  events    \* other operations so far

vars == << platform, pid, process, thread, calls, events >>

-----------------------------------------------------------------------------
(* State.                                                                   *)

S2N_FORK_EVENT == 0
S2N_NO_FORK_EVENT == 1

\* struct FGN_STATE, static initialiser.  The rwlock is its number of readers
\* and whether a writer has it; a child inherits both, and "orphaned" says that
\* the lock was held at the fork, by a thread that the child does not have.
\* "expected" is the number
\* that the process is to see: one more than at the fork it came from.
fgn_state ==
  [once |-> "not run", is_fork_detection_enabled |-> FALSE, handler |-> FALSE,
   current_fork_generation_number |-> 0, zero_on_fork |-> S2N_NO_FORK_EVENT,
   readers |-> 0, writer |-> FALSE, orphaned |-> FALSE, expected |-> 0]

\* The other globals: initialized, the callbacks, and s2n_dev_urandom.fd, by
\* what the number stands for in the process.  "access" tells whether
\* /dev/urandom can be opened.
InitialProcess ==
  [initialized |-> FALSE, callbacks |-> "default", mix |-> "urandom",
   fd |-> "uninitialized", access |-> TRUE, fgn |-> fgn_state]

\* struct s2n_drbg: is ctx allocated, which process seeded it (0: none), and
\* from a source of entropy?
WipedDrbg == [ctx |-> FALSE, seeded_by |-> 0, entropy |-> FALSE]

\* s2n_per_thread_rand_state, and the thread-specific value that makes the
\* destructor run.  "init_failed": s2n_init_drbgs once failed half way.
RandState ==
  [cached |-> 0, public |-> WipedDrbg, private |-> WipedDrbg,
   drbgs_initialized |-> FALSE, specific |-> FALSE, init_failed |-> FALSE]

\* A thread: where it is, in which call, what s2n_get_fork_generation_number
\* is called for and what it has read, and whether the last
\* call failed.
FreshThread ==
  [pc |-> "idle", call |-> "none", number_for |-> "none", number |-> 0,
   event |-> FALSE, failed |-> FALSE, rand |-> RandState]

NoThread == [FreshThread EXCEPT !.pc = "absent"]

Init ==
  /\ platform \in Platforms
  /\ pid = 1
  /\ process = InitialProcess
  /\ thread = [t \in Threads |-> IF t = Main THEN FreshThread ELSE NoThread]
  /\ calls = 0 /\ events = 0

\* The threads that are in a call of the library.
Busy == {t \in Threads : thread[t].pc \notin {"idle", "absent"}}

\* The application runs in thread t; s2n_init is not thread safe.
InApplication(t) ==
  /\ thread[t].pc = "idle"
  /\ \A u \in Threads : thread[u].call # "s2n_init"

CountCall == calls < MaxCalls /\ calls' = calls + 1 /\ UNCHANGED events
CountEvent == events < MaxEvents /\ events' = events + 1 /\ UNCHANGED calls

MayCall(t) == InApplication(t) /\ CountCall
MayAct(t) == InApplication(t) /\ CountEvent

Goes(t, th) == thread' = [thread EXCEPT ![t] = th]

-----------------------------------------------------------------------------
(* Sources of entropy.                                                      *)

\* s2n_rand_device_validate: the descriptor still is the device that was opened.
s2n_rand_device_validate(g) == g.fd = "device"

MutNotReopened(g) ==
  {[ok |-> g.fd = "device", entropy |-> g.fd = "device", fd |-> g.fd]}

\* s2n_rand_get_entropy_from_urandom: a descriptor that was closed or now
\* stands for another file is replaced; the process may have lost access to
\* the device.  Its outcomes: success, is it entropy, and the descriptor.
s2n_rand_get_entropy_from_urandom(g) ==
  IF g.fd = "uninitialized" THEN {[ok |-> FALSE, entropy |-> FALSE, fd |-> g.fd]}
  ELSE IF s2n_rand_device_validate(g) THEN {[ok |-> TRUE, entropy |-> TRUE, fd |-> g.fd]}
  ELSE {[ok |-> g.access, entropy |-> g.access, fd |-> IF g.access THEN "device" ELSE g.fd]}

\* A callback of the application delivers entropy or fails.
CustomEntropy(g) == {[ok |-> b, entropy |-> b, fd |-> g.fd] : b \in BOOLEAN}

\* s2n_get_seed_entropy calls s2n_rand_seed_cb.
s2n_get_seed_entropy(g) ==
  IF g.callbacks = "custom" THEN CustomEntropy(g) ELSE s2n_rand_get_entropy_from_urandom(g)

\* s2n_get_mix_entropy calls s2n_rand_mix_cb; RDRAND may fail ten times.
s2n_get_mix_entropy(g) ==
  IF g.callbacks = "custom" \/ g.mix = "rdrand" THEN CustomEntropy(g)
  ELSE s2n_rand_get_entropy_from_urandom(g)

-----------------------------------------------------------------------------
(* The end of a call.                                                       *)

Returns(th, ok) ==
  [th EXCEPT !.pc = "idle", !.call = "none", !.number_for = "none", !.number = 0,
             !.event = FALSE, !.failed = ~ok]

\* s2n_rand_cleanup_thread: both generators are wiped, and the destructor of
\* the thread is unset while the library is initialised.
s2n_rand_cleanup_thread(th, initialized) ==
  LET r == th.rand
  IN  [th EXCEPT !.rand = [r EXCEPT !.public = WipedDrbg, !.private = WipedDrbg,
                                    !.drbgs_initialized = FALSE,
                                    !.specific = r.specific /\ ~initialized]]

-----------------------------------------------------------------------------
(* Seeding.                                                                 *)

\* s2n_drbg_instantiate: a context with a zero key, then the seed.
s2n_drbg_instantiate(o) ==
  [ctx |-> TRUE, seeded_by |-> IF o.ok THEN pid ELSE 0, entropy |-> o.entropy]

\* s2n_init_drbgs, the public generator.
InstantiatePublic(t) ==
  LET th == thread[t]
  IN  /\ th.pc = "init_public"
      /\ \E o \in s2n_get_seed_entropy(process) :
           /\ process' = [process EXCEPT !.fd = o.fd]
           /\ LET r == [th.rand EXCEPT !.public = s2n_drbg_instantiate(o),
                                       !.init_failed = @ \/ ~o.ok]
              IN  Goes(t, IF o.ok THEN [th EXCEPT !.pc = "init_private", !.rand = r]
                                     ELSE Returns([th EXCEPT !.rand = r], FALSE))
      /\ UNCHANGED << platform, pid, calls, events >>

\* s2n_init_drbgs, the private generator, the destructor and the flag; then
\* s2n_ensure_initialized_drbgs asks for the generation number.
InstantiatePrivate(t) ==
  LET th == thread[t]
  IN  /\ th.pc = "init_private"
      /\ \E o \in s2n_get_seed_entropy(process) :
           /\ process' = [process EXCEPT !.fd = o.fd]
           /\ LET r == [th.rand EXCEPT !.private = s2n_drbg_instantiate(o),
                                       !.specific = @ \/ o.ok, !.drbgs_initialized = o.ok,
                                       !.init_failed = @ \/ ~o.ok]
              IN  Goes(t, IF o.ok THEN [th EXCEPT !.pc = "once", !.rand = r]
                                     ELSE Returns([th EXCEPT !.rand = r], FALSE))
      /\ UNCHANGED << platform, pid, calls, events >>

\* s2n_ensure_initialized_drbgs: the step after it depends on who called it.
EnsureInitializedDrbgs(th) ==
  IF th.rand.drbgs_initialized
  THEN IF th.call = "s2n_init" THEN [th EXCEPT !.pc = "finish_init"]
       ELSE [th EXCEPT !.pc = "once", !.number_for = "comparing"]
  ELSE [th EXCEPT !.pc = "init_public", !.number_for = "caching"]

-----------------------------------------------------------------------------
(* The fork generation number.                                              *)

\* s2n_initialise_fork_detection_methods, which pthread_once runs once in the
\* life of a program: the mapping or minherit fails, pthread_atfork fails, or
\* everything is set up, the handler before the address it writes to.
s2n_initialise_fork_detection_methods(f) ==
  LET ran == [f EXCEPT !.once = "run"]
  IN  { ran,
        [ran EXCEPT !.handler = platform.atfork, !.is_fork_detection_enabled = TRUE,
                    !.zero_on_fork = S2N_NO_FORK_EVENT] }

\* s2n_get_fork_generation_number, the initialisation.
Once(t) ==
  LET th == thread[t]
      f  == process.fgn
  IN  /\ th.pc = "once"
      /\ \E g \in IF f.once = "run" THEN {f} ELSE s2n_initialise_fork_detection_methods(f) :
           /\ process' = [process EXCEPT !.fgn = g]
           /\ Goes(t, IF g.is_fork_detection_enabled THEN [th EXCEPT !.pc = "rdlock"]
                                                        ELSE Returns(th, FALSE))
      /\ UNCHANGED << platform, pid, calls, events >>

\* The number is known: s2n_ensure_initialized_drbgs caches it;
\* s2n_ensure_uniqueness compares it, and seeds again when it has changed.
NumberReturned(th, number, initialized) ==
  IF th.number_for = "comparing"
  THEN IF number = th.rand.cached THEN [th EXCEPT !.pc = "generate"]
       ELSE [s2n_rand_cleanup_thread(th, initialized) EXCEPT
               !.pc = "init_public", !.number_for = "caching again"]
  ELSE LET cached == [th EXCEPT !.rand.cached = number]
       IN  IF th.call = "s2n_init" THEN [cached EXCEPT !.pc = "finish_init"]
           ELSE IF th.number_for = "caching again" THEN [cached EXCEPT !.pc = "generate"]
           ELSE [cached EXCEPT !.pc = "once", !.number_for = "comparing"]

\* The read lock; number and sentinel are read under it.
ReadLock(t) ==
  LET th == thread[t]
      f  == process.fgn
  IN  /\ th.pc = "rdlock" /\ ~f.writer
      /\ process' = [process EXCEPT !.fgn.readers = @ + 1]
      /\ Goes(t, [th EXCEPT !.pc = "rdunlock", !.number = f.current_fork_generation_number,
                               !.event = f.zero_on_fork = S2N_FORK_EVENT])
      /\ UNCHANGED << platform, pid, calls, events >>

\* No fork event: the number is returned.
ReadUnlock(t) ==
  LET th == thread[t]
  IN  /\ th.pc = "rdunlock"
      /\ process' = [process EXCEPT !.fgn.readers = @ - 1]
      /\ Goes(t, IF th.event THEN [th EXCEPT !.pc = "wrlock"]
                    ELSE NumberReturned(th, th.number, process.initialized))
      /\ UNCHANGED << platform, pid, calls, events >>

WriteLock(t) ==
  LET th == thread[t]
      f  == process.fgn
  IN  /\ th.pc = "wrlock" /\ ~f.writer /\ f.readers = 0
      /\ process' = [process EXCEPT !.fgn.writer = TRUE]
      /\ Goes(t, [th EXCEPT !.pc = "advance", !.number = f.current_fork_generation_number])
      /\ UNCHANGED << platform, pid, calls, events >>

MutAdvanceAgain(f) ==
  [f EXCEPT !.zero_on_fork = S2N_NO_FORK_EVENT,
            !.current_fork_generation_number = @ + 1]

MutSentinelOnly(f) == [f EXCEPT !.zero_on_fork = S2N_NO_FORK_EVENT]

\* The sentinel is looked at again: another thread may have reset it.
Advanced(f) ==
  IF f.zero_on_fork = S2N_FORK_EVENT
  THEN [f EXCEPT !.zero_on_fork = S2N_NO_FORK_EVENT,
                 !.current_fork_generation_number = @ + 1]
  ELSE f

\* The write lock is held: number and sentinel are updated, then it is released.
Advance(t) ==
  LET th == thread[t]
      f  == Advanced(process.fgn)
  IN  /\ th.pc = "advance"
      /\ process' = [process EXCEPT !.fgn = [f EXCEPT !.writer = FALSE]]
      /\ Goes(t, NumberReturned([th EXCEPT !.number = f.current_fork_generation_number],
                                   f.current_fork_generation_number, process.initialized))
      /\ UNCHANGED << platform, pid, calls, events >>

-----------------------------------------------------------------------------
(* Generating.                                                              *)

\* s2n_public_random keeps a number below the highest multiple of its bound.
Keeps(r, bound) == r < MaxUInt - (MaxUInt % bound)

\* The generator a call reads from.
Drbg(th) == IF th.call = "private" THEN th.rand.private ELSE th.rand.public

\* s2n_drbg_generate: entropy is mixed in, then the bits are returned.  A
\* number that s2n_public_random does not keep is drawn again.
Generate(t) ==
  LET th == thread[t]
  IN  /\ th.pc = "generate"
      /\ \E o \in s2n_get_mix_entropy(process) :
           /\ process' = [process EXCEPT !.fd = o.fd]
           /\ Goes(t, Returns(th, Drbg(th).ctx /\ o.ok))
      /\ UNCHANGED << platform, pid, calls, events >>

DrawAgain(t) ==
  LET th == thread[t]
  IN  /\ th.pc = "generate" /\ th.call = "public" /\ th.rand.public.ctx
      /\ \E r \in 0 .. MaxUInt : ~Keeps(r, platform.bound)
      /\ \E o \in s2n_get_mix_entropy(process) :
           /\ o.ok
           /\ process' = [process EXCEPT !.fd = o.fd]
           /\ Goes(t, EnsureInitializedDrbgs(th))
      /\ UNCHANGED << platform, pid, calls, events >>

\* s2n_get_public_random_data (for s2n_public_random, too) or
\* s2n_get_private_random_data is called, outside of FIPS mode, both through
\* s2n_get_custom_random_data.
GetRandomData(t) ==
  /\ MayCall(t)
  /\ \E call \in {"public", "private"} :
       Goes(t, EnsureInitializedDrbgs([thread[t] EXCEPT !.call = call, !.failed = FALSE]))
  /\ UNCHANGED << platform, pid, process >>

-----------------------------------------------------------------------------
(* Set up and take down.                                                    *)

\* s2n_rand_set_callbacks, before s2n_init.
s2n_rand_set_callbacks(t) ==
  /\ MayAct(t) /\ ~process.initialized /\ Busy = {}
  /\ process' = [process EXCEPT !.callbacks = "custom"]
  /\ UNCHANGED << platform, pid, thread >>

\* s2n_rand_init_cb_impl opens the device and prefers RDRAND; a custom callback
\* succeeds or fails.
s2n_rand_init_cb(g) ==
  IF g.callbacks = "custom" THEN {[ok |-> b, g |-> g] : b \in BOOLEAN}
  ELSE IF ~g.access THEN {[ok |-> FALSE, g |-> g]}
  ELSE {[ok |-> TRUE, g |-> [g EXCEPT !.fd = "device",
                               !.mix = IF platform.rdrand THEN "rdrand" ELSE @]]}

\* s2n_init up to s2n_rand_init, which calls s2n_ensure_initialized_drbgs.
s2n_init(t) ==
  /\ MayCall(t) /\ Busy = {}
  /\ LET th == [thread[t] EXCEPT !.call = "s2n_init", !.failed = FALSE]
     IN  \/ /\ process.initialized
            /\ Goes(t, Returns(th, FALSE))
            /\ UNCHANGED process
         \/ /\ ~process.initialized
            /\ \E o \in s2n_rand_init_cb(process) :
                 /\ process' = o.g
                 /\ Goes(t, IF o.ok THEN EnsureInitializedDrbgs(th) ELSE Returns(th, FALSE))
  /\ UNCHANGED << platform, pid >>

\* The rest of s2n_init succeeds or fails.
FinishInit(t) ==
  /\ thread[t].pc = "finish_init"
  /\ \E ok \in BOOLEAN :
       /\ process' = [process EXCEPT !.initialized = ok]
       /\ Goes(t, Returns(thread[t], ok))
  /\ UNCHANGED << platform, pid, calls, events >>

\* s2n_cleanup and s2n_cleanup_thread.
s2n_cleanup(t) ==
  /\ MayAct(t)
  /\ Goes(t, s2n_rand_cleanup_thread(thread[t], process.initialized))
  /\ UNCHANGED << platform, pid, process >>

\* s2n_rand_cleanup: it fails when the device was not opened, or when a custom
\* callback fails; else every callback is the default again.
s2n_rand_cleanup(g) ==
  LET defaults == [g EXCEPT !.callbacks = "default", !.mix = "urandom"]
  IN  IF g.callbacks = "custom"
      THEN {[ok |-> FALSE, g |-> g], [ok |-> TRUE, g |-> defaults]}
      ELSE IF g.fd = "uninitialized" THEN {[ok |-> FALSE, g |-> g]}
      ELSE {[ok |-> TRUE, g |-> [defaults EXCEPT !.fd = "uninitialized"]]}

\* s2n_cleanup_final.  The clean ups before and after those of this module may
\* fail; the library then counts as initialised.  No thread is in a call.
s2n_cleanup_final(t) ==
  /\ MayAct(t) /\ Busy = {} /\ process.initialized
  /\ \/ UNCHANGED << process, thread >>
     \/ /\ Goes(t, s2n_rand_cleanup_thread(thread[t], TRUE))
        /\ \E o \in s2n_rand_cleanup(process), rest \in BOOLEAN :
             process' = [o.g EXCEPT !.initialized = ~(o.ok /\ rest)]
  /\ UNCHANGED << platform, pid >>

-----------------------------------------------------------------------------
(* Threads, processes and descriptors.                                      *)

StartThread(t) ==
  /\ thread[t].pc = "absent" /\ CountCall
  /\ \E u \in Threads : thread[u].pc = "idle"
  /\ Goes(t, FreshThread)
  /\ UNCHANGED << platform, pid, process >>

\* A thread ends; s2n_drbg_destructor runs if the thread-specific value is set.
ExitThread(t) ==
  LET th   == thread[t]
      done == IF th.rand.specific
              THEN [s2n_rand_cleanup_thread(th, TRUE) EXCEPT !.rand.specific = FALSE] ELSE th
  IN  /\ MayAct(t)
      /\ \E u \in Threads \ {t} : thread[u].pc # "absent"
      /\ Goes(t, [done EXCEPT !.pc = "absent"])
      /\ UNCHANGED << platform, pid, process >>

\* The kernel's part: a copy of the process with the one thread that called
\* fork.  A raw clone does not run the handlers of pthread_atfork.
ForkedState(f) ==
  [f EXCEPT !.zero_on_fork = IF platform.wipe /\ f.is_fork_detection_enabled
                             THEN S2N_FORK_EVENT ELSE @,
            !.orphaned = @ \/ f.writer \/ f.readers > 0,
            !.expected = f.current_fork_generation_number
                           + IF f.is_fork_detection_enabled THEN 1 ELSE 0]

Fork(t) ==
  /\ InApplication(t) /\ pid <= MaxForks
  /\ \E raw \in IF platform.wipe THEN BOOLEAN ELSE {FALSE} :
       thread' = [u \in Threads |->
         IF u # t THEN NoThread
         ELSE IF process.fgn.handler /\ ~raw THEN [thread[t] EXCEPT !.pc = "atfork"]
         ELSE thread[t]]
  /\ pid' = pid + 1
  /\ process' = [process EXCEPT !.fgn = ForkedState(@)]
  /\ UNCHANGED << platform, calls, events >>

\* s2n_pthread_atfork_on_fork, in the child, before fork returns: it takes the
\* write lock, and aborts when there is no address to write to.
s2n_pthread_atfork_on_fork(t) ==
  LET f == process.fgn
  IN  /\ thread[t].pc = "atfork" /\ ~f.writer /\ f.readers = 0
      /\ \/ /\ f.is_fork_detection_enabled
            /\ process' = [process EXCEPT !.fgn.zero_on_fork = S2N_FORK_EVENT]
            /\ Goes(t, [thread[t] EXCEPT !.pc = "idle"])
         \/ /\ ~f.is_fork_detection_enabled
            /\ Goes(t, [thread[t] EXCEPT !.pc = "aborted"])
            /\ UNCHANGED process
      /\ UNCHANGED << platform, pid, calls, events >>

\* The application closes all descriptors, as a daemon does, while no thread is
\* in a call; the number may come to stand for another file.
CloseDescriptors(t) ==
  /\ MayAct(t) /\ Busy = {} /\ process.fd = "device"
  /\ \E fd \in {"closed", "other"} : process' = [process EXCEPT !.fd = fd]
  /\ UNCHANGED << platform, pid, thread >>

\* The application enters a chroot tree without the device.
LoseAccess(t) ==
  /\ MayAct(t) /\ process.access
  /\ process' = [process EXCEPT !.access = FALSE]
  /\ UNCHANGED << platform, pid, thread >>

-----------------------------------------------------------------------------
Application(t) ==
  \/ GetRandomData(t) \/ s2n_rand_set_callbacks(t)
  \/ s2n_init(t) \/ s2n_cleanup(t) \/ s2n_cleanup_final(t)
  \/ StartThread(t) \/ ExitThread(t) \/ Fork(t)
  \/ CloseDescriptors(t) \/ LoseAccess(t)

Locks(t) == ReadLock(t) \/ WriteLock(t) \/ s2n_pthread_atfork_on_fork(t)

Step(t) ==
  \/ InstantiatePublic(t) \/ InstantiatePrivate(t) \/ Once(t)
  \/ ReadUnlock(t) \/ Advance(t)
  \/ Generate(t) \/ DrawAgain(t) \/ FinishInit(t)

Next == \E t \in Threads : Application(t) \/ Locks(t) \/ Step(t)

Spec == Init /\ [][Next]_vars

\* Some thread is scheduled while any can run, and not every number that is
\* drawn is thrown away.
FairSpec ==
  /\ Spec
  /\ WF_vars(\E t \in Threads : Locks(t) \/ Step(t))
  /\ SF_vars(\E t \in Threads : Generate(t))

-----------------------------------------------------------------------------
(* Properties.                                                              *)

\* A thread that ends leaves no generator behind, whether or not it called
\* s2n_cleanup_thread and whether or not the library was cleaned up before
\* (unless its last s2n_init_drbgs failed half way).
ExitedWiped ==
  \A t \in Threads :
    LET th == thread[t]
    IN  th.pc = "absent" /\ ~th.rand.init_failed => ~th.rand.public.ctx /\ ~th.rand.private.ctx

\* Whatever forked, died or failed before, bits come only from a generator that
\* was seeded with entropy in the process that uses them: no child repeats what
\* its parent draws.  This does not rely on the entropy that is mixed in.  A
\* generator is not left to later users of its memory.
SeededHere ==
  /\ \A t \in Threads : thread[t].pc = "generate" =>
       /\ Drbg(thread[t]).seeded_by = pid
       /\ Drbg(thread[t]).entropy
  /\ ExitedWiped

\* A child's generation number is one more than at the fork, and threads that
\* race for the sentinel do not advance it twice: one fork, one new seed.  The
\* handler of pthread_atfork never finds zero_on_fork_addr unset and aborts the
\* child, also after an initialisation that failed.
ForkNoticedOnce ==
  \A t \in Threads :
    /\ thread[t].pc # "aborted"
    /\ thread[t].pc = "generate" => thread[t].rand.cached = process.fgn.expected

\* Why a source of entropy, or the detection of forks, can fail.
Cause ==
  \/ process.callbacks = "custom" \/ process.mix = "rdrand"
  \/ ~process.access \/ process.fd = "uninitialized"
  \/ process'.fgn.once = "run" /\ ~process'.fgn.is_fork_detection_enabled

\* Random numbers are available, also after a fork and after the descriptors
\* were closed: every call returns, and so does every fork, except in a child
\* that inherited the lock from a thread that it does not have; and a call fails
\* only for lack of a source or of fork detection.
Available ==
  /\ <>[](Busy = {} \/ process.fgn.orphaned)
  /\ [][\A t \in Threads :
          /\ thread[t].call \in {"public", "private"}
          /\ thread'[t].pc = "idle" /\ thread'[t].failed
          => Cause]_vars
=============================================================================
