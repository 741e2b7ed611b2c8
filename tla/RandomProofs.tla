---------------------------- MODULE RandomProofs ----------------------------
(* The safety properties of Random, for every set of threads, every set of   *)
(* platforms and any number of forks, calls and other operations.            *)
EXTENDS Random, Integers, TLAPS

Fds == {"uninitialized", "device", "closed", "other"}

Fgn ==
  [once : {"not run", "run"}, is_fork_detection_enabled : BOOLEAN, handler : BOOLEAN,
   current_fork_generation_number : Nat, zero_on_fork : {S2N_FORK_EVENT, S2N_NO_FORK_EVENT},
   readers : Int, writer : BOOLEAN, orphaned : BOOLEAN, expected : Nat]

Process ==
  [initialized : BOOLEAN, callbacks : {"default", "custom"}, mix : {"urandom", "rdrand"},
   fd : Fds, access : BOOLEAN, fgn : Fgn]

Drbgs == [ctx : BOOLEAN, seeded_by : Nat, entropy : BOOLEAN]

Rand ==
  [cached : Nat, public : Drbgs, private : Drbgs,
   drbgs_initialized : BOOLEAN, specific : BOOLEAN, init_failed : BOOLEAN]

\* The steps of s2n_get_fork_generation_number, and those after the one that
\* turns on, or finds turned on, the detection of forks.
Locking == {"rdlock", "rdunlock", "wrlock", "advance"}
Asking == Locking \union {"once"}

PCs == Asking \union
  {"idle", "absent", "atfork", "aborted", "init_public", "init_private", "generate", "finish_init"}

Caching == {"caching", "caching again"}

Thread ==
  [pc : PCs, call : {"none", "public", "private", "s2n_init"},
   number_for : Caching \union {"none", "comparing"}, number : Nat,
   event : BOOLEAN, failed : BOOLEAN, rand : Rand]

\* The types of the variables.
TypeOK ==
  /\ platform \in Platforms
  /\ pid \in Nat \ {0}
  /\ process \in Process
  /\ thread \in [Threads -> Thread]

\* Fork detection is set up as a whole or not at all, and finds every fork on
\* a platform that the library supports.
SetUp ==
  LET f == process.fgn
  IN  /\ f.is_fork_detection_enabled => f.once = "run"
      /\ f.handler => f.is_fork_detection_enabled
      /\ f.is_fork_detection_enabled /\ ~platform.wipe => f.handler
      /\ ~f.is_fork_detection_enabled => f.zero_on_fork = S2N_NO_FORK_EVENT

\* The number lags behind while a fork has not been noticed, by one.
Unnoticed ==
  \/ process.fgn.zero_on_fork = S2N_FORK_EVENT
  \/ \E t \in Threads : thread[t].pc = "atfork"

Counted ==
  LET f == process.fgn
  IN  /\ ~Unnoticed => f.expected = f.current_fork_generation_number
      /\ Unnoticed => f.expected = f.current_fork_generation_number + 1

\* A child that is still in fork has one thread, and the handler finds the
\* address of the sentinel.
ForkAlone ==
  \A t \in Threads : thread[t].pc = "atfork" =>
    /\ process.fgn.handler
    /\ \A u \in Threads \ {t} : thread[u].pc = "absent"

SeededBy(drbg, p) == drbg.seeded_by = p /\ drbg.entropy

Seeded(r, p) == SeededBy(r.public, p) /\ SeededBy(r.private, p)

\* What holds of a thread th of process p, whose global state is f: the
\* generators that it has are those of the last fork it has noticed.
Fresh(th, f, p) ==
  LET r == th.rand
  IN  /\ r.cached <= f.current_fork_generation_number
      /\ r.drbgs_initialized /\ f.once = "not run" => th.pc = "once" /\ th.number_for \in Caching
      /\ r.drbgs_initialized /\ f.is_fork_detection_enabled /\ r.cached = f.expected => Seeded(r, p)
      /\ th.pc \in {"init_public", "init_private"} =>
           ~r.drbgs_initialized /\ th.number_for \in Caching
      /\ th.pc = "init_private" => SeededBy(r.public, p)
      /\ th.pc \in Asking => r.drbgs_initialized /\ th.number_for # "none"
      /\ th.pc \in Asking /\ th.number_for \in Caching => Seeded(r, p)
      /\ th.pc \in Locking \union {"generate"} => f.is_fork_detection_enabled
      /\ th.pc = "rdunlock" /\ ~th.event =>
           /\ f.zero_on_fork = S2N_NO_FORK_EVENT
           /\ th.number = f.current_fork_generation_number
      /\ th.pc = "generate" => r.drbgs_initialized /\ r.cached = f.expected
      /\ th.pc # "aborted"

\* The destructor of a thread covers its generators.
Covered(th) ==
  LET r == th.rand
  IN  /\ r.drbgs_initialized => r.specific
      /\ th.pc = "absent" => ~r.drbgs_initialized
      /\ ~r.init_failed /\ ~r.drbgs_initialized /\ th.pc # "init_private" =>
           ~r.public.ctx /\ ~r.private.ctx

ThreadInv(th, f, p) == Fresh(th, f, p) /\ Covered(th)

\* The generators of a thread that is in no call.
Settled(r, f, p) ==
  /\ r.cached <= f.current_fork_generation_number
  /\ r.drbgs_initialized => r.specific /\ f.once = "run"
  /\ r.drbgs_initialized /\ f.is_fork_detection_enabled /\ r.cached = f.expected => Seeded(r, p)
  /\ ~r.init_failed /\ ~r.drbgs_initialized => ~r.public.ctx /\ ~r.private.ctx

\* The inductive invariant.
Inv ==
  /\ TypeOK /\ SetUp /\ Counted /\ ForkAlone
  /\ \A t \in Threads : ThreadInv(thread[t], process.fgn, pid)
-----------------------------------------------------------------------------
(* Lemmas on the operators                                                   *)

\* The fields of the state have their types.
LEMMA ProcessFields ==
  ASSUME NEW g \in Process
  PROVE  /\ g.initialized \in BOOLEAN /\ g.callbacks \in {"default", "custom"}
         /\ g.mix \in {"urandom", "rdrand"} /\ g.fd \in Fds /\ g.access \in BOOLEAN
         /\ g.fgn \in Fgn
BY DEF Process

LEMMA FgnFields ==
  ASSUME NEW f \in Fgn
  PROVE  /\ f.once \in {"not run", "run"} /\ f.is_fork_detection_enabled \in BOOLEAN
         /\ f.handler \in BOOLEAN /\ f.current_fork_generation_number \in Nat
         /\ f.zero_on_fork \in {S2N_FORK_EVENT, S2N_NO_FORK_EVENT}
         /\ f.readers \in Int /\ f.writer \in BOOLEAN /\ f.orphaned \in BOOLEAN
         /\ f.expected \in Nat
BY DEF Fgn

LEMMA ThreadFields ==
  ASSUME NEW th \in Thread
  PROVE  /\ th.pc \in PCs /\ th.call \in {"none", "public", "private", "s2n_init"}
         /\ th.number_for \in Caching \union {"none", "comparing"} /\ th.number \in Nat
         /\ th.event \in BOOLEAN /\ th.failed \in BOOLEAN /\ th.rand \in Rand
         /\ th.rand.cached \in Nat /\ th.rand.public \in Drbgs /\ th.rand.private \in Drbgs
         /\ th.rand.drbgs_initialized \in BOOLEAN /\ th.rand.specific \in BOOLEAN
         /\ th.rand.init_failed \in BOOLEAN
BY DEF Thread, Rand

\* The descriptor has nothing to do with the detection of forks.
LEMMA FdFacts ==
  ASSUME NEW g \in Process, NEW fd \in Fds
  PROVE  [g EXCEPT !.fd = fd] \in Process /\ [g EXCEPT !.fd = fd].fgn = g.fgn
BY DEF Process

\* A source of entropy delivers entropy or fails.
LEMMA CustomFacts ==
  ASSUME NEW g \in Process, NEW o \in CustomEntropy(g)
  PROVE  o.ok \in BOOLEAN /\ o.entropy = o.ok /\ o.fd \in Fds
<1>1. g.fd \in Fds
  BY ProcessFields
<1>2. PICK b \in BOOLEAN : o = [ok |-> b, entropy |-> b, fd |-> g.fd]
  BY DEF CustomEntropy
<1> QED
  BY <1>1, <1>2

LEMMA DeviceFacts ==
  ASSUME NEW g \in Process, NEW o \in s2n_rand_get_entropy_from_urandom(g)
  PROVE  o.ok \in BOOLEAN /\ o.entropy = o.ok /\ o.fd \in Fds
<1>1. g.fd \in Fds /\ g.access \in BOOLEAN /\ "device" \in Fds
  BY ProcessFields DEF Fds
<1>2. PICK b \in BOOLEAN, fd \in Fds : o = [ok |-> b, entropy |-> b, fd |-> fd]
  <2>1. CASE g.fd = "uninitialized"
    BY <1>1, <2>1 DEF s2n_rand_get_entropy_from_urandom
  <2>2. CASE g.fd # "uninitialized" /\ g.fd = "device"
    BY <1>1, <2>2 DEF s2n_rand_get_entropy_from_urandom, s2n_rand_device_validate
  <2>3. CASE g.fd # "uninitialized" /\ g.fd # "device"
    <3>1. o = [ok |-> g.access, entropy |-> g.access, fd |-> IF g.access THEN "device" ELSE g.fd]
      BY <2>3 DEF s2n_rand_get_entropy_from_urandom, s2n_rand_device_validate
    <3> QED
      BY <1>1, <3>1
  <2> QED
    BY <2>1, <2>2, <2>3
<1> QED
  BY <1>2

LEMMA SeedFacts ==
  ASSUME NEW g \in Process, NEW o \in s2n_get_seed_entropy(g)
  PROVE  /\ o.ok \in BOOLEAN /\ o.entropy = o.ok
         /\ [g EXCEPT !.fd = o.fd] \in Process
         /\ [g EXCEPT !.fd = o.fd].fgn = g.fgn
<1>1. o \in CustomEntropy(g) \/ o \in s2n_rand_get_entropy_from_urandom(g)
  BY DEF s2n_get_seed_entropy
<1> QED
  BY <1>1, CustomFacts, DeviceFacts, FdFacts

LEMMA MixFacts ==
  ASSUME NEW g \in Process, NEW o \in s2n_get_mix_entropy(g)
  PROVE  /\ o.ok \in BOOLEAN
         /\ [g EXCEPT !.fd = o.fd] \in Process
         /\ [g EXCEPT !.fd = o.fd].fgn = g.fgn
<1>1. o \in CustomEntropy(g) \/ o \in s2n_rand_get_entropy_from_urandom(g)
  BY DEF s2n_get_mix_entropy
<1> QED
  BY <1>1, CustomFacts, DeviceFacts, FdFacts

\* What is left of a thread at the end of a call.
LEMMA ReturnsFacts ==
  ASSUME NEW th \in Thread, NEW ok \in BOOLEAN
  PROVE  /\ Returns(th, ok) \in Thread
         /\ Returns(th, ok).pc = "idle" /\ Returns(th, ok).rand = th.rand
BY DEF Returns, Thread, PCs

\* A clean up leaves no generator.
LEMMA CleanupFacts ==
  ASSUME NEW th \in Thread, NEW b \in BOOLEAN
  PROVE  LET c == s2n_rand_cleanup_thread(th, b)
         IN  /\ c \in Thread /\ c = [th EXCEPT !.rand = c.rand]
             /\ c.rand.cached = th.rand.cached /\ c.rand.init_failed = th.rand.init_failed
             /\ ~c.rand.drbgs_initialized /\ ~c.rand.public.ctx /\ ~c.rand.private.ctx
<1>1. WipedDrbg \in Drbgs /\ ~WipedDrbg.ctx
  BY DEF WipedDrbg, Drbgs
<1>2. th.rand \in Rand /\ th.rand.specific \in BOOLEAN
  BY ThreadFields
<1> DEFINE r == [th.rand EXCEPT !.public = WipedDrbg, !.private = WipedDrbg,
                                !.drbgs_initialized = FALSE, !.specific = th.rand.specific /\ ~b]
<1>3. r \in Rand /\ r.cached = th.rand.cached /\ r.init_failed = th.rand.init_failed
      /\ ~r.drbgs_initialized /\ r.public = WipedDrbg /\ r.private = WipedDrbg
  <2>1. (th.rand.specific /\ ~b) \in BOOLEAN
    BY <1>2
  <2> QED
    BY <1>1, <1>2, <2>1 DEF Rand
<1>4. s2n_rand_cleanup_thread(th, b) = [th EXCEPT !.rand = r]
  BY DEF s2n_rand_cleanup_thread
<1>5. [th EXCEPT !.rand = r] \in Thread /\ [th EXCEPT !.rand = r].rand = r
  <2> HIDE DEF r
  <2> QED
    BY <1>3 DEF Thread
<1>6. r = [th EXCEPT !.rand = r].rand
  BY <1>5
<1> QED
  <2> HIDE DEF r
  <2> QED
    BY <1>1, <1>3, <1>4, <1>5, <1>6

\* What holds of the generators between two calls.
LEMMA SettledFacts ==
  ASSUME NEW th \in Thread, NEW f \in Fgn, NEW p \in Nat
  PROVE  /\ ThreadInv(th, f, p) /\ th.pc \notin {"once", "init_private"} => Settled(th.rand, f, p)
         /\ Settled(th.rand, f, p) /\ th.pc \in {"idle", "atfork", "finish_init"} => ThreadInv(th, f, p)
<1>1. f.once \in {"run", "not run"}
  BY FgnFields
<1>2. ASSUME ThreadInv(th, f, p), th.pc \notin {"once", "init_private"}
      PROVE  Settled(th.rand, f, p)
  BY <1>1, <1>2 DEF ThreadInv, Fresh, Covered, Settled
<1>3. ASSUME Settled(th.rand, f, p), th.pc \in {"idle", "atfork", "finish_init"}
      PROVE  ThreadInv(th, f, p)
  <2>1. Covered(th)
    BY <1>3 DEF Covered, Settled
  <2>2. Fresh(th, f, p)
    BY <1>1, <1>3 DEF Fresh, Settled, Asking, Locking
  <2> QED
    BY <2>1, <2>2 DEF ThreadInv
<1> QED
  BY <1>2, <1>3

\* s2n_ensure_initialized_drbgs starts from there, and a call ends there.
LEMMA EnsureFacts ==
  ASSUME NEW th \in Thread, NEW f \in Fgn, NEW p \in Nat, Settled(th.rand, f, p)
  PROVE  LET e == EnsureInitializedDrbgs(th)
         IN  e \in Thread /\ e.pc # "atfork" /\ ThreadInv(e, f, p)
<1> DEFINE e == EnsureInitializedDrbgs(th)
<1>1. e \in Thread /\ e.rand = th.rand /\ e.pc \in {"finish_init", "once", "init_public"}
  BY DEF EnsureInitializedDrbgs, Thread, PCs, Asking, Locking, Caching
<1>2. /\ e.pc = "once" => e.number_for = "comparing" /\ th.rand.drbgs_initialized
      /\ e.pc = "init_public" => e.number_for = "caching" /\ ~th.rand.drbgs_initialized
  BY DEF EnsureInitializedDrbgs, Thread
<1>3. f.once \in {"run", "not run"}
  BY FgnFields
<1> HIDE DEF e
<1>4. Fresh(e, f, p)
  BY <1>1, <1>2, <1>3 DEF Settled, Fresh, Asking, Locking, Caching
<1>5. Covered(e)
  BY <1>1 DEF Covered, Settled
<1> QED
  BY <1>1, <1>4, <1>5 DEF ThreadInv, e

LEMMA ReturnsInv ==
  ASSUME NEW th \in Thread, NEW f \in Fgn, NEW p \in Nat, NEW ok \in BOOLEAN,
         Settled(th.rand, f, p)
  PROVE  /\ Returns(th, ok) \in Thread /\ Returns(th, ok).pc # "atfork"
         /\ ThreadInv(Returns(th, ok), f, p)
BY ReturnsFacts, SettledFacts

\* When the number is returned, the generators are those of this process, or
\* are about to be seeded again.
LEMMA NumberFacts ==
  ASSUME NEW th \in Thread, NEW f \in Fgn, NEW p \in Nat, NEW b \in BOOLEAN, NEW n \in Nat,
         Covered(th), th.pc \in Asking, th.number_for # "none",
         th.rand.drbgs_initialized, f.is_fork_detection_enabled, f.once = "run",
         th.rand.cached <= f.current_fork_generation_number,
         th.rand.cached = f.expected => Seeded(th.rand, p),
         th.number_for \in Caching => Seeded(th.rand, p),
         n = f.expected, n = f.current_fork_generation_number
  PROVE  LET e == NumberReturned(th, n, b)
         IN  e \in Thread /\ e.pc # "atfork" /\ ThreadInv(e, f, p)
<1> DEFINE e == NumberReturned(th, n, b)
<1>0. /\ th.number_for \in Caching \union {"comparing"} /\ th.rand \in Rand
      /\ th.rand.cached \in Nat /\ th.rand.specific /\ f.expected \in Nat
      /\ th.rand.init_failed \in BOOLEAN
  BY ThreadFields, FgnFields DEF Covered
<1>1. CASE th.number_for = "comparing" /\ n = th.rand.cached
  <2>1. e = [th EXCEPT !.pc = "generate"]
    BY <1>1 DEF NumberReturned
  <2>2. e \in Thread /\ e.pc = "generate" /\ e.rand = th.rand
    BY <2>1 DEF Thread, PCs
  <2>3. Fresh(e, f, p)
    BY <1>0, <1>1, <2>2 DEF Fresh, Asking, Locking
  <2>4. Covered(e)
    BY <1>0, <2>2 DEF Covered
  <2> QED
    BY <2>2, <2>3, <2>4 DEF ThreadInv
<1>2. CASE th.number_for = "comparing" /\ n # th.rand.cached
  <2> DEFINE c == s2n_rand_cleanup_thread(th, b)
  <2>1. e = [c EXCEPT !.pc = "init_public", !.number_for = "caching again"]
    BY <1>2 DEF NumberReturned, Caching
  <2>2. /\ c \in Thread
        /\ c.rand.cached = th.rand.cached /\ c.rand.init_failed = th.rand.init_failed
        /\ ~c.rand.drbgs_initialized /\ ~c.rand.public.ctx /\ ~c.rand.private.ctx
    BY CleanupFacts
  <2> HIDE DEF c, e
  <2>3. e \in Thread /\ e.pc = "init_public" /\ e.number_for = "caching again" /\ e.rand = c.rand
    BY <2>1, <2>2 DEF Thread, PCs, Caching
  <2>4. Fresh(e, f, p)
    BY <1>0, <2>2, <2>3 DEF Fresh, Asking, Locking, Caching
  <2>5. Covered(e)
    BY <2>2, <2>3 DEF Covered
  <2> QED
    BY <2>3, <2>4, <2>5 DEF ThreadInv, e
<1>3. CASE th.number_for \in Caching
  <2> DEFINE r == [th.rand EXCEPT !.cached = n]
             c == [th EXCEPT !.rand = r]
  <2>1. r \in Rand /\ r.cached = n /\ r.drbgs_initialized /\ r.specific
        /\ r.init_failed = th.rand.init_failed
        /\ r.public = th.rand.public /\ r.private = th.rand.private
    BY <1>0 DEF Rand
  <2>2. th.number_for # "comparing" /\ [th EXCEPT !.rand.cached = n] = c
    BY <1>3 DEF Caching, Thread
  <2> HIDE DEF r
  <2>3. c \in Thread /\ c.rand = r /\ c.call = th.call /\ c.number_for = th.number_for
    BY <2>1 DEF Thread
  <2>4. /\ e \in Thread /\ e.rand = r
        /\ \/ e.pc = "finish_init" \/ e.pc = "generate"
           \/ e.pc = "once" /\ e.number_for = "comparing"
    <3> HIDE DEF c
    <3> QED
      BY <2>2, <2>3 DEF NumberReturned, Thread, PCs, Asking
  <2> HIDE DEF c, e
  <2>0. Seeded(r, p) /\ f.once # "not run"
    BY <1>3, <2>1 DEF Seeded
  <2>5. Fresh(e, f, p)
    <3>1. CASE e.pc = "finish_init"
      BY <3>1, <2>0, <2>1, <2>4 DEF Fresh, Asking, Locking
    <3>2. CASE e.pc = "generate"
      BY <3>2, <2>0, <2>1, <2>4 DEF Fresh, Asking, Locking
    <3>3. CASE e.pc = "once" /\ e.number_for = "comparing"
      <4>1. e.number_for # "none" /\ e.pc \notin Locking \union {"generate"}
        BY <3>3 DEF Locking
      <4> QED
        BY <3>3, <4>1, <2>0, <2>1, <2>4 DEF Fresh
    <3> QED
      BY <2>4, <3>1, <3>2, <3>3
  <2>6. Covered(e)
    BY <1>0, <2>1, <2>4 DEF Covered
  <2> QED
    BY <2>4, <2>5, <2>6 DEF ThreadInv, e
<1> QED
  BY <1>0, <1>1, <1>2, <1>3
-----------------------------------------------------------------------------
(* The invariant                                                             *)

\* Where a thread runs, no other one is in fork.
LEMMA NotInFork ==
  ASSUME Inv, NEW t \in Threads, thread[t].pc \notin {"absent", "atfork"}
  PROVE  \A u \in Threads : thread[u].pc # "atfork"
BY DEF Inv, ForkAlone

\* Two states of the detection that a thread cannot tell apart.
SameDetection(g, f) ==
  /\ g.once = f.once /\ g.is_fork_detection_enabled = f.is_fork_detection_enabled
  /\ g.handler = f.handler /\ g.zero_on_fork = f.zero_on_fork /\ g.expected = f.expected
  /\ g.current_fork_generation_number = f.current_fork_generation_number

LEMMA SameFresh ==
  ASSUME NEW th, NEW f, NEW g, NEW p, SameDetection(g, f)
  PROVE  ThreadInv(th, f, p) <=> ThreadInv(th, g, p)
BY DEF SameDetection, ThreadInv, Fresh

\* A step of one thread that leaves the detection of forks alone.
LEMMA OneThread ==
  ASSUME Inv, NEW t \in Threads, NEW th \in Thread, NEW g \in Process,
         \A u \in Threads : thread[u].pc # "atfork",
         th.pc # "atfork", SameDetection(g.fgn, process.fgn),
         ThreadInv(th, process.fgn, pid),
         thread' = [thread EXCEPT ![t] = th], process' = g, platform' = platform, pid' = pid
  PROVE  Inv'
<1>1. thread' \in [Threads -> Thread] /\ \A u \in Threads : thread'[u] = IF u = t THEN th ELSE thread[u]
  BY DEF Inv, TypeOK
<1>2. TypeOK'
  BY <1>1 DEF Inv, TypeOK
<1>3. SetUp'
  BY DEF Inv, SetUp, SameDetection
<1>4. \A u \in Threads : thread'[u].pc # "atfork"
  BY <1>1
<1>5. Counted'
  BY <1>4 DEF Inv, Counted, Unnoticed, SameDetection
<1>6. ForkAlone'
  BY <1>4 DEF ForkAlone
<1>7. \A u \in Threads : ThreadInv(thread'[u], process.fgn, pid)
  BY <1>1 DEF Inv
<1>8. \A u \in Threads : ThreadInv(thread'[u], process'.fgn, pid')
  BY <1>7, SameFresh
<1> QED
  BY <1>2, <1>3, <1>5, <1>6, <1>8 DEF Inv

\* The types and the invariant, for one thread.
LEMMA Here ==
  ASSUME Inv, NEW t \in Threads
  PROVE  /\ thread[t] \in Thread /\ process \in Process /\ process.fgn \in Fgn
         /\ pid \in Nat \ {0} /\ platform \in Platforms
         /\ ThreadInv(thread[t], process.fgn, pid)
         /\ SetUp /\ Counted
BY ProcessFields DEF Inv, TypeOK

\* A seed that succeeds is entropy of this process.
LEMMA InstantiateFacts ==
  ASSUME pid \in Nat \ {0}, NEW o, o.ok \in BOOLEAN, o.entropy = o.ok
  PROVE  /\ s2n_drbg_instantiate(o) \in Drbgs
         /\ o.ok => SeededBy(s2n_drbg_instantiate(o), pid)
BY DEF s2n_drbg_instantiate, Drbgs, SeededBy

LEMMA PublicInv ==
  ASSUME Inv, NEW t \in Threads, InstantiatePublic(t)
  PROVE  Inv'
<1> DEFINE th == thread[t]
<1>1. PICK o \in s2n_get_seed_entropy(process) :
        /\ process' = [process EXCEPT !.fd = o.fd]
        /\ LET r == [th.rand EXCEPT !.public = s2n_drbg_instantiate(o),
                                    !.init_failed = @ \/ ~o.ok]
           IN  Goes(t, IF o.ok THEN [th EXCEPT !.pc = "init_private", !.rand = r]
                               ELSE Returns([th EXCEPT !.rand = r], FALSE))
  BY DEF InstantiatePublic
<1> DEFINE d == s2n_drbg_instantiate(o)
           r == [th.rand EXCEPT !.public = d, !.init_failed = th.rand.init_failed \/ ~o.ok]
           new == IF o.ok THEN [th EXCEPT !.pc = "init_private", !.rand = r]
                          ELSE Returns([th EXCEPT !.rand = r], FALSE)
<1>2. /\ th \in Thread /\ process \in Process /\ process.fgn \in Fgn /\ pid \in Nat \ {0}
      /\ ThreadInv(th, process.fgn, pid) /\ th.pc = "init_public"
      /\ platform' = platform /\ pid' = pid /\ thread' = [thread EXCEPT ![t] = new]
  BY <1>1, Here DEF InstantiatePublic, Goes
<1>3. o.ok \in BOOLEAN /\ o.entropy = o.ok /\ process' \in Process /\ process'.fgn = process.fgn
  BY <1>1, <1>2, SeedFacts
<1>4. d \in Drbgs /\ (o.ok => SeededBy(d, pid))
  BY <1>2, <1>3, InstantiateFacts
<1>5. Settled(th.rand, process.fgn, pid) /\ ~th.rand.drbgs_initialized /\ th.number_for \in Caching
  BY <1>2, SettledFacts DEF ThreadInv, Fresh
<1>6. th.rand \in Rand /\ th.rand.init_failed \in BOOLEAN
  BY <1>2, ThreadFields
<1> HIDE DEF th, d
<1>7. /\ r \in Rand /\ r.public = d /\ ~r.drbgs_initialized /\ r.cached = th.rand.cached
      /\ ~o.ok => r.init_failed
  BY <1>3, <1>4, <1>5, <1>6 DEF Rand
<1> HIDE DEF r
<1>8. new \in Thread /\ new.pc # "atfork" /\ ThreadInv(new, process.fgn, pid)
  <2>1. CASE o.ok
    <3>1. new \in Thread /\ new.pc = "init_private" /\ new.rand = r /\ new.number_for = th.number_for
      BY <1>2, <1>7, <2>1 DEF Thread, PCs
    <3> HIDE DEF new
    <3>2. Fresh(new, process.fgn, pid)
      BY <1>4, <1>5, <1>7, <2>1, <3>1 DEF Fresh, Settled, Asking, Locking
    <3>3. Covered(new)
      BY <1>7, <3>1 DEF Covered
    <3> QED
      BY <3>1, <3>2, <3>3 DEF ThreadInv
  <2>2. CASE ~o.ok
    <3> DEFINE c == [th EXCEPT !.rand = r]
    <3>1. c \in Thread /\ c.rand = r
      BY <1>2, <1>7 DEF Thread
    <3>2. Settled(r, process.fgn, pid)
      BY <1>5, <1>7, <2>2 DEF Settled
    <3> HIDE DEF c
    <3> QED
      BY <1>2, <2>2, <3>1, <3>2, ReturnsInv DEF c
  <2> QED
    BY <1>3, <2>1, <2>2
<1>9. \A u \in Threads : thread[u].pc # "atfork"
  BY <1>2, NotInFork DEF th
<1> HIDE DEF new
<1> QED
  BY <1>2, <1>3, <1>8, <1>9, OneThread DEF SameDetection

LEMMA PrivateInv ==
  ASSUME Inv, NEW t \in Threads, InstantiatePrivate(t)
  PROVE  Inv'
<1> DEFINE th == thread[t]
<1>1. PICK o \in s2n_get_seed_entropy(process) :
        /\ process' = [process EXCEPT !.fd = o.fd]
        /\ LET r == [th.rand EXCEPT !.private = s2n_drbg_instantiate(o),
                                    !.specific = @ \/ o.ok, !.drbgs_initialized = o.ok,
                                    !.init_failed = @ \/ ~o.ok]
           IN  Goes(t, IF o.ok THEN [th EXCEPT !.pc = "once", !.rand = r]
                               ELSE Returns([th EXCEPT !.rand = r], FALSE))
  BY DEF InstantiatePrivate
<1> DEFINE d == s2n_drbg_instantiate(o)
           r == [th.rand EXCEPT !.private = d, !.specific = th.rand.specific \/ o.ok,
                                !.drbgs_initialized = o.ok,
                                !.init_failed = th.rand.init_failed \/ ~o.ok]
           new == IF o.ok THEN [th EXCEPT !.pc = "once", !.rand = r]
                          ELSE Returns([th EXCEPT !.rand = r], FALSE)
<1>2. /\ th \in Thread /\ process \in Process /\ process.fgn \in Fgn /\ pid \in Nat \ {0}
      /\ ThreadInv(th, process.fgn, pid) /\ th.pc = "init_private"
      /\ platform' = platform /\ pid' = pid /\ thread' = [thread EXCEPT ![t] = new]
  BY <1>1, Here DEF InstantiatePrivate, Goes
<1>3. o.ok \in BOOLEAN /\ o.entropy = o.ok /\ process' \in Process /\ process'.fgn = process.fgn
  BY <1>1, <1>2, SeedFacts
<1>4. d \in Drbgs /\ (o.ok => SeededBy(d, pid))
  BY <1>2, <1>3, InstantiateFacts
<1>5. /\ SeededBy(th.rand.public, pid) /\ th.number_for \in Caching
      /\ th.rand.cached <= process.fgn.current_fork_generation_number
  BY <1>2 DEF ThreadInv, Fresh
<1>6. th.rand \in Rand /\ th.rand.init_failed \in BOOLEAN /\ th.rand.specific \in BOOLEAN
  BY <1>2, ThreadFields
<1> HIDE DEF th, d
<1>7. /\ r \in Rand /\ r.private = d /\ r.drbgs_initialized = o.ok /\ r.cached = th.rand.cached
      /\ r.public = th.rand.public /\ (o.ok => r.specific) /\ (~o.ok => r.init_failed)
  BY <1>3, <1>4, <1>5, <1>6 DEF Rand
<1> HIDE DEF r
<1>8. new \in Thread /\ new.pc # "atfork" /\ ThreadInv(new, process.fgn, pid)
  <2>1. CASE o.ok
    <3>1. new \in Thread /\ new.pc = "once" /\ new.rand = r /\ new.number_for = th.number_for
      BY <1>2, <1>7, <2>1 DEF Thread, PCs, Asking
    <3> HIDE DEF new
    <3>2. Seeded(r, pid) /\ new.number_for # "none"
      BY <1>4, <1>5, <1>7, <2>1, <3>1 DEF Seeded, Caching
    <3>3. Fresh(new, process.fgn, pid)
      BY <1>5, <1>7, <2>1, <3>1, <3>2 DEF Fresh, Asking, Locking
    <3>4. Covered(new)
      BY <1>7, <2>1, <3>1 DEF Covered
    <3> QED
      BY <3>1, <3>3, <3>4 DEF ThreadInv
  <2>2. CASE ~o.ok
    <3> DEFINE c == [th EXCEPT !.rand = r]
    <3>1. c \in Thread /\ c.rand = r
      BY <1>2, <1>7 DEF Thread
    <3>2. Settled(r, process.fgn, pid)
      BY <1>5, <1>7, <2>2 DEF Settled
    <3> HIDE DEF c
    <3> QED
      BY <1>2, <2>2, <3>1, <3>2, ReturnsInv DEF c
  <2> QED
    BY <1>3, <2>1, <2>2
<1>9. \A u \in Threads : thread[u].pc # "atfork"
  BY <1>2, NotInFork DEF th
<1> HIDE DEF new
<1> QED
  BY <1>2, <1>3, <1>8, <1>9, OneThread DEF SameDetection

\* The outcomes of the set up: nothing, or all of it.
LEMMA MethodsFacts ==
  ASSUME RandomAssumption, platform \in Platforms, NEW f \in Fgn, f.once # "run",
         NEW g \in s2n_initialise_fork_detection_methods(f)
  PROVE  /\ g \in Fgn /\ g.once = "run" /\ g.expected = f.expected
         /\ g.current_fork_generation_number = f.current_fork_generation_number
         /\ \/ /\ g.is_fork_detection_enabled = f.is_fork_detection_enabled
               /\ g.handler = f.handler /\ g.zero_on_fork = f.zero_on_fork
            \/ /\ g.is_fork_detection_enabled /\ g.handler = platform.atfork
               /\ g.zero_on_fork = S2N_NO_FORK_EVENT
<1> DEFINE ran == [f EXCEPT !.once = "run"]
           set == [ran EXCEPT !.handler = platform.atfork, !.is_fork_detection_enabled = TRUE,
                              !.zero_on_fork = S2N_NO_FORK_EVENT]
<1>1. g = ran \/ g = set
  BY DEF s2n_initialise_fork_detection_methods
<1>2. platform.atfork \in BOOLEAN
  BY DEF RandomAssumption
<1>3. ran \in Fgn /\ ran.once = "run" /\ ran.expected = f.expected
      /\ ran.current_fork_generation_number = f.current_fork_generation_number
      /\ ran.is_fork_detection_enabled = f.is_fork_detection_enabled
      /\ ran.handler = f.handler /\ ran.zero_on_fork = f.zero_on_fork
  BY DEF Fgn
<1>4. set \in Fgn /\ set.once = "run" /\ set.expected = f.expected
      /\ set.current_fork_generation_number = f.current_fork_generation_number
      /\ set.is_fork_detection_enabled /\ set.handler = platform.atfork
      /\ set.zero_on_fork = S2N_NO_FORK_EVENT
  <2> HIDE DEF ran
  <2> QED
    BY <1>2, <1>3 DEF Fgn
<1> QED
  BY <1>1, <1>3, <1>4

\* The set up is done in one go: it finds no generator in use but those that
\* were seeded after the last fork.
LEMMA OnceInv ==
  ASSUME Inv, NEW t \in Threads, Once(t)
  PROVE  Inv'
<1> DEFINE th == thread[t]
           f  == process.fgn
<1>1. PICK g \in IF f.once = "run" THEN {f} ELSE s2n_initialise_fork_detection_methods(f) :
        /\ process' = [process EXCEPT !.fgn = g]
        /\ Goes(t, IF g.is_fork_detection_enabled THEN [th EXCEPT !.pc = "rdlock"]
                                                  ELSE Returns(th, FALSE))
  BY DEF Once
<1> DEFINE new == IF g.is_fork_detection_enabled THEN [th EXCEPT !.pc = "rdlock"]
                                                 ELSE Returns(th, FALSE)
<1>2. /\ th \in Thread /\ process \in Process /\ f \in Fgn /\ pid \in Nat
      /\ platform \in Platforms /\ th.pc = "once"
      /\ platform' = platform /\ pid' = pid /\ thread' = [thread EXCEPT ![t] = new]
      /\ \A u \in Threads : ThreadInv(thread[u], f, pid)
  BY <1>1, Here DEF Once, Goes, Inv
<1>3. \A u \in Threads : thread[u].pc # "atfork"
  BY <1>2, NotInFork
<1>4. /\ g \in Fgn /\ g.once = "run" /\ g.expected = f.expected
      /\ g.current_fork_generation_number = f.current_fork_generation_number
      /\ \/ f.once = "run" /\ g = f
         \/ /\ f.once = "not run" /\ g.is_fork_detection_enabled = f.is_fork_detection_enabled
            /\ g.handler = f.handler /\ g.zero_on_fork = f.zero_on_fork
         \/ /\ f.once = "not run" /\ g.is_fork_detection_enabled /\ g.handler = platform.atfork
            /\ g.zero_on_fork = S2N_NO_FORK_EVENT
  <2>1. CASE f.once = "run"
    BY <1>1, <1>2, <2>1
  <2>2. CASE f.once # "run"
    BY <1>1, <1>2, <2>2, FgnFields, MethodsFacts, RandomAssumption
  <2> QED
    BY <2>1, <2>2
<1>5. process' \in Process /\ process'.fgn = g
  BY <1>1, <1>2, <1>4 DEF Process
<1>6. \A u \in Threads : ThreadInv(thread[u], g, pid)
  <2> SUFFICES ASSUME NEW u \in Threads PROVE ThreadInv(thread[u], g, pid)
    OBVIOUS
  <2>1. ThreadInv(thread[u], f, pid) /\ SetUp
    BY <1>2 DEF Inv
  <2>2. CASE f.once = "run" /\ g = f
    BY <2>1, <2>2
  <2>3. CASE f.once = "not run"
    <3>1. /\ ~f.is_fork_detection_enabled /\ f.zero_on_fork = S2N_NO_FORK_EVENT
          /\ g.zero_on_fork = S2N_NO_FORK_EVENT
      BY <1>4, <2>1, <2>3 DEF SetUp
    <3>2. thread[u].rand.drbgs_initialized => Seeded(thread[u].rand, pid)
      BY <2>1, <2>3 DEF ThreadInv, Fresh, Asking
    <3> QED
      BY <1>4, <2>1, <2>3, <3>1, <3>2 DEF ThreadInv, Fresh
  <2> QED
    BY <1>4, <2>2, <2>3
<1>7. new \in Thread /\ new.pc # "atfork" /\ ThreadInv(new, g, pid)
  <2>1. /\ th.rand.drbgs_initialized /\ th.number_for # "none" /\ Covered(th)
        /\ th.rand.cached <= g.current_fork_generation_number
        /\ th.rand.cached = g.expected /\ g.is_fork_detection_enabled => Seeded(th.rand, pid)
        /\ th.number_for \in Caching => Seeded(th.rand, pid)
    BY <1>2, <1>6 DEF ThreadInv, Fresh, Asking
  <2>2. CASE g.is_fork_detection_enabled
    <3>1. new \in Thread /\ new.pc = "rdlock" /\ new.rand = th.rand /\ new.number_for = th.number_for
      BY <1>2, <2>2 DEF Thread, PCs, Asking, Locking
    <3> HIDE DEF new, th
    <3>2. Fresh(new, g, pid)
      BY <1>4, <2>1, <2>2, <3>1 DEF Fresh
    <3>3. Covered(new)
      BY <2>1, <3>1 DEF Covered
    <3> QED
      BY <3>1, <3>2, <3>3 DEF ThreadInv
  <2>3. CASE ~g.is_fork_detection_enabled
    <3>1. Settled(th.rand, g, pid)
      BY <1>4, <2>1, <2>3 DEF Settled, Covered
    <3> QED
      BY <1>2, <1>4, <2>3, <3>1, ReturnsInv
  <2> QED
    BY <2>2, <2>3
<1> HIDE DEF new, th
<1>8. thread' \in [Threads -> Thread] /\ \A u \in Threads : thread'[u] = IF u = t THEN new ELSE thread[u]
  BY <1>2, <1>7 DEF Inv, TypeOK
<1>9. TypeOK'
  BY <1>2, <1>5, <1>8 DEF Inv, TypeOK
<1>10. SetUp'
  <2>1. platform.wipe \/ platform.atfork
    BY <1>2, RandomAssumption DEF RandomAssumption
  <2> QED
    BY <1>2, <1>4, <1>5, <2>1 DEF Inv, SetUp
<1>11. \A u \in Threads : thread'[u].pc # "atfork"
  BY <1>3, <1>7, <1>8
<1>12. Counted'
  <2>1. g.zero_on_fork = f.zero_on_fork
    BY <1>4 DEF Inv, SetUp
  <2> QED
    BY <1>3, <1>4, <1>5, <1>11, <2>1 DEF Inv, Counted, Unnoticed
<1>13. ForkAlone'
  BY <1>11 DEF ForkAlone
<1>14. \A u \in Threads : ThreadInv(thread'[u], process'.fgn, pid')
  <2>1. \A u \in Threads : ThreadInv(thread'[u], g, pid)
    BY <1>6, <1>7, <1>8
  <2> QED
    BY <1>2, <1>5, <2>1
<1> QED
  BY <1>9, <1>10, <1>12, <1>13, <1>14 DEF Inv

\* The lock is not among what a thread can tell apart.
LEMMA FgnFacts ==
  ASSUME NEW g \in Process, NEW h \in Fgn
  PROVE  [g EXCEPT !.fgn = h] \in Process /\ [g EXCEPT !.fgn = h].fgn = h
BY DEF Process

LEMMA ReadersFacts ==
  ASSUME NEW g \in Process, NEW n \in Int
  PROVE  /\ [g EXCEPT !.fgn.readers = n] \in Process
         /\ SameDetection([g EXCEPT !.fgn.readers = n].fgn, g.fgn)
<1>1. g.fgn \in Fgn
  BY ProcessFields
<1>2. [g.fgn EXCEPT !.readers = n] \in Fgn /\ SameDetection([g.fgn EXCEPT !.readers = n], g.fgn)
  BY <1>1 DEF Fgn, SameDetection
<1>3. [g EXCEPT !.fgn.readers = n] = [g EXCEPT !.fgn = [g.fgn EXCEPT !.readers = n]]
  OBVIOUS
<1> QED
  BY <1>2, <1>3, FgnFacts

LEMMA WriterFacts ==
  ASSUME NEW g \in Process
  PROVE  /\ [g EXCEPT !.fgn.writer = TRUE] \in Process
         /\ SameDetection([g EXCEPT !.fgn.writer = TRUE].fgn, g.fgn)
<1>1. g.fgn \in Fgn
  BY ProcessFields
<1>2. [g.fgn EXCEPT !.writer = TRUE] \in Fgn /\ SameDetection([g.fgn EXCEPT !.writer = TRUE], g.fgn)
  BY <1>1 DEF Fgn, SameDetection
<1>3. [g EXCEPT !.fgn.writer = TRUE] = [g EXCEPT !.fgn = [g.fgn EXCEPT !.writer = TRUE]]
  OBVIOUS
<1> QED
  BY <1>2, <1>3, FgnFacts

LEMMA ReadLockInv ==
  ASSUME Inv, NEW t \in Threads, ReadLock(t)
  PROVE  Inv'
<1> DEFINE th == thread[t]
           f  == process.fgn
           new == [th EXCEPT !.pc = "rdunlock", !.number = f.current_fork_generation_number,
                             !.event = (f.zero_on_fork = S2N_FORK_EVENT)]
<1>1. /\ th \in Thread /\ process \in Process /\ f \in Fgn
      /\ ThreadInv(th, f, pid) /\ th.pc = "rdlock"
      /\ platform' = platform /\ pid' = pid /\ thread' = [thread EXCEPT ![t] = new]
      /\ process' = [process EXCEPT !.fgn.readers = process.fgn.readers + 1]
  BY Here DEF ReadLock, Goes
<1>2. f.current_fork_generation_number \in Nat /\ f.readers \in Int
      /\ f.zero_on_fork \in {S2N_FORK_EVENT, S2N_NO_FORK_EVENT}
  BY <1>1, FgnFields
<1>3. process' \in Process /\ SameDetection(process'.fgn, process.fgn)
  <2>1. PICK n \in Int : n = process.fgn.readers + 1
    BY <1>2
  <2>2. process' = [process EXCEPT !.fgn.readers = n]
    BY <1>1, <2>1
  <2> QED
    BY <1>1, <2>2, ReadersFacts
<1>4. /\ new \in Thread /\ new.pc = "rdunlock" /\ new.rand = th.rand /\ new.number_for = th.number_for
      /\ new.number = f.current_fork_generation_number
      /\ new.event = (f.zero_on_fork = S2N_FORK_EVENT)
  BY <1>1, <1>2 DEF Thread, PCs, Asking, Locking
<1>5. \A u \in Threads : thread[u].pc # "atfork"
  BY <1>1, NotInFork
<1> HIDE DEF new, th
<1>6. Covered(new)
  BY <1>1, <1>4 DEF ThreadInv, Covered
<1>7. Fresh(new, f, pid)
  BY <1>1, <1>2, <1>4 DEF ThreadInv, Fresh, Asking, Locking
<1>8. ThreadInv(new, f, pid)
  BY <1>6, <1>7 DEF ThreadInv
<1> QED
  BY <1>1, <1>3, <1>4, <1>5, <1>8, OneThread

LEMMA ReadUnlockInv ==
  ASSUME Inv, NEW t \in Threads, ReadUnlock(t)
  PROVE  Inv'
<1> DEFINE th == thread[t]
           f  == process.fgn
           new == IF th.event THEN [th EXCEPT !.pc = "wrlock"]
                              ELSE NumberReturned(th, th.number, process.initialized)
<1>1. /\ th \in Thread /\ process \in Process /\ f \in Fgn /\ pid \in Nat
      /\ ThreadInv(th, f, pid) /\ th.pc = "rdunlock" /\ SetUp /\ Counted
      /\ platform' = platform /\ pid' = pid /\ thread' = [thread EXCEPT ![t] = new]
      /\ process' = [process EXCEPT !.fgn.readers = process.fgn.readers - 1]
  BY Here DEF ReadUnlock, Goes
<1>2. f.readers \in Int
  BY <1>1, FgnFields
<1>3. process' \in Process /\ SameDetection(process'.fgn, process.fgn)
  <2>1. PICK n \in Int : n = process.fgn.readers - 1
    BY <1>2
  <2>2. process' = [process EXCEPT !.fgn.readers = n]
    BY <1>1, <2>1
  <2> QED
    BY <1>1, <2>2, ReadersFacts
<1>4. \A u \in Threads : thread[u].pc # "atfork"
  BY <1>1, NotInFork
<1>5. new \in Thread /\ new.pc # "atfork" /\ ThreadInv(new, f, pid)
  <2>1. CASE th.event
    <3>1. new \in Thread /\ new.pc = "wrlock" /\ new.rand = th.rand /\ new.number_for = th.number_for
      BY <1>1, <2>1 DEF Thread, PCs, Asking, Locking
    <3> HIDE DEF new, th
    <3>2. Covered(new)
      BY <1>1, <3>1 DEF ThreadInv, Covered
    <3>3. Fresh(new, f, pid)
      BY <1>1, <3>1 DEF ThreadInv, Fresh, Asking, Locking
    <3> QED
      BY <3>1, <3>2, <3>3 DEF ThreadInv
  <2>2. CASE ~th.event
    <3>1. /\ f.zero_on_fork = S2N_NO_FORK_EVENT /\ th.number = f.current_fork_generation_number
          /\ th.rand.drbgs_initialized /\ f.is_fork_detection_enabled /\ th.number_for # "none"
          /\ th.rand.cached <= f.current_fork_generation_number
          /\ th.rand.cached = f.expected => Seeded(th.rand, pid)
          /\ th.number_for \in Caching => Seeded(th.rand, pid)
          /\ Covered(th)
      BY <1>1, <2>2 DEF ThreadInv, Fresh, Asking, Locking
    <3>2. f.once = "run" /\ f.expected = f.current_fork_generation_number
      BY <1>1, <1>4, <3>1 DEF SetUp, Counted, Unnoticed, S2N_FORK_EVENT, S2N_NO_FORK_EVENT
    <3>3. th.number \in Nat /\ process.initialized \in BOOLEAN /\ th.pc \in Asking
      BY <1>1, ThreadFields, ProcessFields DEF Asking, Locking
    <3> HIDE DEF th
    <3> QED
      BY <1>1, <2>2, <3>1, <3>2, <3>3, NumberFacts
  <2> QED
    BY <2>1, <2>2
<1> HIDE DEF new, th
<1> QED
  BY <1>1, <1>3, <1>4, <1>5, OneThread

LEMMA WriteLockInv ==
  ASSUME Inv, NEW t \in Threads, WriteLock(t)
  PROVE  Inv'
<1> DEFINE th == thread[t]
           f  == process.fgn
           new == [th EXCEPT !.pc = "advance", !.number = f.current_fork_generation_number]
<1>1. /\ th \in Thread /\ process \in Process /\ f \in Fgn
      /\ ThreadInv(th, f, pid) /\ th.pc = "wrlock"
      /\ platform' = platform /\ pid' = pid /\ thread' = [thread EXCEPT ![t] = new]
      /\ process' = [process EXCEPT !.fgn.writer = TRUE]
  BY Here DEF WriteLock, Goes
<1>2. f.current_fork_generation_number \in Nat
  BY <1>1, FgnFields
<1>3. process' \in Process /\ SameDetection(process'.fgn, process.fgn)
  BY <1>1, WriterFacts
<1>4. new \in Thread /\ new.pc = "advance" /\ new.rand = th.rand /\ new.number_for = th.number_for
  BY <1>1, <1>2 DEF Thread, PCs, Asking, Locking
<1>5. \A u \in Threads : thread[u].pc # "atfork"
  BY <1>1, NotInFork
<1> HIDE DEF new, th
<1>6. Covered(new)
  BY <1>1, <1>4 DEF ThreadInv, Covered
<1>7. Fresh(new, f, pid)
  BY <1>1, <1>4 DEF ThreadInv, Fresh, Asking, Locking
<1>8. ThreadInv(new, f, pid)
  BY <1>6, <1>7 DEF ThreadInv
<1> QED
  BY <1>1, <1>3, <1>4, <1>5, <1>8, OneThread

\* One thread that finds the sentinel cleared counts the fork; for the others
\* the number does not change under their hands.
LEMMA AdvanceInv ==
  ASSUME Inv, NEW t \in Threads, Advance(t)
  PROVE  Inv'
<1> DEFINE th == thread[t]
           f  == process.fgn
           a  == Advanced(process.fgn)
           g  == [a EXCEPT !.writer = FALSE]
           n  == a.current_fork_generation_number
           at == [th EXCEPT !.number = n]
           new == NumberReturned(at, n, process.initialized)
<1>1. /\ th \in Thread /\ process \in Process /\ f \in Fgn /\ pid \in Nat \ {0}
      /\ platform \in Platforms
      /\ ThreadInv(th, f, pid) /\ th.pc = "advance" /\ SetUp /\ Counted
      /\ platform' = platform /\ pid' = pid /\ thread' = [thread EXCEPT ![t] = new]
      /\ process' = [process EXCEPT !.fgn = g]
  BY Here DEF Advance, Goes
<1>2. \A u \in Threads : thread[u].pc # "atfork"
  BY <1>1, NotInFork
<1>3. /\ f.zero_on_fork \in {S2N_FORK_EVENT, S2N_NO_FORK_EVENT}
      /\ f.current_fork_generation_number \in Nat /\ f.expected \in Nat
  BY <1>1, FgnFields
<1>4. /\ a \in Fgn /\ a.once = f.once /\ a.handler = f.handler /\ a.expected = f.expected
      /\ a.is_fork_detection_enabled = f.is_fork_detection_enabled
      /\ n = f.expected /\ a.zero_on_fork = S2N_NO_FORK_EVENT
      /\ f.zero_on_fork = S2N_NO_FORK_EVENT => n = f.current_fork_generation_number
      /\ f.current_fork_generation_number <= n
  <2>1. CASE f.zero_on_fork = S2N_FORK_EVENT
    <3>1. f.expected = f.current_fork_generation_number + 1
      BY <1>1, <2>1 DEF Counted, Unnoticed
    <3>2. a = [f EXCEPT !.zero_on_fork = S2N_NO_FORK_EVENT, !.current_fork_generation_number = f.expected]
      BY <2>1, <3>1 DEF Advanced
    <3> HIDE DEF a
    <3>3. /\ a \in Fgn /\ a.once = f.once /\ a.handler = f.handler /\ a.expected = f.expected
          /\ a.is_fork_detection_enabled = f.is_fork_detection_enabled
          /\ n = f.expected /\ a.zero_on_fork = S2N_NO_FORK_EVENT
      BY <1>1, <1>3, <3>2 DEF Fgn
    <3>4. f.zero_on_fork # S2N_NO_FORK_EVENT
      BY <2>1 DEF S2N_FORK_EVENT, S2N_NO_FORK_EVENT
    <3>5. f.current_fork_generation_number <= f.expected
      BY <1>3, <3>1
    <3> QED
      BY <3>3, <3>4, <3>5
  <2>2. CASE f.zero_on_fork = S2N_NO_FORK_EVENT
    <3>1. a = f
      BY <2>2 DEF Advanced, S2N_FORK_EVENT, S2N_NO_FORK_EVENT
    <3>2. f.expected = f.current_fork_generation_number
      BY <1>1, <1>2, <2>2 DEF Counted, Unnoticed, S2N_FORK_EVENT, S2N_NO_FORK_EVENT
    <3> QED
      BY <1>1, <1>3, <2>2, <3>1, <3>2
  <2> QED
    BY <1>3, <2>1, <2>2
<1>5. /\ g \in Fgn /\ g.once = f.once /\ g.handler = f.handler /\ g.expected = f.expected
      /\ g.is_fork_detection_enabled = f.is_fork_detection_enabled
      /\ g.current_fork_generation_number = n /\ g.zero_on_fork = S2N_NO_FORK_EVENT
  <2> HIDE DEF a
  <2> QED
    BY <1>4 DEF Fgn
<1> HIDE DEF a, g
<1>6. process' \in Process /\ process'.fgn = g
  BY <1>1, <1>5, FgnFacts
<1>7. ASSUME NEW u \in Threads, u # t
      PROVE  ThreadInv(thread[u], g, pid)
  <2>1. ThreadInv(thread[u], f, pid) /\ thread[u] \in Thread
    BY Here
  <2>2. thread[u].rand.cached \in Nat
    BY <2>1, ThreadFields
  <2>3. thread[u].rand.cached <= g.current_fork_generation_number
    <3>1. thread[u].rand.cached <= f.current_fork_generation_number
      BY <2>1 DEF ThreadInv, Fresh
    <3>2. n \in Nat
      BY <1>3, <1>4
    <3> HIDE DEF n, f
    <3> QED
      BY <1>3, <1>4, <1>5, <2>2, <3>1, <3>2
  <2>4. thread[u].pc = "rdunlock" /\ ~thread[u].event =>
          thread[u].number = g.current_fork_generation_number
    BY <1>4, <1>5, <2>1 DEF ThreadInv, Fresh
  <2> HIDE DEF f, n
  <2> QED
    BY <1>5, <2>1, <2>3, <2>4 DEF ThreadInv, Fresh
<1>8. new \in Thread /\ new.pc # "atfork" /\ ThreadInv(new, g, pid)
  <2>1. /\ at \in Thread /\ at.rand = th.rand /\ at.pc = "advance" /\ at.number_for = th.number_for
    BY <1>1, <1>3, <1>4 DEF Thread
  <2>2. th.rand.cached \in Nat /\ process.initialized \in BOOLEAN /\ at.pc \in Asking
    BY <1>1, <2>1, ThreadFields, ProcessFields DEF Asking, Locking
  <2>3. /\ th.rand.drbgs_initialized /\ f.is_fork_detection_enabled /\ th.number_for # "none"
        /\ th.rand.cached <= f.current_fork_generation_number
        /\ th.rand.cached = f.expected => Seeded(th.rand, pid)
        /\ th.number_for \in Caching => Seeded(th.rand, pid)
        /\ Covered(th)
    BY <1>1 DEF ThreadInv, Fresh, Asking, Locking
  <2>4. f.once = "run" /\ Covered(at) /\ th.rand.cached <= n
    BY <1>1, <1>3, <1>4, <2>1, <2>2, <2>3 DEF SetUp, Covered
  <2>5. /\ n \in Nat /\ n = g.expected /\ n = g.current_fork_generation_number
        /\ g.is_fork_detection_enabled /\ g.once = "run"
    BY <1>3, <1>4, <1>5, <2>3, <2>4
  <2> HIDE DEF at, th, n, f
  <2> QED
    BY <1>1, <1>5, <2>1, <2>2, <2>3, <2>4, <2>5, NumberFacts
<1> HIDE DEF new, th
<1>9. thread' \in [Threads -> Thread] /\ \A u \in Threads : thread'[u] = IF u = t THEN new ELSE thread[u]
  BY <1>1, <1>8 DEF Inv, TypeOK
<1>10. TypeOK'
  BY <1>1, <1>6, <1>9 DEF TypeOK
<1>11. SetUp'
  BY <1>1, <1>5, <1>6 DEF SetUp
<1>12. \A u \in Threads : thread'[u].pc # "atfork"
  BY <1>2, <1>8, <1>9
<1>13. Counted'
  BY <1>4, <1>5, <1>6, <1>12 DEF Counted, Unnoticed, S2N_FORK_EVENT, S2N_NO_FORK_EVENT
<1>14. ForkAlone'
  BY <1>12 DEF ForkAlone
<1>15. \A u \in Threads : ThreadInv(thread'[u], process'.fgn, pid')
  BY <1>1, <1>6, <1>7, <1>8, <1>9
<1> QED
  BY <1>10, <1>11, <1>13, <1>14, <1>15 DEF Inv

LEMMA GenerateInv ==
  ASSUME Inv, NEW t \in Threads, Generate(t)
  PROVE  Inv'
<1> DEFINE th == thread[t]
<1>1. PICK o \in s2n_get_mix_entropy(process) :
        /\ process' = [process EXCEPT !.fd = o.fd]
        /\ Goes(t, Returns(th, Drbg(th).ctx /\ o.ok))
  BY DEF Generate
<1>2. /\ th \in Thread /\ process \in Process /\ process.fgn \in Fgn /\ pid \in Nat
      /\ ThreadInv(th, process.fgn, pid) /\ th.pc = "generate"
      /\ platform' = platform /\ pid' = pid
  BY Here DEF Generate
<1>3. process' \in Process /\ process'.fgn = process.fgn
  BY <1>1, <1>2, MixFacts
<1>4. PICK ok \in BOOLEAN : thread' = [thread EXCEPT ![t] = Returns(th, ok)]
  BY <1>1 DEF Goes
<1>5. Settled(th.rand, process.fgn, pid)
  BY <1>2, SettledFacts
<1>6. \A u \in Threads : thread[u].pc # "atfork"
  BY <1>2, NotInFork
<1> HIDE DEF th
<1> QED
  BY <1>2, <1>3, <1>4, <1>5, <1>6, ReturnsInv, OneThread DEF SameDetection

LEMMA DrawAgainInv ==
  ASSUME Inv, NEW t \in Threads, DrawAgain(t)
  PROVE  Inv'
<1> DEFINE th == thread[t]
<1>1. PICK o \in s2n_get_mix_entropy(process) :
        /\ process' = [process EXCEPT !.fd = o.fd]
        /\ Goes(t, EnsureInitializedDrbgs(th))
  BY DEF DrawAgain
<1>2. /\ th \in Thread /\ process \in Process /\ process.fgn \in Fgn /\ pid \in Nat
      /\ ThreadInv(th, process.fgn, pid) /\ th.pc = "generate"
      /\ platform' = platform /\ pid' = pid
      /\ thread' = [thread EXCEPT ![t] = EnsureInitializedDrbgs(th)]
  BY <1>1, Here DEF DrawAgain, Goes
<1>3. process' \in Process /\ process'.fgn = process.fgn
  BY <1>1, <1>2, MixFacts
<1>4. Settled(th.rand, process.fgn, pid)
  BY <1>2, SettledFacts
<1>5. \A u \in Threads : thread[u].pc # "atfork"
  BY <1>2, NotInFork
<1> HIDE DEF th
<1> QED
  BY <1>2, <1>3, <1>4, <1>5, EnsureFacts, OneThread DEF SameDetection

LEMMA FinishInitInv ==
  ASSUME Inv, NEW t \in Threads, FinishInit(t)
  PROVE  Inv'
<1> DEFINE th == thread[t]
<1>1. PICK ok \in BOOLEAN :
        /\ process' = [process EXCEPT !.initialized = ok]
        /\ thread' = [thread EXCEPT ![t] = Returns(th, ok)]
  BY DEF FinishInit, Goes
<1>2. /\ th \in Thread /\ process \in Process /\ process.fgn \in Fgn /\ pid \in Nat
      /\ ThreadInv(th, process.fgn, pid) /\ th.pc = "finish_init"
      /\ platform' = platform /\ pid' = pid
  BY Here DEF FinishInit
<1>3. process' \in Process /\ process'.fgn = process.fgn
  BY <1>1, <1>2 DEF Process
<1>4. Settled(th.rand, process.fgn, pid)
  BY <1>2, SettledFacts
<1>5. \A u \in Threads : thread[u].pc # "atfork"
  BY <1>2, NotInFork
<1> HIDE DEF th
<1> QED
  BY <1>1, <1>2, <1>3, <1>4, <1>5, ReturnsInv, OneThread DEF SameDetection

\* An operation of an application in an idle thread.
LEMMA IdleFacts ==
  ASSUME Inv, NEW t \in Threads, thread[t].pc = "idle"
  PROVE  /\ Settled(thread[t].rand, process.fgn, pid)
         /\ \A u \in Threads : thread[u].pc # "atfork"
BY Here, SettledFacts, NotInFork

LEMMA Unmoved ==
  ASSUME Inv, NEW t \in Threads, thread[t].pc = "idle", NEW g \in Process,
         SameDetection(g.fgn, process.fgn),
         thread' = thread, process' = g, platform' = platform, pid' = pid
  PROVE  Inv'
<1>1. thread' = [thread EXCEPT ![t] = thread[t]]
  BY DEF Inv, TypeOK
<1> QED
  BY <1>1, Here, IdleFacts, OneThread

LEMMA CallInv ==
  ASSUME Inv, NEW t \in Threads, GetRandomData(t)
  PROVE  Inv'
<1>1. PICK call \in {"public", "private"} :
        thread' = [thread EXCEPT ![t] = EnsureInitializedDrbgs([thread[t] EXCEPT !.call = call, !.failed = FALSE])]
  BY DEF GetRandomData, Goes
<1> DEFINE th == [thread[t] EXCEPT !.call = call, !.failed = FALSE]
<1>2. /\ thread[t] \in Thread /\ process \in Process /\ process.fgn \in Fgn /\ pid \in Nat
      /\ thread[t].pc = "idle" /\ platform' = platform /\ pid' = pid /\ process' = process
  BY Here DEF GetRandomData, MayCall, InApplication
<1>3. th \in Thread /\ th.rand = thread[t].rand
  BY <1>2 DEF Thread
<1>4. Settled(th.rand, process.fgn, pid) /\ \A u \in Threads : thread[u].pc # "atfork"
  BY <1>2, <1>3, IdleFacts
<1> HIDE DEF th
<1> QED
  BY <1>1, <1>2, <1>3, <1>4, EnsureFacts, OneThread DEF SameDetection, th

LEMMA CallbacksInv ==
  ASSUME Inv, NEW t \in Threads, s2n_rand_set_callbacks(t)
  PROVE  Inv'
<1>1. /\ process \in Process /\ thread[t].pc = "idle" /\ platform' = platform /\ pid' = pid
      /\ thread' = thread /\ process' = [process EXCEPT !.callbacks = "custom"]
  BY Here DEF s2n_rand_set_callbacks, MayAct, InApplication
<1>2. process' \in Process /\ process'.fgn = process.fgn
  BY <1>1 DEF Process
<1> QED
  BY <1>1, <1>2, Unmoved DEF SameDetection

LEMMA InitCallFacts ==
  ASSUME NEW g \in Process, NEW o \in s2n_rand_init_cb(g)
  PROVE  o.ok \in BOOLEAN /\ o.g \in Process /\ o.g.fgn = g.fgn
<1>1. CASE g.callbacks = "custom"
  BY <1>1 DEF s2n_rand_init_cb
<1>2. CASE g.callbacks # "custom" /\ ~g.access
  <2>1. o = [ok |-> FALSE, g |-> g]
    BY <1>2 DEF s2n_rand_init_cb
  <2> QED
    BY <2>1
<1>3. CASE g.callbacks # "custom" /\ g.access
  <2> DEFINE m == IF platform.rdrand THEN "rdrand" ELSE g.mix
             h == [g EXCEPT !.fd = "device", !.mix = m]
  <2>1. m \in {"urandom", "rdrand"}
    BY ProcessFields
  <2>2. o = [ok |-> TRUE, g |-> h]
    BY <1>3 DEF s2n_rand_init_cb
  <2> HIDE DEF m
  <2>3. h \in Process /\ h.fgn = g.fgn
    BY <2>1 DEF Process, Fds
  <2> HIDE DEF h
  <2> QED
    BY <2>2, <2>3
<1> QED
  BY <1>1, <1>2, <1>3

LEMMA InitInv ==
  ASSUME Inv, NEW t \in Threads, s2n_init(t)
  PROVE  Inv'
<1> DEFINE th == [thread[t] EXCEPT !.call = "s2n_init", !.failed = FALSE]
<1>1. /\ thread[t] \in Thread /\ process \in Process /\ process.fgn \in Fgn /\ pid \in Nat
      /\ thread[t].pc = "idle" /\ platform' = platform /\ pid' = pid
  BY Here DEF s2n_init, MayCall, InApplication
<1>2. th \in Thread /\ th.rand = thread[t].rand
  BY <1>1 DEF Thread
<1>3. Settled(th.rand, process.fgn, pid) /\ \A u \in Threads : thread[u].pc # "atfork"
  BY <1>1, <1>2, IdleFacts
<1>4. CASE thread' = [thread EXCEPT ![t] = Returns(th, FALSE)] /\ process' = process
  <2> HIDE DEF th
  <2> QED
    BY <1>1, <1>2, <1>3, <1>4, ReturnsInv, OneThread DEF SameDetection
<1>5. ASSUME NEW o \in s2n_rand_init_cb(process), process' = o.g,
             thread' = [thread EXCEPT ![t] = IF o.ok THEN EnsureInitializedDrbgs(th)
                                                     ELSE Returns(th, FALSE)]
      PROVE  Inv'
  <2>1. o.ok \in BOOLEAN /\ o.g \in Process /\ o.g.fgn = process.fgn
    BY <1>1, <1>5, InitCallFacts
  <2> HIDE DEF th
  <2>2. CASE o.ok
    <3>1. thread' = [thread EXCEPT ![t] = EnsureInitializedDrbgs(th)]
      BY <1>5, <2>2
    <3> QED
      BY <1>1, <1>2, <1>3, <1>5, <2>1, <3>1, EnsureFacts, OneThread DEF SameDetection
  <2>3. CASE ~o.ok
    <3>1. thread' = [thread EXCEPT ![t] = Returns(th, FALSE)]
      BY <1>5, <2>3
    <3> QED
      BY <1>1, <1>2, <1>3, <1>5, <2>1, <3>1, ReturnsInv, OneThread DEF SameDetection
  <2> QED
    BY <2>1, <2>2, <2>3
<1> QED
  BY <1>4, <1>5 DEF s2n_init, Goes

\* A clean up between two calls.
LEMMA CleanupSettled ==
  ASSUME Inv, NEW t \in Threads, thread[t].pc = "idle", NEW b \in BOOLEAN
  PROVE  LET c == s2n_rand_cleanup_thread(thread[t], b)
         IN  /\ c \in Thread /\ c.pc = "idle" /\ Settled(c.rand, process.fgn, pid)
             /\ ThreadInv(c, process.fgn, pid)
<1> DEFINE c == s2n_rand_cleanup_thread(thread[t], b)
<1>1. thread[t] \in Thread /\ process.fgn \in Fgn /\ pid \in Nat
  BY Here
<1>2. /\ c \in Thread /\ c = [thread[t] EXCEPT !.rand = c.rand]
      /\ c.rand.cached = thread[t].rand.cached /\ c.rand.init_failed = thread[t].rand.init_failed
      /\ ~c.rand.drbgs_initialized /\ ~c.rand.public.ctx /\ ~c.rand.private.ctx
  BY <1>1, CleanupFacts
<1> HIDE DEF c
<1>3. c.pc = "idle"
  BY <1>1, <1>2 DEF Thread
<1>4. Settled(c.rand, process.fgn, pid)
  BY <1>2, IdleFacts DEF Settled
<1> QED
  BY <1>1, <1>2, <1>3, <1>4, SettledFacts DEF c

LEMMA CleanupInv ==
  ASSUME Inv, NEW t \in Threads, s2n_cleanup(t)
  PROVE  Inv'
<1>1. /\ process \in Process /\ thread[t].pc = "idle" /\ platform' = platform /\ pid' = pid
      /\ process' = process /\ process.initialized \in BOOLEAN
      /\ thread' = [thread EXCEPT ![t] = s2n_rand_cleanup_thread(thread[t], process.initialized)]
  BY Here, ProcessFields DEF s2n_cleanup, MayAct, InApplication, Goes
<1> QED
  BY <1>1, IdleFacts, CleanupSettled, OneThread DEF SameDetection

LEMMA RandCleanupFacts ==
  ASSUME NEW g \in Process, NEW o \in s2n_rand_cleanup(g), NEW b \in BOOLEAN
  PROVE  /\ [o.g EXCEPT !.initialized = b] \in Process
         /\ [o.g EXCEPT !.initialized = b].fgn = g.fgn
<1> DEFINE defaults == [g EXCEPT !.callbacks = "default", !.mix = "urandom"]
           closed   == [defaults EXCEPT !.fd = "uninitialized"]
<1>1. defaults \in Process /\ defaults.fgn = g.fgn
  BY DEF Process
<1>2. closed \in Process /\ closed.fgn = g.fgn
  <2> HIDE DEF defaults
  <2> QED
    BY <1>1 DEF Process, Fds
<1>3. o.g = g \/ o.g = defaults \/ o.g = closed
  BY DEF s2n_rand_cleanup
<1> HIDE DEF defaults, closed
<1>4. o.g \in Process /\ o.g.fgn = g.fgn
  BY <1>1, <1>2, <1>3
<1> QED
  BY <1>4 DEF Process

LEMMA CleanupFinalInv ==
  ASSUME Inv, NEW t \in Threads, s2n_cleanup_final(t)
  PROVE  Inv'
<1>1. process \in Process /\ thread[t].pc = "idle" /\ platform' = platform /\ pid' = pid
  BY Here DEF s2n_cleanup_final, MayAct, InApplication
<1>2. CASE process' = process /\ thread' = thread
  BY <1>1, <1>2, Unmoved DEF SameDetection
<1>3. ASSUME NEW o \in s2n_rand_cleanup(process), NEW rest \in BOOLEAN,
             process' = [o.g EXCEPT !.initialized = ~(o.ok /\ rest)],
             thread' = [thread EXCEPT ![t] = s2n_rand_cleanup_thread(thread[t], TRUE)]
      PROVE  Inv'
  <2>1. PICK b \in BOOLEAN : process' = [o.g EXCEPT !.initialized = b]
    BY <1>3
  <2>2. process' \in Process /\ process'.fgn = process.fgn
    BY <1>1, <2>1, RandCleanupFacts
  <2> QED
    BY <1>1, <1>3, <2>2, IdleFacts, CleanupSettled, OneThread DEF SameDetection
<1> QED
  BY <1>2, <1>3 DEF s2n_cleanup_final, Goes

LEMMA DescriptorsInv ==
  ASSUME Inv, NEW t \in Threads, CloseDescriptors(t)
  PROVE  Inv'
<1>1. PICK fd \in {"closed", "other"} : process' = [process EXCEPT !.fd = fd]
  BY DEF CloseDescriptors
<1>2. /\ process \in Process /\ thread[t].pc = "idle" /\ platform' = platform /\ pid' = pid
      /\ thread' = thread
  BY Here DEF CloseDescriptors, MayAct, InApplication
<1>3. process' \in Process /\ process'.fgn = process.fgn
  BY <1>1, <1>2, FdFacts DEF Fds
<1> QED
  BY <1>2, <1>3, Unmoved DEF SameDetection

LEMMA AccessInv ==
  ASSUME Inv, NEW t \in Threads, LoseAccess(t)
  PROVE  Inv'
<1>1. /\ process \in Process /\ thread[t].pc = "idle" /\ platform' = platform /\ pid' = pid
      /\ thread' = thread /\ process' = [process EXCEPT !.access = FALSE]
  BY Here DEF LoseAccess, MayAct, InApplication
<1>2. process' \in Process /\ process'.fgn = process.fgn
  BY <1>1 DEF Process
<1> QED
  BY <1>1, <1>2, Unmoved DEF SameDetection

-----------------------------------------------------------------------------
(* Threads and forks                                                         *)

LEMMA NewFacts ==
  ASSUME NEW f \in Fgn, NEW p \in Nat
  PROVE  /\ FreshThread \in Thread /\ FreshThread.pc = "idle" /\ ThreadInv(FreshThread, f, p)
         /\ NoThread \in Thread /\ NoThread.pc = "absent" /\ ThreadInv(NoThread, f, p)
<1>1. WipedDrbg \in Drbgs /\ ~WipedDrbg.ctx
  BY DEF WipedDrbg, Drbgs
<1>2. /\ RandState \in Rand /\ RandState.cached = 0 /\ ~RandState.drbgs_initialized
      /\ ~RandState.public.ctx /\ ~RandState.private.ctx
  BY <1>1 DEF RandState, Rand
<1>3. FreshThread \in Thread /\ FreshThread.pc = "idle" /\ FreshThread.rand = RandState
  BY <1>2 DEF FreshThread, Thread, PCs
<1>4. NoThread \in Thread /\ NoThread.pc = "absent" /\ NoThread.rand = RandState
  BY <1>3 DEF NoThread, Thread, PCs
<1>5. f.current_fork_generation_number \in Nat
  BY FgnFields
<1>6. ASSUME NEW th, th.pc \in {"idle", "absent"}, th.rand = RandState
      PROVE  ThreadInv(th, f, p)
  <2>1. Covered(th)
    BY <1>2, <1>6 DEF Covered
  <2>2. th.rand.cached <= f.current_fork_generation_number /\ ~th.rand.drbgs_initialized
    BY <1>2, <1>5, <1>6
  <2>3. Fresh(th, f, p)
    BY <1>6, <2>2 DEF Fresh, Asking, Locking
  <2> QED
    BY <2>1, <2>3 DEF ThreadInv
<1> QED
  BY <1>3, <1>4, <1>6

LEMMA StartThreadInv ==
  ASSUME Inv, NEW t \in Threads, StartThread(t)
  PROVE  Inv'
<1>1. /\ process \in Process /\ process.fgn \in Fgn /\ pid \in Nat
      /\ thread' = [thread EXCEPT ![t] = FreshThread]
      /\ process' = process /\ platform' = platform /\ pid' = pid
  BY Here DEF StartThread, Goes
<1>2. \A u \in Threads : thread[u].pc # "atfork"
  BY NotInFork DEF StartThread
<1> QED
  BY <1>1, <1>2, NewFacts, OneThread DEF SameDetection

LEMMA ExitThreadInv ==
  ASSUME Inv, NEW t \in Threads, ExitThread(t)
  PROVE  Inv'
<1> DEFINE th   == thread[t]
           c    == s2n_rand_cleanup_thread(th, TRUE)
           done == IF th.rand.specific THEN [c EXCEPT !.rand.specific = FALSE] ELSE th
           e    == [done EXCEPT !.pc = "absent"]
<1>1. /\ process \in Process /\ process.fgn \in Fgn /\ pid \in Nat /\ th \in Thread
      /\ thread' = [thread EXCEPT ![t] = e] /\ th.pc = "idle"
      /\ process' = process /\ platform' = platform /\ pid' = pid
  BY Here DEF ExitThread, Goes, MayAct, InApplication
<1>2. Settled(th.rand, process.fgn, pid) /\ \A u \in Threads : thread[u].pc # "atfork"
  BY <1>1, IdleFacts
<1>3. /\ done \in Thread /\ done.rand.cached <= process.fgn.current_fork_generation_number
      /\ ~done.rand.drbgs_initialized
      /\ ~done.rand.init_failed => ~done.rand.public.ctx /\ ~done.rand.private.ctx
  <2>1. CASE th.rand.specific
    <3>1. /\ c \in Thread /\ c.rand.cached = th.rand.cached
          /\ ~c.rand.drbgs_initialized /\ ~c.rand.public.ctx /\ ~c.rand.private.ctx
      BY <1>1, CleanupFacts
    <3>2. done = [c EXCEPT !.rand.specific = FALSE]
      BY <2>1
    <3> HIDE DEF th, c, done
    <3>3. c.rand \in Rand
      BY <3>1, ThreadFields
    <3>4. [c.rand EXCEPT !.specific = FALSE] \in Rand
      BY <3>3 DEF Rand
    <3>5. done \in Thread /\ done.rand = [c.rand EXCEPT !.specific = FALSE]
      BY <3>1, <3>2, <3>4 DEF Thread
    <3>6. /\ done.rand.cached = c.rand.cached /\ done.rand.public = c.rand.public
          /\ done.rand.private = c.rand.private
          /\ done.rand.drbgs_initialized = c.rand.drbgs_initialized
      BY <3>3, <3>5 DEF Rand
    <3> QED
      BY <1>2, <3>1, <3>5, <3>6 DEF Settled
  <2>2. CASE ~th.rand.specific
    <3>1. done = th
      BY <2>2
    <3> HIDE DEF done
    <3> QED
      BY <1>1, <1>2, <2>2, <3>1 DEF Settled
  <2> QED
    BY <2>1, <2>2
<1> HIDE DEF done
<1>4. e \in Thread /\ e.pc = "absent" /\ e.rand = done.rand
  BY <1>3 DEF Thread, PCs
<1> HIDE DEF e
<1>5. Covered(e)
  BY <1>3, <1>4 DEF Covered
<1>6. Fresh(e, process.fgn, pid)
  BY <1>3, <1>4 DEF Fresh, Asking, Locking
<1> QED
  BY <1>1, <1>2, <1>4, <1>5, <1>6, OneThread DEF SameDetection, ThreadInv

LEMMA ForkedFacts ==
  ASSUME Inv, NEW t \in Threads
  PROVE  LET f == process.fgn
             g == ForkedState(f)
         IN  /\ g \in Fgn
             /\ g.once = f.once /\ g.handler = f.handler
             /\ g.is_fork_detection_enabled = f.is_fork_detection_enabled
             /\ g.current_fork_generation_number = f.current_fork_generation_number
             /\ f.is_fork_detection_enabled => g.expected = f.current_fork_generation_number + 1
             /\ ~f.is_fork_detection_enabled => g.expected = f.current_fork_generation_number
             /\ f.is_fork_detection_enabled /\ platform.wipe => g.zero_on_fork = S2N_FORK_EVENT
             /\ ~f.is_fork_detection_enabled => g.zero_on_fork = S2N_NO_FORK_EVENT
<1> DEFINE f == process.fgn
           g == ForkedState(f)
           zero == IF platform.wipe /\ f.is_fork_detection_enabled
                   THEN S2N_FORK_EVENT ELSE f.zero_on_fork
           orph == f.orphaned \/ f.writer \/ f.readers > 0
           expc == f.current_fork_generation_number + IF f.is_fork_detection_enabled THEN 1 ELSE 0
<1>1. f \in Fgn /\ SetUp
  BY Here
<1>2. /\ f.zero_on_fork \in {S2N_FORK_EVENT, S2N_NO_FORK_EVENT}
      /\ f.orphaned \in BOOLEAN /\ f.writer \in BOOLEAN /\ f.readers \in Int
      /\ f.current_fork_generation_number \in Nat /\ f.is_fork_detection_enabled \in BOOLEAN
  BY <1>1, FgnFields
<1>3. zero \in {S2N_FORK_EVENT, S2N_NO_FORK_EVENT} /\ orph \in BOOLEAN /\ expc \in Nat
  BY <1>2
<1>4. g = [f EXCEPT !.zero_on_fork = zero, !.orphaned = orph, !.expected = expc]
  BY DEF ForkedState
<1>5. /\ f.is_fork_detection_enabled => expc = f.current_fork_generation_number + 1
      /\ ~f.is_fork_detection_enabled => expc = f.current_fork_generation_number
      /\ f.is_fork_detection_enabled /\ platform.wipe => zero = S2N_FORK_EVENT
      /\ ~f.is_fork_detection_enabled => zero = S2N_NO_FORK_EVENT
  BY <1>1, <1>2 DEF SetUp
<1> HIDE DEF zero, orph, expc, g
<1>6. /\ g \in Fgn /\ g.once = f.once /\ g.handler = f.handler
      /\ g.is_fork_detection_enabled = f.is_fork_detection_enabled
      /\ g.current_fork_generation_number = f.current_fork_generation_number
      /\ g.zero_on_fork = zero /\ g.expected = expc
  BY <1>1, <1>3, <1>4 DEF Fgn
<1> QED
  BY <1>5, <1>6 DEF g

LEMMA ForkInv ==
  ASSUME Inv, NEW t \in Threads, Fork(t)
  PROVE  Inv'
<1> DEFINE f == process.fgn
           g == ForkedState(f)
<1>1. PICK raw \in IF platform.wipe THEN BOOLEAN ELSE {FALSE} :
        thread' = [u \in Threads |->
          IF u # t THEN NoThread
          ELSE IF f.handler /\ ~raw THEN [thread[t] EXCEPT !.pc = "atfork"] ELSE thread[t]]
  BY DEF Fork
<1>2. /\ thread[t] \in Thread /\ thread[t].pc = "idle" /\ process \in Process /\ f \in Fgn
      /\ pid \in Nat \ {0} /\ platform \in Platforms /\ SetUp
      /\ platform' = platform /\ pid' = pid + 1 /\ process' = [process EXCEPT !.fgn = g]
  BY Here DEF Fork, InApplication
<1>3. /\ g \in Fgn /\ g.once = f.once /\ g.handler = f.handler
      /\ g.is_fork_detection_enabled = f.is_fork_detection_enabled
      /\ g.current_fork_generation_number = f.current_fork_generation_number
      /\ f.is_fork_detection_enabled => g.expected = f.current_fork_generation_number + 1
      /\ ~f.is_fork_detection_enabled => g.expected = f.current_fork_generation_number
      /\ f.is_fork_detection_enabled /\ platform.wipe => g.zero_on_fork = S2N_FORK_EVENT
      /\ ~f.is_fork_detection_enabled => g.zero_on_fork = S2N_NO_FORK_EVENT
  BY ForkedFacts
<1>4. /\ f.handler \in BOOLEAN /\ f.is_fork_detection_enabled \in BOOLEAN
      /\ f.current_fork_generation_number \in Nat /\ pid + 1 \in Nat \ {0}
  <2>1. pid + 1 \in Nat \ {0}
    BY <1>2
  <2> QED
    BY <1>2, <2>1, FgnFields
<1> HIDE DEF g
<1>5. process' \in Process /\ process'.fgn = g
  BY <1>2, <1>3 DEF Process
<1> DEFINE th == IF f.handler /\ ~raw THEN [thread[t] EXCEPT !.pc = "atfork"] ELSE thread[t]
<1>6. /\ th \in Thread /\ th.rand = thread[t].rand /\ th.pc \in {"idle", "atfork"}
      /\ th.pc = "atfork" <=> f.handler /\ ~raw
  BY <1>2 DEF Thread, PCs
<1>7. \A u \in Threads : thread'[u] = IF u = t THEN th ELSE NoThread
  BY <1>1
<1>8. thread' = [u \in Threads |-> IF u = t THEN th ELSE NoThread]
  BY <1>1
<1> HIDE DEF th
<1>9. NoThread \in Thread /\ NoThread.pc = "absent" /\ ThreadInv(NoThread, g, pid + 1)
  BY <1>3, <1>4, NewFacts
<1>10. TypeOK'
  BY <1>2, <1>4, <1>5, <1>6, <1>8, <1>9 DEF TypeOK
<1>11. SetUp'
  BY <1>2, <1>3, <1>5 DEF SetUp
<1>12. f.is_fork_detection_enabled => Unnoticed'
  BY <1>1, <1>2, <1>3, <1>5, <1>6, <1>7 DEF Unnoticed, SetUp
<1>13. ~f.is_fork_detection_enabled => ~Unnoticed'
  BY <1>2, <1>3, <1>5, <1>6, <1>7, <1>9 DEF Unnoticed, SetUp, S2N_FORK_EVENT, S2N_NO_FORK_EVENT
<1>14. Counted'
  BY <1>3, <1>5, <1>12, <1>13 DEF Counted
<1>15. ForkAlone'
  BY <1>3, <1>5, <1>6, <1>7, <1>9 DEF ForkAlone
<1>16. ThreadInv(th, g, pid + 1)
  <2>1. Settled(thread[t].rand, f, pid)
    BY <1>2, IdleFacts
  <2>2. thread[t].rand.cached \in Nat
    BY <1>2, ThreadFields
  <2>3. Settled(th.rand, g, pid + 1)
    BY <1>3, <1>4, <1>6, <2>1, <2>2 DEF Settled
  <2> QED
    BY <1>3, <1>4, <1>6, <2>3, SettledFacts
<1>17. \A u \in Threads : ThreadInv(thread'[u], process'.fgn, pid')
  BY <1>2, <1>5, <1>7, <1>9, <1>16
<1> QED
  BY <1>10, <1>11, <1>14, <1>15, <1>17 DEF Inv

LEMMA AtforkInv ==
  ASSUME Inv, NEW t \in Threads, s2n_pthread_atfork_on_fork(t)
  PROVE  Inv'
<1> DEFINE f  == process.fgn
           g  == [f EXCEPT !.zero_on_fork = S2N_FORK_EVENT]
           th == [thread[t] EXCEPT !.pc = "idle"]
<1>1. /\ thread[t] \in Thread /\ thread[t].pc = "atfork" /\ process \in Process /\ f \in Fgn
      /\ pid \in Nat \ {0} /\ platform \in Platforms /\ SetUp /\ Counted
      /\ platform' = platform /\ pid' = pid
      /\ ThreadInv(thread[t], f, pid)
  BY Here DEF s2n_pthread_atfork_on_fork
<1>2. f.handler /\ f.is_fork_detection_enabled /\ \A u \in Threads \ {t} : thread[u].pc = "absent"
  BY <1>1 DEF Inv, ForkAlone, SetUp
<1>3. process' = [process EXCEPT !.fgn = g] /\ thread' = [thread EXCEPT ![t] = th]
  BY <1>2 DEF s2n_pthread_atfork_on_fork, Goes
<1>4. g \in Fgn /\ g.zero_on_fork = S2N_FORK_EVENT
      /\ g.once = f.once /\ g.handler = f.handler /\ g.expected = f.expected
      /\ g.is_fork_detection_enabled = f.is_fork_detection_enabled
      /\ g.current_fork_generation_number = f.current_fork_generation_number
  BY <1>1 DEF Fgn
<1> HIDE DEF g
<1>5. process' \in Process /\ process'.fgn = g
  BY <1>1, <1>3, <1>4 DEF Process
<1>6. th \in Thread /\ th.rand = thread[t].rand /\ th.pc = "idle"
  BY <1>1 DEF Thread, PCs
<1> HIDE DEF th
<1>7. thread' \in [Threads -> Thread] /\ \A u \in Threads : thread'[u] = IF u = t THEN th ELSE thread[u]
  BY <1>3, <1>6 DEF Inv, TypeOK
<1>8. TypeOK'
  BY <1>1, <1>5, <1>7 DEF TypeOK
<1>9. SetUp'
  BY <1>1, <1>2, <1>4, <1>5 DEF SetUp
<1>10. Counted'
  <2>1. Unnoticed
    BY <1>1 DEF Unnoticed
  <2>2. Unnoticed'
    BY <1>4, <1>5 DEF Unnoticed
  <2> QED
    BY <1>1, <1>4, <1>5, <2>1, <2>2 DEF Counted
<1>11. ForkAlone'
  BY <1>2, <1>6, <1>7 DEF ForkAlone
<1>12. ThreadInv(th, g, pid)
  <2>1. Settled(thread[t].rand, f, pid)
    BY <1>1, SettledFacts
  <2>2. Settled(th.rand, g, pid)
    BY <1>4, <1>6, <2>1 DEF Settled
  <2> QED
    BY <1>1, <1>4, <1>6, <2>2, SettledFacts
<1>13. ASSUME NEW u \in Threads \ {t}
       PROVE  ThreadInv(thread[u], g, pid)
  <2>1. thread[u].pc = "absent" /\ ThreadInv(thread[u], f, pid)
    BY <1>2, Here
  <2>2. Covered(thread[u])
    BY <2>1 DEF ThreadInv
  <2>3. Fresh(thread[u], g, pid)
    BY <1>4, <2>1 DEF ThreadInv, Fresh
  <2> QED
    BY <2>2, <2>3 DEF ThreadInv
<1>14. \A u \in Threads : ThreadInv(thread'[u], process'.fgn, pid')
  BY <1>1, <1>5, <1>7, <1>12, <1>13
<1> QED
  BY <1>8, <1>9, <1>10, <1>11, <1>14 DEF Inv

-----------------------------------------------------------------------------
(* The theorems                                                              *)

LEMMA InvInit == Init => Inv
<1> SUFFICES ASSUME Init PROVE Inv
  OBVIOUS
<1>1. /\ fgn_state \in Fgn /\ fgn_state.once = "not run" /\ ~fgn_state.handler
      /\ ~fgn_state.is_fork_detection_enabled /\ fgn_state.zero_on_fork = S2N_NO_FORK_EVENT
      /\ fgn_state.expected = fgn_state.current_fork_generation_number
  BY DEF fgn_state, Fgn
<1>2. process \in Process /\ process.fgn = fgn_state
  BY <1>1 DEF Init, InitialProcess, Process, Fds
<1>3. pid \in Nat \ {0} /\ platform \in Platforms
  BY DEF Init
<1>4. /\ FreshThread \in Thread /\ FreshThread.pc = "idle" /\ ThreadInv(FreshThread, fgn_state, pid)
      /\ NoThread \in Thread /\ NoThread.pc = "absent" /\ ThreadInv(NoThread, fgn_state, pid)
  BY <1>1, <1>3, NewFacts
<1>5. /\ thread \in [Threads -> Thread]
      /\ \A t \in Threads : thread[t] = IF t = Main THEN FreshThread ELSE NoThread
  BY <1>4 DEF Init
<1>6. \A t \in Threads : thread[t].pc # "atfork"
  BY <1>4, <1>5
<1>7. TypeOK
  BY <1>2, <1>3, <1>5 DEF TypeOK
<1>8. SetUp
  BY <1>1, <1>2 DEF SetUp
<1>9. Counted
  <2>1. S2N_FORK_EVENT # S2N_NO_FORK_EVENT
    BY DEF S2N_FORK_EVENT, S2N_NO_FORK_EVENT
  <2>2. ~Unnoticed
    BY <1>1, <1>2, <1>6, <2>1 DEF Unnoticed
  <2> QED
    BY <1>1, <1>2, <2>2 DEF Counted
<1>10. ForkAlone
  BY <1>6 DEF ForkAlone
<1> QED
  BY <1>2, <1>4, <1>5, <1>7, <1>8, <1>9, <1>10 DEF Inv

LEMMA InvStep == Inv /\ [Next]_vars => Inv'
<1>1. ASSUME Inv, NEW t \in Threads, Application(t)
      PROVE  Inv'
  BY <1>1, CallInv, CallbacksInv, InitInv, CleanupInv, CleanupFinalInv, StartThreadInv,
     ExitThreadInv, ForkInv, DescriptorsInv, AccessInv DEF Application
<1>2. ASSUME Inv, NEW t \in Threads, Locks(t)
      PROVE  Inv'
  BY <1>2, ReadLockInv, WriteLockInv, AtforkInv DEF Locks
<1>3. ASSUME Inv, NEW t \in Threads, Step(t)
      PROVE  Inv'
  BY <1>3, PublicInv, PrivateInv, OnceInv, ReadUnlockInv, AdvanceInv, GenerateInv,
     DrawAgainInv, FinishInitInv DEF Step
<1>4. ASSUME Inv, UNCHANGED vars
      PROVE  Inv'
  BY <1>4 DEF Inv, TypeOK, SetUp, Counted, Unnoticed, ForkAlone, vars
<1> QED
  BY <1>1, <1>2, <1>3, <1>4 DEF Next

\* The inductive invariant holds in every state: the generation number is one
\* behind exactly while a fork has not been noticed, and a thread whose cached
\* number is the one its process is to see has generators of its process.
THEOREM Invariance == Spec => []Inv
BY InvInit, InvStep, PTL DEF Spec

\* Every variable keeps its type, over all forks, threads and failures.
THEOREM TypeCorrect == Spec => []TypeOK
<1>1. Inv => TypeOK
  BY DEF Inv
<1> QED
  BY <1>1, Invariance, PTL

\* Bits come only from a generator that was seeded with entropy in the process
\* that uses them, and a thread that ends leaves no generator: for any number
\* of threads, forks (also raw ones, also of children), calls and clean ups, on
\* every platform that clears the sentinel or runs the handlers of
\* pthread_atfork (s2n_ensure_uniqueness, s2n_drbg_destructor).
THEOREM SeededInProcess == Spec => []SeededHere
<1>1. ASSUME Inv, NEW t \in Threads
      PROVE  /\ thread[t].pc = "generate" =>
                  Drbg(thread[t]).seeded_by = pid /\ Drbg(thread[t]).entropy
             /\ thread[t].pc = "absent" /\ ~thread[t].rand.init_failed =>
                  ~thread[t].rand.public.ctx /\ ~thread[t].rand.private.ctx
  <2>1. Fresh(thread[t], process.fgn, pid) /\ Covered(thread[t])
    BY <1>1, Here DEF ThreadInv
  <2>2. thread[t].pc = "generate" => Seeded(thread[t].rand, pid)
    BY <2>1 DEF Fresh
  <2>3. thread[t].pc = "generate" => Drbg(thread[t]).seeded_by = pid /\ Drbg(thread[t]).entropy
    BY <2>2 DEF Seeded, SeededBy, Drbg
  <2>4. thread[t].pc = "absent" /\ ~thread[t].rand.init_failed =>
          ~thread[t].rand.public.ctx /\ ~thread[t].rand.private.ctx
    BY <2>1 DEF Covered
  <2> QED
    BY <2>3, <2>4
<1>2. Inv => SeededHere
  BY <1>1 DEF SeededHere, ExitedWiped
<1> QED
  BY <1>2, Invariance, PTL

\* However threads race for the sentinel, a fork advances the generation number
\* once, and the handler of pthread_atfork never aborts a child
\* (s2n_get_fork_generation_number, s2n_pthread_atfork_on_fork).
THEOREM ForksCounted == Spec => []ForkNoticedOnce
<1>1. ASSUME Inv, NEW t \in Threads
      PROVE  /\ thread[t].pc # "aborted"
             /\ thread[t].pc = "generate" => thread[t].rand.cached = process.fgn.expected
  BY <1>1, Here DEF ThreadInv, Fresh
<1>2. Inv => ForkNoticedOnce
  BY <1>1 DEF ForkNoticedOnce
<1> QED
  BY <1>2, Invariance, PTL
=============================================================================
