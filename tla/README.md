# Formal models of the FuSa validation tests

The repository holds the validation tests of the ACRN hypervisor: a bare-metal
guest library (`acrn-unit-test/guest/lib`) and the test programs linked with it
(`acrn-unit-test/guest/x86`). A test program boots on the boot processor (BP),
starts the application processors (APs), runs its cases and reports PASS or FAIL
for each. Paths below are relative to `src/acrn-unit-test/guest`.

Most of the test programs are straight-line code on one processor. What is hard
is what runs on several: processors that start in any order, that are stopped by
an INIT in the middle of a function, that talk through a few volatile variables,
and that share allocators and a console. That part is modelled here, in TLA+,
checked with TLC and, for eight components, proved with TLAPS.

## 1. Inventory

| part | source | state | operations | what is hard |
|---|---|---|---|---|
| cross-processor calls | `lib/x86/smp.c` | one mailbox, `ipi_lock`, `active_cpus` | `on_cpu`, `on_cpu_async`, `on_cpus`, `smp_init`, `ipi` | one mailbox for all CPUs; the callee may itself be spinning for the lock |
| AP bring-up and reset | `x86/cstart64.S`, `x86/cstart64_hsi.S`, `lib/x86/misc.c` | `cpu_online_count`, `lapicid_map`, `smp_stacktop`, `is_all_cpu_init` | `smp_init`, `bringup_ap`, `ap_record_lapicid`, `send_sipi`, `get_cpu_id` | APs in any order; a counter used both as a barrier and as an acknowledgement |
| initial-value protocol | `x86/local_apic.c`, `x86/cpumode.c` and the other programs with `AP_INIT_CHECK` | `cur_case_id`, `need_modify_init_value`, `wait_ap` | `notify_modify_and_read_init_value`, `wait_ap_ready`, `ap_init_value_process`, `ap_main` | two resets per case, with a request that must survive exactly one |
| unchanged-after-INIT cases | `x86/avx.c`, `x86/info_leakage.c` | `cur_case_id`, `wait_ap`, `ap_start_count` | the case on the BP, `ap_main` and its handler | the AP is reset between its answer and the end of its handler |
| multiprocessor-initialization suite | `x86/mp_initialization.c` | `start_run_id`, `wait_ap`, `wait_bp`, `ap_is_running`, `bsp_is_running`, `ap_in_halt` | 18 cases, each with a BP and an AP side | leftovers of one case seen by the next; verdicts taken too early; INIT while a lock is held |
| page allocator | `lib/alloc_page.c` | `freelist` threaded through the free pages | `free_pages`, `alloc_page`, `alloc_pages`, `free_page` | reads outside the lock; the run search |
| early allocator and `malloc` | `lib/alloc_phys.c`, `lib/alloc.c` | `base`, `top`, the log of regions | `phys_alloc_init`, `memalign`, `phys_alloc_get_unused` | rounding, a full log, the hand-over to the page allocator |
| virtual memory | `lib/vmalloc.c`, `lib/x86/vm.c` | `vfree_top`, page tables | `vmap`, `vm_memalign`, `vm_free`, `install_pte` | value used after the unlock; size not a multiple of a page |
| HSI multiprocessor tests | `x86/hsi_multi_proc_mgmt.c` | `start_run_id`, `wait_bp`, `test_atomic_type`, `begin_sim`, `end_sim` | 11 cases, `lock_atomic_test_bp`, `lock_atomic_test_ap`, `ap_main` | end of a test not seen by an AP; MWAIT or HLT after what was to end it |
| memory-ordering suite | `x86/memory_order.c` | X, Y, r1 to r4, four semaphores, `memory_order_sync` | 14 cases and the loop of `loop_run_memory_ordering`, each with its AP functions | store buffers; rounds handed over by counters |
| atomicity suite | `x86/locked_atomic.c` | `start_case_id`, start, stop and success flags, operands | 18 cases with their AP functions | data set up after the case was announced; checks that read twice |
| console, reports | `lib/x86/io.c`, `lib/report.c` | console lock, counters | `puts`, `report` | INIT of the lock's owner |
| interrupts and faults | `lib/x86/apic.c`, `isr.c`, `desc.c`, `usermode.c`, `fault_test.c` | handlers, jump buffers | installation, fault capture | |
| devices | `lib/pci*.c`, `lib/e1000e.c`, `lib/virtio*.c`, `lib/x86/intel-iommu.c` | device registers | register I/O | |
| single-CPU tests | the rest of `x86/` | none that lasts | one instruction, one report | |

The parts interact as follows. `cstart64.S` brings the APs up (ApBoot); the test
cases reset one of them through `send_sipi` and exchange variables with its
`ap_main` (InitValue, UnchangedCase, both compositions with ApBoot); the
multiprocessor-initialization suite sends the INIT and STARTUP messages itself
(MpInit) and shares the console with the AP. `malloc` is served by the early
allocator until `setup_vm` takes all remaining memory from it and gives it to the
page allocator (PhysAlloc, then PageAlloc); from then on `malloc` maps pages of
that allocator at fresh virtual addresses (Vmalloc, a composition with PageAlloc).
The two suites about atomicity and ordering run the same kind of protocol, a BP
that releases two APs round by round (LockedAtomic, MemoryOrder); the suite for
native hardware does both, in lock step (HsiMultiProc, and its ordering cases in
MemoryOrder).

`PROJECT.json` lists every part with its status, the hazards with their lines of
code, and for each definition the lines it models.

## 2. Modules

| module | models | instances |
|---|---|---|
| `Smp` | `lib/x86/smp.c`, one action per access to shared memory | `MCSmp` |
| `RemoteCall` | what `smp.c` promises: a call is posted, runs once, returns | abstract |
| `SmpInv` | inductive invariant of Smp, refinement mapping to RemoteCall | `MCSmp` |
| `SmpProofs` | proofs about Smp, refinement included | |
| `ApBoot` | boot of the BP and APs, `send_sipi` | `MCApBoot` |
| `InitValue` | ApBoot composed with the initial-value protocol | `MCInitValue` |
| `UnchangedCase` | ApBoot composed with cases 37029 and 33870 | `MCUnchangedCase` |
| `ApBootProofs` | proofs about ApBoot, under any test program | |
| `InitValueProofs` | proofs about InitValue | |
| `UnchangedProofs` | proofs about UnchangedCase | |
| `PageAlloc` | `lib/alloc_page.c` | `MCPageAlloc` |
| `Vmalloc` | PageAlloc composed with `lib/vmalloc.c`, `lib/alloc.c` and `install_pte` | `MCVmalloc` |
| `PageAllocProofs` | proofs about PageAlloc, and that Vmalloc is a client of it | |
| `VmallocProofs` | proofs about Vmalloc | |
| `PhysAlloc` | `lib/alloc_phys.c`, `lib/alloc.c`, `setup_vm` | `MCPhysAlloc` |
| `PhysAllocProofs` | proofs about PhysAlloc | |
| `MpInit` | `x86/mp_initialization.c` against a correct or faulty hypervisor | `MCMpInit` |
| `MemoryOrder` | `x86/memory_order.c` and the ordering cases of `x86/hsi_multi_proc_mgmt.c`, on processors with store buffers | `MCMemoryOrder` |
| `LockedAtomic` | `x86/locked_atomic.c` on processors that provide atomicity or not | `MCLockedAtomic` |
| `HsiMultiProc` | the lock-step cases of `x86/hsi_multi_proc_mgmt.c` | `MCHsiMultiProc` |
| `HsiInv` | inductive invariants of HsiMultiProc | |
| `HsiProofs` | proofs about HsiMultiProc | |

Definitions whose comment begins with "Mutant" are wrong variants of the
definition that follows them; no specification uses them. They document which
mistake each property would catch.

### Smp
Every CPU has a program counter for the interrupted program and one for `ipi()`,
which runs on top of it with interrupts disabled. `irr` and `isr` are the bits of
the IPI vector in the local APIC. The history variables `posted`, `started`,
`ended` and `counted` name calls by number, so that a mailbox holding the function
of one call and the argument of another can be seen. Functions passed to `on_cpu`
are leaf functions: they make no cross-processor calls, as in the repository.

### ApBoot
`start_file` says which start-up file the program is linked with
(`x86/Makefile.x86_64`: `cstart64_hsi.S` for `hsi_16_64_cpumode`, else
`cstart64.S`): `cstart64.S` counts an AP online after it recorded its id,
`cstart64_hsi.S` before it has a stack. Only programs with `cstart64.S` call
`send_sipi`. The read, the
subtraction and the write of `cpu_online_count -= 1` are separate steps; the AP's
`lock incw` is one. INIT stops an AP anywhere and clears its stack; STARTUP is
heard only by an AP that waits for it.

### InitValue and UnchangedCase
Both extend ApBoot and interleave the BP's case and the AP's `ap_main` with it.
INIT may preserve or reset the register under test, since which one it does is
what the test is about; a history variable records what it did, and `VerdictSound`
compares the verdict with it. In InitValue the first case may start while
`ap_main` is still running on the last AP from the boot; `settled` remembers
whether it had returned, and `VerdictSound` and `LeavesClean` are stated for the
behaviours in which it had. In UnchangedCase, `program` is `avx`, which saves the
value to restore whenever `ap_main` is entered, or `info_leakage`, which saves it
when it sets a new one.

### PageAlloc
Addresses are page frame numbers, and the link of a free page is kept in the page:
when the page is in use its owner may overwrite it (`Scribble`). The test in
`alloc_page` and the first read in `alloc_pages` happen before the lock is taken
and are steps of their own. A critical section is one step, as it writes
`freelist` once. `usage` says which functions each CPU calls, how many pages it
holds at most and how many pages `setup_vm` may hand over. `SoundUse` is the
condition on it under which the code is right: one CPU alone calls the allocator
(`Alone`), or none calls `alloc_pages` and there are as many pages as all CPUs
together may hold (`Roomy`). The instances and the theorems use it; the run
`page_alloc_race` shows what happens without it.

### Vmalloc
The state of PageAlloc, `vfree_top`, one level of page tables and, for each CPU,
the call of `memalign` or `free` it is in. `alloc_vpages` reads `vfree_top`
after it has unlocked, so the read is a step of its own; each page is taken with
the steps of PageAlloc, and `install_pte` takes one more page when a page table
is missing. `vm_free` returns page after page and leaves the page tables as they
are. Virtual addresses count units of which a page has `PageSize`, so that the
rounding of `memalign` is kept. `OneMalloc` says that one CPU at most calls
`malloc`.

### PhysAlloc
`memalign`'s arithmetic (alignment, metadata, rounding) is kept, over small
numbers: `Word` stands for `sizeof(uintptr_t)` and `Limit` for the 4 GiB bound of
32-bit builds. The reads of `phys_alloc_get_unused` before its lock are a step of
their own.

### MpInit
Each function of the suite is a sequence of instructions, written with
constructors named after what they do (`Set`, `Await`, `Delay`, `InitIpi`,
`Report`...), and the processors interpret them. An increment is a load and a
store. `fault` is the requirement that the hypervisor under test gets wrong, or
"none". The suite is judged twice: it must pass on a correct hypervisor, and a
case must not pass on the hypervisor whose fault it is there to find.
`test_delay` is modelled as long enough for the other processor to come to rest.
If `prompt`, the BP further reaches its next wait before the AP takes its next
step of a handshake; without it the AP may be anywhere when the BP goes on.

### MemoryOrder
The assembly functions are sequences of loads, stores, exchanges and serializing
instructions, and the drivers of the BP differ in a record (`one_ap`, `two_ap`,
`three_ap`, `ordering_bp_test_two_ap`): which APs they release, whether they
leave at the first detection, when they call the BP's own function. Each
processor has a FIFO store buffer that its own loads read; locked and
serializing instructions wait until it is empty; with memory type UC accesses go
to memory at once. The output operands of an asm statement are stored after it,
one by one. `pat` is the memory type of each processor:
`memory_ordering_memory_type` writes that of the BP only. An output-only operand
of `xchg` holds an arbitrary value. `early` records that a load overtook an
older store, so that `DetectionReal` can say that a reported reordering was one.
The native build of this program is left out: see section 5.

### LockedAtomic
Functions are sequences of instructions, as in MpInit. `fault` makes LOCK
ineffective, or splits accesses; `broken` records that an update was lost or a
mixture of two values seen, and `VerdictExact` compares each report with it.
Memory under test is two halves that hold 0 or 1. C code that uses a plain
variable twice in an expression may load it once or twice; `reload` says which.
With `prompt`, the BP gets from announcing a case to its first wait before an AP
reacts.

### HsiMultiProc
One action per access to the shared counters, on both sides. `fault` is as in
LockedAtomic; `monitor` and `deadline` are what CPUID offers; a `patient` BP's
delays (8 ms against a poll of 5 ms) and its printing of a report last until the
APs have come to a stop. `armed` is the BP's monitor, hit by a write that comes
after MONITOR, and `timer` its deadline timer: an interrupt taken before `hlt`
does not end it.

## 3. Runs

Passing runs (states are distinct states):

| run | instance | shows |
|---|---|---|
| `smp` | 3 CPUs, 2 calls after `smp_init`; 75,299 states | mailbox intact, no IPI lost, synchronous calls complete, at most once, exact count, every call returns, implements RemoteCall |
| `init_value` | 2 APs, both start-up files, 2 cases of 2 resets each, settled or not; 46,173 states | boot: private stacks, complete numbering, exact online count, lock held by whoever is inside, the BP always comes back; cases: every case ends, and if settled, sound verdict and nothing left for the next case |
| `unchanged` | 2 APs, both programs; 13,574 states | sound verdict, cases end; `info_leakage.c` restores the register |
| `page_alloc` | module Vmalloc: 1 CPU that calls all of the page allocator, or 2 that never hold all pages, up to 5 pages, orders 0 to 2; `malloc` and `free` on 6 pages alone, or on 5 beside another CPU's `alloc_page`; 1,043,799 states | one owner per page, none lost, list intact, heap intact |
| `phys_alloc` | 1 CPU, three memories, limit inside one, log of 2; 4,480 states | blocks disjoint, results fit, log in bounds, rest handed over, IInv |
| `mp_init` | correct hypervisor, prompt and not, and 14 faults; 9,242 states | no false failure, which faults are found and which two are not, the suite ends |
| `memory_order` | three programs, 3 rounds of each test; 212,770 states | no forbidden outcome is reported (two cases excepted), detections are real and of their round, every round handed over exactly, the suite ends |
| `locked_atomic` | both builds, three kinds of processor, prompt and not, operands reloaded or not, 2 rounds, 2 bits; 1,280,091 states | exact verdicts, APs in step with the BP, the suite ends |
| `hsi_multi_proc` | three kinds of processor, with and without MONITOR and deadline timer, patient and not, 3 rounds; 517,731 states | rounds handed over exactly, the right instruction in each, exact verdicts, the suite ends with both APs where the ordering cases want them |

Runs that exhibit a disagreement between the code and one of its comments or
callers (quotations under "findings" in `PROJECT.json`):

| run | the code |
|---|---|
| `ap_boot_hsi_ap1` | on the HSI path an AP may find the map closed, and then no AP has number 1 |
| `page_alloc_race` | `alloc_pages` starts from a head read before the lock |
| `mp_init_39038` | INIT can stop the AP inside `puts`, and the BP then waits for the console for ever |

### Conditions under which properties are stated
Some properties are conditional because the code needs the condition. Most of
these conditions are hazards in `PROJECT.json`.

* InitValue: `settled`. `local_apic.c:155-156` posts the request before the
  reset that is to precede it, and an AP still in `ap_main` may take it at once.
* ApBoot: `MapComplete`, and `MapStable`, hold with `cstart64.S` only.
  `send_sipi` resets the AP that recorded its id last, whatever its id
  (`misc.c:157`).
* PageAlloc: with two CPUs, not all pages are in use. Otherwise the test at
  `alloc_page.c:60`, outside the lock, may be out of date at line 65.
  `alloc_pages` is called by one CPU alone. It may return NULL although a run
  begins right after a shorter one (line 117); no property says it does not.
* PhysAlloc: `LogInBounds` is about allocations. The entry that
  `phys_alloc_get_unused` adds (`alloc_phys.c:125`) is not tested against the
  size of the log. `UnusedOwned` is checked with one CPU, as base and top are
  read outside the lock (line 120). A request when nothing at all is left fails
  the assertion at line 85; one that finds too little is refused.
* MpInit: `SuiteCompletes` needs a prompt BP, as `mp_init_39038` shows.
  `PassRegardless` records that 33849 and 39039 do not find the fault they are
  about. 26998 reports right after its second SIPI (`mp_initialization.c:548`)
  and is in neither list.
* UnchangedCase: `PutsBack` is about `info_leakage.c`. In `avx.c` the entry into
  `ap_main` after the reset (line 119) saves the value again, over the one to be
  restored.
* Vmalloc: one CPU in `malloc`. With two, both may read the lower `vfree_top` at
  `vmalloc.c:26`, and their blocks overlap. Pages suffice for each request: the
  result of `alloc_page` at `vmalloc.c:67` is not tested. That the pages of a
  block are physically contiguous, as the comment at the head of `vmalloc.c` may
  be read, is true of no part of it and not stated.
* PhysAlloc: a refused request makes `memalign` return a small non-null address
  (`alloc.c:57`); the step is there, and no property is stated of its result.
* MemoryOrder: `VerdictSound` excepts 39348, where UC is set on the BP
  (`memory_order.c:1420`) and the accesses are the APs', and 39312 when its
  undefined operand wrote a 0. A FAIL because an allowed outcome did not occur
  is not an error of the program in this sense: no fairness makes a race come
  out in a given way.
* LockedAtomic: `VerdictExact` is stated for a prompt BP in the three cases that
  set their data up after they announced themselves (`locked_atomic.c:357`:
  `start_sem` is raised before the flags are reset), not for 37873 and 28270,
  whose checks read the memory twice or byte by byte while the other AP writes,
  and for the four checks of plain operands only if these are loaded once. 39502
  passes whatever the processors do: its `install_page` does not write the entry
  it reads. `SuiteCompletes` needs a prompt BP.
* HsiMultiProc: `NONE_TEST` and `INSTRUCTION_ADD` are the same number, so the
  APs do not see the end of 35972; `RightInstruction` states the one consequence
  this has for a patient BP, an addition in the first round of 35973.
  `VerdictExact` and `SuiteCompletes` need a patient BP, the latter also MONITOR
  and the deadline timer: without MONITOR 35977 never announces itself and no AP
  gets to the ordering cases; without the timer, or if it expires between `sti`
  and `hlt`, 35975 does not return. `RoundExact` needs none of this.

### Bounds
Three CPUs are the fewest with a caller, a callee and a bystander that wants the
lock; two calls after boot let one follow another, and overlap it from another
CPU. Two APs start in either order, and either may be the last in the map; what
they show of the boot is proved for any number. Two resets in each of two cases
let every reset but the first find the leftovers of another. Two cases in a row
do the same for the initial-value protocol. Five pages starting at frame 4 hold
an aligned run of four with a neighbour, and unaligned starts for orders 1 and
2. Two CPUs hold at most two pages each of the five, so that one is always free.
A log of two entries is full after two of the five or so blocks that fit. In
Vmalloc a page table maps three virtual pages of five, so that a block needs a
new table or none, and blocks of one and two pages occur. MpInit needs no bound:
the suite is finite. Of the thousands of rounds of the ordering and atomicity
tests two or three are run: a round can be disturbed by what the one before
left, and all of them reset the same variables; a third round follows one that
itself followed another. Two of the 32 bits of `ptr`, one for each AP, can
already lose an update. `MCLoopCases` has two of the entries of the table of
serializing instructions, which all run the same functions. `MaxInvocations`,
`MaxResets` and `MaxCases` appear in the guards of the actions they limit.

### Deadlock
Deadlock is checked except in the runs of PhysAlloc and Vmalloc, where all
memory may be used up and a failed assertion ends the program; of MpInit, where
the suite ends and where a faulty hypervisor may hang the tests; and of
MemoryOrder, LockedAtomic and HsiMultiProc, whose suites end, and of which the
last two may hang under the settings that `SuiteCompletes` excepts. In ApBoot a
BP that waits goes round its loop (`Looping`), as in the code, so that a wait
without end shows as a violated liveness property.

### Fairness
Each processor runs by itself, so the steps of each are weakly fair. A spin lock
that is free again and again is won eventually (strong fairness on the
acquisition): the test-and-set of `spin_lock` has no such guarantee by itself,
but each processor takes the locks of `misc.c` and `smp.c` a bounded number of
times, so none can take them away from another for ever. In MpInit every
`test_delay` ends. In MemoryOrder every buffered store reaches memory at some
time; in HsiMultiProc an armed timer expires. No fairness is assumed of the calls
a test may make, nor of the outcome of any race.

## 4. Proofs

TLAPS checks the following for every value of the constants.

* `SmpProofs`: `Spec => []IInv` for any number of CPUs and calls, and from it
  `TypeOK`, `MailboxIntegrity`, `NoLostIpi`, `SyncCompletes`, `AtMostOnce`,
  `NoNesting`, `ActiveExact` and the action property `OnCpusCompletes`.
  None of these is inductive alone. `IInv` adds who holds `ipi_lock` and how far
  the owner has come (`LockInv`, `PhaseInv`, `OwnerInv`), where the signal for
  the current call is - not yet raised, requested, in the handler, acknowledged -
  in exactly one place (`SignalInv`), what the handlers hold in their locals
  (`HandlerInv`), that a call being prepared has not run (`FreshInv`), the order
  of the history sets, and the balance of `active_cpus` (`CountInv`).
  Last comes the refinement, `Spec => ImplementsRemoteCall`, with the mapping of
  `SmpInv`; the handler's call of the function and its return are the abstract
  steps, all other steps stutter or post.
* `PhysAllocProofs`: `Spec => []IInv`, and from it `BlocksApart`, `BlocksInside`,
  `UserInside` and `LogFaithful`, for every memory, limit, set of sizes and set of
  alignments in which the smaller of two divides the larger (powers of two do).
  `IInv` adds `Upwards`: memory is given out upwards, so a new block starts above
  all earlier ones. The arithmetic of rounding rests on lemmas about `ALIGN`.
  `LogInBounds` is proved from `IInv` by an induction of its own, and so is
  `UnusedOwned`, for one CPU: base and top are read outside the lock, and with a
  second CPU that allocates in between the theorem would be false.
* `ApBootProofs`: `BootRuns => []BootInv`, where `BootRuns` says that a program
  takes steps of ApBoot and steps that leave the variables of the boot alone,
  for any number of APs and resets and both start-up files, and from it
  `StacksDisjoint`, `LockOwned`, `OnlineExact`, `MapComplete` and the action
  property `MapStable`. `OnlineExact` is stated of the BP in its program, and is
  inductive only with the whole course of a reset: `PhaseInv` says for each
  place of the BP where the APs are and what the count is, in particular that
  from SIPI on exactly one AP is out and the count returns to one more than the
  number of processors before it is corrected. `LockInv` is needed because
  `send_sipi` may not reset an AP that holds the lock, and `MapInv` says that
  the entries written are one to one with the APs that have recorded themselves,
  counted by cardinality. BootInv was first checked with TLC for 3 APs and 2
  resets.
* `InitValueProofs`: `Spec => BootRuns` for InitValue, so that the theorems above
  hold of it, and `VerdictSound` and `LeavesClean` for any number of APs, cases
  and resets. `CaseInv` follows a settled case through its two resets: all
  APs but the target are halted, the target takes the request after the first
  INIT and has modified its register when it answers (`ServesFirst`), and after
  the second it leaves the register alone (`ServesSecond`). From BootInv it uses
  that `send_sipi` resets the AP numbered last, and only one that is in
  `ap_main`.
* `UnchangedProofs`: the same for UnchangedCase, with `VerdictSound` and
  `PutsBack`. A request may be served twice here, once before and once after the
  INIT that cuts the first answer short; `CourseInv` gives the flags, the count
  of starts and the values for every place of the BP, `ServeInv` what an AP
  inside `ap_main` is about to do with them (`ServesFirst`, `ServesSecond`,
  `ServesThird`, by the phase of the case). Checked with TLC first, with two APs
  and both programs.
* `PageAllocProofs`: `OneOwner` and `NoneLost` for any number of CPUs and pages
  and every usage that is `SoundUse`. The invariant `PageInv` is about the list
  itself: there is a sequence of distinct pages, each linked to the next from
  `freelist` on, and its members are the pages handed over that nobody owns
  (`HasList`). Lemma `Pushed` says what `free_pages` does to such a sequence,
  `Cut` what `alloc_page` and `alloc_pages` do, `WalkList` that following the
  links meets exactly its members, and `ScanFinds` that a run found by the loop
  of `alloc_pages` is a run of neighbours on the list. The last two are
  inductions along the list, by the least position that fails. `InCall` carries
  what was read before the lock into the critical section: with one caller
  nobody has changed the list, and if the pages suffice there is one left, which
  `NotAllOwned` shows by counting. Then `VmSpec => Spec`: `malloc` and `free` move
  the allocator's state only as its own functions do, so both hold with them too.
* `VmallocProofs`: `HeapIntact` for every size, alignment, page size and number
  of blocks, under `SoundUse` and `OneMalloc`. `HeapInv` adds to the blocks the
  call that is under way: the virtual pages it has reserved, those it has mapped,
  the page it has taken and not mapped yet (`JobOk`, `MappedBy`, `InHand`). All
  of these and the page tables are different pages that malloc's CPU owns
  (`Sound`), and blocks have no virtual page in common (`Apart`). It relies on
  `PageInv`: the page that `alloc_page` takes is owned by nobody. That
  metadata and block fit is the arithmetic of `memalign`, which for alignments
  up to a word needs the word to divide the page. `HeapInv` was first checked
  with TLC on the instance of `page_alloc`.
* `HsiProofs`: `RoundExact`, `RightInstruction` and
  `VerdictExact` for any number of rounds (the code has 1000 and 100000; TLC runs
  3), every setting of the processors and of CPUID. The invariants are in
  `HsiInv` and were first checked with TLC for 3 rounds.
  `HandInv` gives `RoundExact`: the signal to an AP is unsent, in `begin_sim`,
  taken, carried out or answered in `end_sim`, and the BP's place says which of
  these are possible. It needs no patience of the BP.
  `Placed` says where each AP can be for every place of the BP, case and round,
  and what `start_run_id`, `test_atomic_type` and `wait_bp` are then; `wait_bp`
  counts the APs that have still to enter. It is inductive because a patient BP
  reports only when the APs have stopped. Its weakest part is 35973: an AP may
  still be in the loop of 35972 there, where it runs nothing after the first
  round. `DidInv` and `RightInstruction` follow.
  The verdicts need an invariant for each case. In 35972 (`AddInv`) `val_test0`
  is short of the additions made exactly if one was lost, and cannot catch up,
  since an AP between load and store has loaded the present value or one less.
  In 35973 (`XchgInv`) the three values are a permutation exactly if no exchange
  was lost, and once they are not, the check of that round counts a failure. In
  39720 (`MovInv`) whole stores leave one of the two values. `CountInv` is the
  count of 35955.

Assumptions: the named `ASSUME`s of `Smp`, `PhysAlloc`, `ApBoot`, `InitValue`,
`UnchangedCase`, `HsiMultiProc`, `PageAlloc` and `Vmalloc`, which say only that
the constants have the types the code gives them, in `HsiMultiProc` that there
are at least two rounds, in `PageAlloc` that a power of two is a positive number
(the provers know nothing of exponents), and in `Vmalloc` that a page is a
multiple of a word and no alignment exceeds a page, as `vm_memalign` asserts.
The conditions `SoundUse` and `OneMalloc` are hypotheses of the theorems; they
are assumptions of `MCVmalloc`, where TLC evaluates them for the usages of the
run.

Only model-checked: everything about MpInit, MemoryOrder and LockedAtomic, and
all liveness (`CallsReturn`, `BackInMain`, `CaseCompletes`, `SuiteCompletes`),
which the prover does not handle; likewise `ENABLED`. MpInit, MemoryOrder and
LockedAtomic are suites of cases whose verdicts depend on every single step of
each case, for two or three processors; their instances have all the cases, and
only the number of rounds is smaller than in the code.

## 5. Not modelled

* The native build of `memory_order.c`, with its two cases for three APs. Its
  `ap_main` (line 1969) halves the number that `get_cpu_id` gives, which has no
  gaps: processors 2 and 3 take the part of AP 1 on one semaphore, and processor
  1 that of the BP, whose entry in the table is NULL. What then happens depends
  on the address 0.
* `vmap` of `vmalloc.c`, which maps device memory; of `vm.c`, the boot-time
  mappings and the queries.
* The 32-bit boot path `cstart.S`, which follows the protocol of `cstart64.S`.
* Fault capture (`fault_test.c`, `usermode.c`, `desc.c`), the local APIC driver
  and the e1000e rings: register I/O and control transfers on one processor.
* Device I/O, formatting and string functions, the single-CPU instruction, MSR,
  CPUID, paging and virtualization tests, the real-mode and virtual-8086
  programs and the host-side scripts. These are the bulk of the repository by
  lines, one access and one report per case. They have no concurrent or lasting
  state to explore, and a model of one would repeat its single assignment; for
  this reason the models cover a small share of all lines.
* In the modelled files: `check_cpu_online_status` and the command parsing of
  `misc.c`, the two safety-VM cases of `mp_initialization.c`, `mwait_test_bp`
  and `bp_sync` of `hsi_multi_proc_mgmt.c`, and `page_memalign`, `page_free`,
  `page_alloc_ops_enable`, none of the last five with a caller in an x86
  program.
