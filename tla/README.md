# TLA+ models of KOS

Model-checked TLA+ specifications of the KOS kernel in `src/`: its physical memory
manager (`src/memory.c`), its slab heap (`src/kmalloc.c`), its scheduler
(`src/scheduler.c`), its virtual memory manager (`src/vmm.c`), its TCP stack
(`src/tcp.c`, with the parts of `src/ip.c` and `src/network.c` that carry segments), its
text console and exception path (`src/console.c`, `src/idt.c`), its string library
(`src/string.c`) and its PCI bus scan and register helpers (`src/pci.c`). `Memory.tla` composes the VMM and the slab heap over one pool of frames.
Every definition is
translated from the C source. `PROJECT.json` maps each definition to the lines it
models. It also lists the TLC runs, the mutants that show each checked property can
fail, the findings, and the hazards the properties are aimed at.

## 1. Inventory of the system

| Component | Source | State | Operations |
|---|---|---|---|
| Physical memory manager (PMM) | memory.c, kernel.h (bitmap ops, spinlock) | `zones[3]`: base_pfn, end_pfn, total_pages, free_pages, bitmap, lock; the early bitmap at 1 MiB | `pmm_early_alloc`, `pmm_init`, `pmm_alloc_page`, `pmm_alloc_pages`, `pmm_alloc_huge_page`, `pmm_free_page`, `pmm_free_pages`, `pmm_get_free/stats` |
| VMM | vmm.c | `kernel_pml4`, page-table frames, entries with PRESENT/WRITABLE/HUGE bits | `vmm_init`, `get_or_create_table`, `vmm_map_page`, `vmm_map_huge_page`, `vmm_map_pages`, `vmm_unmap_page`, `vmm_create_address_space`, `vmm_get_phys` |
| Slab heap | kmalloc.c | 8 size classes (16..2048), each with a free list and counters; `kmalloc_lock`; object headers {magic, size, next} | `kmalloc`, `kzalloc`, `kfree` |
| Scheduler | scheduler.c | `runqueues[]` (head, tail, nr_running, lock); `next_tid/pid`; per-CPU `current_thread`; threads {state, rsp, kernel_stack, next} | `scheduler_init`, `enqueue`, `dequeue`, `schedule`, `yield`, `sleep`, `scheduler_ap_entry`, `process_create`, `context_switch` |
| TCP | tcp.c, net.h | socket list; per socket: state, ports, snd_una/snd_nxt/rcv_nxt, the 64 KiB rx/tx rings with 32-bit head/tail counters | `tcp_socket/bind/listen/connect`, `tcp_tx`, `tcp_rx`, `tcp_send/recv/close`, `tcp_timer_tick`, `tcp_cleanup` |
| IP / network | ip.c, network.c | none beyond the NIC registry | `ip_rx` → `tcp_rx`, `ip_tx` |
| Interrupts | idt.c, apic.c, ioapic.c, pit.c | `idt[256]`, `irq_handlers[16]`, timer handler pointer | `idt_init`, `interrupt_handler`, `irq_register_handler`, `lapic_timer_*` |
| Console | console.c | `vga_buffer[80*25]`, `cursor_x`, `cursor_y`, colours; an unused framebuffer path | `console_early_init`, `vga_putchar`, `print_hex`, `print_dec`, `kvprintf`, `kprintf`, `kernel_panic` |
| String library | string.c | none (works on caller memory) | `mem*`, `str*` |
| PCI | pci.c, kernel.h | `devices[256]` (struct pci_device), `device_count`; the configuration space behind ports 0xCF8/0xCFC | `pci_init`, `pci_find_class`, `pci_find_device`, `pci_get_device(_count)`, `pci_read_dword/word`, `pci_write_word`, `pci_read_bar`, `pci_enable_bus_mastering`, `pci_enable_msi` |
| Boot, ACPI, drivers | main.c, acpi.c, drivers | device registers | a linear init sequence; probes through `pci_find_class`/`pci_find_device` |

**How the parts interact.**
- PMM serves frames to everything else:
  - VMM page tables through `pmm_alloc_page`;
  - slab pages through `pmm_alloc_page`, and large allocations through `pmm_alloc_pages`;
  - kernel stacks through `pmm_alloc_pages(4)` in `process_create`.
- Each allocator returns `PHYS_TO_VIRT` pointers, and every consumer writes through them.
- The slab heap backs process and thread objects and TCP sockets.
- `tcp_rx` is reached from `ip_rx`.
- The drivers find their devices in the table `pci_init` fills, through `pci_find_class` and `pci_find_device`.
- There is no concurrency in this build:
  - `kernel_main` never calls `process_create`, `schedule` or `network_init`.
  - No AP is started: `smp_init` is declared but never defined.
  - No interrupt handler is registered.
  - The LAPIC timer is a stub.
  - So kernel code runs on the boot CPU alone, and each call into a component completes before the next one starts.
- The models therefore treat one call as one step. They check every order of calls a caller can make, not interleavings inside a call.

**What is hard.**
- **Boot-time arithmetic over a firmware map.** Page alignment, the 1 MiB clamp, classifying a range by its end address, and bounding-box zones. The early allocator writes its results over its own tracking bitmap.
- **Ownership of frames.** A frame used for metadata (the kernel image, the early bitmap, zone bitmaps) must never also be a free frame. Zeroing a handed-out frame writes through the direct map.
- **Intrusive lists.** The run queue and the socket list are updated through raw `next` pointers, with `nr_running` kept beside them.
- **Context switching written in C.** What runs after `context_switch` depends on the compiler's epilogue, which is undefined behaviour.
- **TCP sequence arithmetic and teardown.** There are 32-bit counters, and a half-implemented close path.

**Properties that make each component correct.**
- **PMM**:
  - For every zone, `popcount(bitmap) + free_pages = end_pfn - base_pfn` (spec §8).
  - No frame is held twice.
  - No allocator hands out a frame that is not RAM, or that belongs to the kernel or to metadata.
  - An allocation fails only when no free run exists.
  - `free_page` undoes `alloc_page`.
  - `pmm_init` boots on ordinary maps.
- **Scheduler**:
  - `nr_running` equals the list length, and no thread is lost or queued twice (spec §8).
  - FIFO round robin (scenario 4).
  - `current_thread` is the running thread, and created threads reach their entry point.
- **Slab**:
  - Live objects carry the magic.
  - A free list never holds an object twice, and no object is handed out twice.
  - A kmalloc/kfree round trip restores the cache.
- **VMM**:
  - `get_phys` inverts `map_page`.
  - Unmap clears the mapping.
  - The direct map covers what `PHYS_TO_VIRT` promises.
- **TCP**:
  - `snd_una ≤ snd_nxt` and `rx_tail - rx_head ≤ 65536` hold modulo 2^32.
  - The handshake reaches ESTABLISHED with the right numbers.
  - Closing on both sides empties the socket list.

## 2. Plan

Ordered by what matters most.
1. **PMM** (done). This is everything else's foundation.
2. **Scheduler** (done, boot CPU).
3. **Slab** (done), over a single-zone view of PMM's page interface.
4. **TCP** (done) with an abstract byte-stream spec that the socket model refines (INSTANCE … WITH), plus the rx ring with 32-bit counters.
5. **VMM** (done): the table walk, huge leaves, `vmm_init`'s layout and the batch API.
6. **Compositions**:
   - `process_create` stacks as PMM allocations;
   - the VMM and the slab heap over one pool of frames (done: `Memory.tla`);
   - an abstract allocator that PMM and Slab refine.
7. **Console and string library** (done): the cursor, wrap and scroll logic against a reference screen, `kvprintf` against a reference printf, `string.c` against reference meanings.
8. **PCI** (done): `pci_init`'s scan, BAR sizing and capability walk, and the MSI and bus-mastering writes, against what the PCI specification says the registers mean.


## 3. Modules

### PMM.tla: `src/memory.c`

**State.** The model's variables map to the code as follows:

| Variable | Code |
|---|---|
| `zone[z]` | `zones[z]`'s base_pfn, end_pfn, total_pages and free_pages |
| `bitmap[z]` | the frame numbers whose bit is 1 |
| `bitmapAt[z]` | the frame `pmm_early_alloc` returned for the zone's bitmap |
| `panicked` | kernel_panic during init |
| `held` | pointers returned and not yet freed, as higher-half frame numbers |
| `last` | the last call and its result |

**Scaling.** Addresses are scaled, but every formula is kept:
- A memory-map entry is in bytes of a `PAGE_SIZE`-byte frame.
- Each threshold of the code is a constant: 1 MiB, 16 MiB, 4 GiB, the 0x1000-frame reserve, 512-frame huge pages, 64-bit words, the 32 KiB early bitmap and its 65536-index scan.

**Init = `pmm_init`.** It takes a map from `MemMaps` and computes every step at once:
- the first pass (zone boxes and totals);
- `pmm_early_alloc` for each zone's bitmap, as the recursive `PlaceBitmaps`;
- the 0xFF memset's effect on the early bitmap;
- the second pass, which clears bits and counts once per entry iteration;
- the NORMAL reserve loop.

**Actions.** Each call is one step under its zone lock:
- `AllocPages(n)` is `pmm_alloc_pages(count)`: 0 gives NULL, and 1 goes to `AllocPage` (`pmm_alloc_page`).
- `AllocHugePage` is `pmm_alloc_huge_page`.
- `FreePages(a)` is `pmm_free_pages` over `pmm_free_page`.
- `Grant` is the shared tail of the allocators: set the bits, drop `free_pages`, and memset through the direct map. That memset (`Zeroed`) clears the bits of any zone bitmap stored in the zeroed frame.
- `FreeOne` keeps the code exactly:
  - the pfn is `virt / PAGE_SIZE`, with no VIRT_TO_PHYS;
  - a set bit is reported as a "double free";
  - a clear bit is cleared and counted.

  Every pointer the allocators return is a higher-half address that no zone contains, so a free changes nothing but `held`.

### Slab.tla: `src/kmalloc.c`

**State.**

| Variable | Code |
|---|---|
| `freeList[i]` | `slabs[i].free_list` |
| `hdr[a]` | the 16-byte header {next, magic, size} at address `a`, for every slot of every slab page |
| `slabClass[f]` | the class frame `f` was carved for (ghost, for the properties) |
| `used` | frames the PMM has handed out |
| `live` | what callers hold, as [ptr, size] |
| `last` | the last call and its result |

**Scaling and abstractions.**
- Addresses are `VBASE + frame * PAGE_SIZE + offset`.
- Pages are 256 bytes, so the classes are 16, 32, 64 and 128. `KMALLOC_MAX_SIZE` is half a page, as 2048 is of 4096. The header stays 16 bytes, so a slot's layout is the code's.
- The `allocations` and `frees` counters are never read and are left out.
- The PMM side returns the lowest free frame, or the lowest run of free frames, as `pmm_alloc_page` and `pmm_alloc_pages` do within one zone.

**Actions.**
- `KMalloc(size)` is `kmalloc`:
  - the large path goes to `pmm_alloc_pages`;
  - otherwise it pops the class's free list (`Pop`);
  - on an empty list it takes a page and carves it (`Carve`: each slot linked to the next, the last to NULL, magic 0), then pops.
- `KZalloc(size)` is the same, followed by the memset of `size` bytes from the returned pointer (`Memset`). The memset zeroes every header it covers. Sizes are multiples of 16, so a header is covered wholly or not at all.
- `KFree(a)` is `kfree` of an allocation a caller holds:
  - it reads the header 16 bytes before the pointer;
  - without the magic, or with a size above the maximum, the heap is left as it is;
  - otherwise it pushes the header on its class's list.

  Memory that is not a slot header (user bytes, pages of large allocations) is assumed never to hold the magic.

### Scheduler.tla: `src/scheduler.c`

**State.**
- `runqueues[0]` at pointer level: `head`, `tail`, `nr`, and `next[t]`.
- `locked` (the rq lock).
- `current` (`c->current_thread`).
- `ctx`: the context the CPU really executes. It is `BOOT` for kernel_main's context, a thread, or `HALTED`.
- `saved[t]`: what `t->rsp` resumes, either `FRESH` (the initial frame) or a saved context.
- `created`, `alloc` / `stack` (the kernel stack), and `entered` (threads that reached entry).
- `build`: the code generated for `context_switch`.

**Actions.**
- `ProcessCreate(base)` appends the new thread without the lock. `base` is what `pmm_alloc_pages(4)` returned, with 0 meaning failure.
- `Schedule` is `schedule` / `yield` / `sleep`. It reads prev, re-enqueues prev, dequeues next, sets `current_thread`, and switches if `prev && prev != next`.

**`context_switch` builds.** It loads rsp inside a C function, and what happens next is decided by code the compiler emits. The model chooses it once per build in `Init`, over the two outcomes a build can produce:
- **"leave"**: rsp is restored from rbp, the switch is undone, and the caller continues.
- **"ret"**: the epilogue pops from the new stack. That resumes a context saved by an earlier switch. On a fresh thread it pops the first word of the initial frame instead, which is 0, and the CPU halts on the fault with the rq lock held.

### TCP.tla and ByteStream.tla: `src/tcp.c`, `src/net.h`, `src/ip.c`, `src/network.c`

**KOS state.**
- `sockets` is the socket list as a sequence of struct ids, in `tcp_socket`'s prepend order.
- `sk[i]` holds the fields tcp.c reads or writes:
  - state and ports;
  - `snd_una`, `snd_nxt`, `rcv_nxt`;
  - `rx_head` and `rx_tail`;
  - the ring's contents.
- `next_port`.
- `arp`: whether the remote host is in the ARP cache.
- Counters wrap modulo `U32` (2^32 scaled to 16), and `TCP_RX_BUF_SIZE` is `RX_BUF` = 4.

**Actions.**
- `TcpSocket`, `TcpBind`, `TcpListen`, `TcpConnect`, `TcpSend`, `TcpRecv`, `TcpClose` and `TcpCleanup` are the API functions, each one whole call.
- A call that sends ends in `Tx`, which is `tcp_tx`'s `snd_nxt` update, and `IpSend`. `IpSend` is `ip_send`, which drops the segment on an ARP miss because `arp_request` sends nothing.
- `KosRx` is `network_rx` → `ip_rx` → `tcp_rx` of the segment at the head of the wire. It covers:
  - `Lookup`, the first-match list scan;
  - the LISTEN case (`Child`);
  - `Rx` for every other state, with `Established` and its in-order, trim and wrap-copy step `InOrder`/`RingWrite`.
- `ArpReply` is `arp_rx` → `arp_add`.
- `TcpTimerTick` is defined but left out of `Next`, because nothing enters TIME_WAIT.
- `tcp_accept` is declared and never defined, so the application uses a child socket directly.

**The application.** It may call any function on any listed socket, with two exceptions. It never binds the listening port on a socket it has connected, and never connects from the listening port. Under those two limits the remote host's connection has exactly one socket.

**The remote host.** It is a single RFC 793 endpoint, either the client (`PeerRole`) or the server.
- It sends data numbered by its stream position, so loss, duplication or reordering shows in what KOS's application reads.
- It accepts only in-sequence segments and acknowledges cumulatively.
- Its timer retransmits the SYN, the SYN|ACK, the unacknowledged data or the FIN when nothing is in flight.
- KOS advertises a window of `(uint16_t)65536 = 0`. The host nonetheless keeps up to `RX_BUF` bytes unacknowledged, so the receive path and the full ring are exercised.
- The wires are FIFO sequences. A segment is lost only where KOS itself drops it: on an ARP miss, or when `Lookup` finds nothing.

**ByteStream.tla** is the abstract promise of a receive path:
- the bytes the sender wrote (`sent`), accepted in order into a buffer of `Cap` bytes, then read from its front (`got`);
- an abort discards the buffer and ends the stream.

`TCP` instantiates it with a refinement mapping:
- `sent` is the remote host's stream;
- `buf` is the ring contents of the connection's socket (`ConnBuf`, read with `RingRead`);
- `got` is what `tcp_recv` returned;
- `open` becomes false when that socket is reaped or made a listener.

**Fairness.** `Spec` has weak fairness on `KosRx`, `PeerRx` and `PeerRetransmit`. The first two say a wire delivers its segments. The third says the remote host's retransmission timer fires, which an RFC host does. Nothing is assumed of KOS's application, and KOS has no timer of its own.

### VMM.tla: `src/vmm.c`

**Scaling.** Tables have `E` = 8 entries in place of 512:
- a virtual page number is four base-`E` digits (`Index` is `PML4_INDEX` … `PT_INDEX`);
- a 2 MiB page is `E` frames;
- the higher half (PML4 index 256) is index `E/2`;
- the recursive slot 510 is `E-2`;
- the VGA page's 511/510 path is `E-1`/`E-2`.

**State.**
- `mem` is every table: frame → index → entry. An entry holds PRESENT, HUGE and the frame it points to; the other flag bits are never read back by vmm.c.
- `free` is the frames `pmm_alloc_page` can still hand out; it gives the lowest.
- `kpml4` is `kernel_pml4`.
- `spaces` is the set of roots `vmm_create_address_space` has returned.
- `cr3` is the loaded root.
- `last` records the last call and its result, which the property reads.

**Operators.** Each takes a machine `[mem, free]` and returns the result with the new machine, so an action is the whole C function, failure paths included.
- `GetOrCreate` is `get_or_create_table`. It follows any PRESENT entry, huge ones included.
- `Walk` is the chain of those calls.
- `MapPage`, `MapHuge` and `Unmap` are the three mapping functions.
- `Translate` is `vmm_get_phys`.
- `MapPagesFrom` is `vmm_map_pages`' loop, with its two failure paths: unmap-and-return after a failed `pmm_alloc_page`, and a bare return after a failed `vmm_map_page`.
- `InitTables` is `vmm_init`'s four steps: 1 GiB of identity huge pages, the kernel image at the higher half, the VGA page, and the recursive slot.
- `CreateSpace` copies the kernel's present upper entries.

**Actions.** `VmmInit`, `VmmMapPage`, `VmmMapHugePage`, `VmmMapPages`, `VmmUnmapPage`, `VmmCreateAddressSpace` and `VmmSwitchPml4`, with inputs from the small sets `MC_VMM` gives. Those inputs stay in the higher half: no caller maps 4 KiB pages in the identity-mapped low gigabyte (see the vmm.c:48 hazard).

### Memory.tla: `src/vmm.c` and `src/kmalloc.c` over one pool

`kernel_main` (main.c 41-43) calls `vmm_init` and then `kmalloc_init`. From then on, every consumer draws on the same free frames:
- page tables and address spaces;
- the frames of `vmm_map_pages`;
- slab pages and large allocations.

`Memory` instantiates both modules on shared variables:
- `V == INSTANCE VMM` keeps the free frames (`free`);
- `H == INSTANCE Slab` keeps the frames handed out (`used`);
- `VmmStep` is a VMM action that sets `used' = Frames \ free'`;
- `HeapStep` is a heap call, allowed once `kernel_pml4` exists, that sets `free' = Frames \ used'`.

So each allocator sees the other's allocations, in any interleaving of calls. The derived sets are:
- `Tables`: the roots, and every PDPT, PD and PT reachable from them, leaving out the recursive slot;
- `DataFrames`: pool frames mapped by PT entries;
- `HeapFrames`: slab pages and the frames of large allocations.

Properties:
- `MappingsExact` (action) covers each VMM call. In every address space, only the requested pages' translations change (a huge page changes its whole 2 MiB region), whether the call succeeds or fails. On success:
  - `map_page` translates to its frame;
  - a huge page translates to the 2 MiB frame plus the offset;
  - `unmap_page` leaves the page untranslated;
  - `map_pages` maps to distinct frames that were free.
- `KernelHalfShared`: every address space translates the upper half (the probed pages) as the kernel PML4 does. This includes pages the kernel maps after the space was created.
- `FrameRoles`: table, mapped-data and heap frames are pairwise disjoint, and none of them is still free.
- `SlotPartition`, `LiveMagic` and `NoDoubleAllocation` are Slab's properties, now checked with VMM calls interleaved.

### Console.tla: `src/console.c`, `src/idt.c`

**Scaling.** The screen is `W` x `H` = 8 x 3 cells in place of 80 x 25. `W` stays a multiple of 4, as 80 is, so a tab stop is the same in line and screen coordinates. A character is a one-letter string, and a C string is a sequence of them.

**State.**
- `vga` is `vga_buffer`: cell → [character, attribute]. Before `console_early_init` it holds `JUNK`, whatever the firmware left.
- `cursor_x`, `cursor_y`.
- `inited` (after `console_early_init`) and `halted` (`kernel_panic`'s `hlt` loop).
- `idt_loaded` (after `idt_init`'s `lidt`) and `pending`, the `kprintf` calls `interrupt_handler` still has to make.
- Two histories that the properties read: `out`, every character handed to `vga_putchar` since init, and `calls`, every `kprintf` call since init.

**Operators.**
- `Putchar` is `vga_putchar`, whole: the `\n`/`\r`/`\t` cursor moves or the store of the cell, then the wrap test, then the scroll.
- `Store` writes `(uint16_t)c | fg << 8 | bg << 12`. Its attribute `Attr` keeps only the bits that survive the 16-bit store. A write past the buffer leaves the modelled cells alone; it can only happen if the cursor leaves the screen, and `TypeOK` excludes that.
- `Scroll` is the copy-up and clear loops.
- `PrintHex` and `PrintDec` are the digit printers. `PrintDec` keeps the `val == 0` case.
- `Kv` is `kvprintf`'s loop, including:
  - the argument index `va_arg` advances;
  - the `%l` lookahead;
  - the default case;
  - a `%` at the end of the format.
- `PutAll` hands the characters to `Putchar` in order.

**Actions.**
- `ConsoleEarlyInit`.
- `Kprintf`: one call from `Calls`.
- `KernelPanic`: `kprintf` of the banner and the message, then halt.
- `IdtInit`: `idt_init`. The gate writes are abstracted to `idt_loaded`; what remains is its `kprintf` of the entry count.
- `CpuException`: the CPU raises an exception vector (below 32) with an error code and, for a page fault, a CR2 value. `interrupt_handler` enters its exception branch: `pending` becomes its calls in order. These are the vector and its `exception_names[]` entry, the error code, for vector 14 the CR2 line and the P/W/U bits of the error code, and then `kernel_panic("Unhandled exception")`.
- `HandlerKprintf`: the handler's next `kprintf`. The last one is the panic's, which halts. The gate is an interrupt gate (type 0x8E), so nothing else runs in between: every other action waits for `pending` to be empty. One call per step also keeps TLC's evaluation of each step shallow.
- The IRQ branch of `interrupt_handler` is not modelled. `irq_register_handler` is never called, so every `irq_handlers[]` entry is NULL and the branch only sends `lapic_eoi`.

**References.** Two reference definitions stand beside the model, written from what the output should be rather than from the code.
- `ScreenOf(out)` splits the output into lines and places each character by its position in its line. It stacks the rows each line occupies and shows the last `H` of them.
- `Printf` cuts the format into tokens. It gives the k-th argument-taking conversion the k-th argument, and writes numbers in decimal without leading zeros or as zero-padded hex.

### StringLib.tla: `src/string.c`

**What it models.** Every routine in `string.c` is a RECURSIVE operator that follows its loop over a byte memory `m`. A routine that writes returns the new memory. `memmove` picks the forward or backward loop by `d < s`. `strncpy` keeps the code's count: the NUL that ends the copy loop is not counted against `n`.

**Checking.** The properties quantify over every memory of `StrMemSize` = 5 bytes over {0, 1, 2} that ends in NUL, every pair of pointers and every length up to 3. TLC evaluates them once, as constants. `MC_Console` states them as invariants of the console run, so a violation is reported by the initial state.

### Pci.tla: `src/pci.c`

**What it models.** A configuration space `sp` maps `<<bus, slot, func>>` to the function's registers: each dword offset holds a value `reg` and a write mask `mask`, the bits a write can change. A function nothing answers for reads all ones and ignores writes. TLC's integers are 32-bit signed, so a dword is the pair `<<low 16 bits, high 16 bits>>`; every shift and mask of the code becomes the half or byte it selects (`DwLo`, `DwHi`, `DwByte`), and `Neg32` is `~x + 1` on 32 bits.
- `PciRead` and `PciWrite` are `pci_read` and `pci_write`: the dword at `offset & 0xFC`, and a write that keeps the bits outside the mask.
- `pci_init` is four nested RECURSIVE loops that thread the space and the table through: `SlotLoop` (bus by bus, slot by slot), `ScanSlot` (skip a slot whose function 0 is absent, scan 8 functions if bit 7 of the header type says so), `FuncLoop` (skip absent functions; `break` when `devices[]` is full) and `ScanFunc`, which fills the `struct pci_device` fields. `BarLoop` is the BAR loop: save, write all ones, read the size, restore, and skip the high dword of a 64-bit BAR. `CapWalk` follows the capability list and keeps the last MSI capability.
- `PciFindClass` and `PciFindDevice` return the index of the first match, or 0 for NULL. `PciReadWord` and `PciWriteWord` are the word helpers; `PciWriteWord` reads the dword, replaces one half and writes the dword back. `PciEnableBusMastering` and `PciEnableMsi` follow the code's sequence of word writes.

**Reference.** The second half of the module says what the registers mean, from the PCI specification, not from the code. A card is a description of each function: IDs, class, interrupt line and pin, six BARs (none, or a 32- or 64-bit memory BAR with a base, a power-of-two size and a prefetch bit) and a capability list. `Registers` builds the registers such a function exposes: a BAR decodes the address bits `~(size - 1)`, the MSI control word has its enable and multiple-message bits writable. `Listed` gives the functions a scan must find in bus, slot and function order, and `RefDev` the table entry each should get.

**Checking.** The two properties quantify over every placement of the four cards of `MC_Console` (or an empty slot) in 2 buses x 2 slots, 625 machines, and are checked once as constants in the console run.
- `PciScanAgrees`: the table is exactly the reference entries, up to `MAX_PCI_DEVICES`, and the lookups return the first match.
- `MsiProgrammed`: `pci_enable_msi` sets exactly the MSI address, data, enable and INTx-disable bits, and nothing else; `pci_enable_bus_mastering` sets exactly command bits 1 and 2.

## 4. Runs

| Run | Cfg | Expect | What it shows |
|---|---|---|---|
| pmm_safe | MC_PMM.cfg | pass | Two maps whose RAM starts above the early window. One has unaligned entries, a firmware hole inside DMA32, and DMA, DMA32 and NORMAL zones. The other is a single NORMAL range covering reserved frames. Every sequence of `pmm_alloc_pages(0/1/2)`, huge allocations and frees (22,727 states) keeps `ZoneAccounting`, `NoDoubleAllocation`, `FrameOwnership` and `NoSpuriousOOM`. |
| pmm_low_ram | MC_PMM_lowram.cfg | violation | RAM reported from 1 MiB, the shape of spec scenario 1. The DMA32 bitmap sits on a frame the second pass freed. Once NORMAL is used up, `pmm_alloc_page` hands that frame out, and its memset clears the DMA32 bits, so the frame is handed out again (`NoDoubleAllocation`). |
| pmm_init_panic | MC_PMM_panic.cfg | violation | A DMA32 range from 1 MiB whose bitmap is as large as the early bitmap. The 0xFF memset fills the early bitmap, and the NORMAL bitmap's early allocation panics (`PmmInitSucceeds`). At full scale this is RAM from 1 MiB past 1 GiB. |
| memory_fit | MC_Memory.cfg | pass | `vmm_init` takes 9 of 12 frames. Any interleaving follows of: `vmm_map_page`, `vmm_map_huge_page`, `vmm_map_pages` (2 pages) and `vmm_unmap_page` on the last slot of the kernel image's PT and the next 2 MiB region; `vmm_create_address_space` and `vmm_switch_pml4`; `kmalloc`/`kzalloc` of 48, 112 and 320 bytes; and `kfree`. Callers hold up to 2 allocations (150,880 states). It checks `MappingsExact`, `KernelHalfShared` and `FrameRoles`, and Slab's `SlotPartition`, `LiveMagic` and `NoDoubleAllocation`, while the two allocators compete for the last three frames. |
| slab_callers | MC_Slab_callers.cfg | violation | Sizes 64 (struct thread, as `process_create` asks for it), 112 and 320. `kmalloc(64)` A, `kmalloc(64)` B, `kfree(A)`, `kzalloc(64)`: the reused A's memset zeroes B's header while B is live (`LiveMagic`). |
| sched_fifo | MC_Scheduler.cfg | pass | Up to 3 threads, with stack allocations that succeed or fail, under any order of `process_create` and yield. It checks `QueueWellFormed`, `NoLostThread`, and that every queued thread becomes current (`QueuedEventuallyCurrent`). |
| sched_entry | MC_Scheduler_entry.cfg | violation | Under both builds no created thread reaches entry (`EntryReached`). |
| tcp_stream | MC_TCP.cfg | pass | A remote client opens, writes 5 bytes in segments of 1–2 through a 4-byte ring, and closes. ARP is resolved at any point, so early KOS segments are lost. The KOS application may create, bind, listen, connect, send, receive, close and clean up in any order on two structs (121,969 states, depth 38). What it reads is the ByteStream specification's stream (`StreamRefinement`): in order, without duplicates, never more than the ring holds, across counter and ring wrap-around. |
| tcp_fin | MC_TCP_fin.cfg | violation | The ring is full and byte 5 is trimmed. The FIN behind it carries a sequence number one past `rcv_nxt`, yet it is taken. The connection socket's `rcv_nxt`, which KOS's ACK carries, now lies past byte 5, which KOS never stored (`RcvNxtOverStored`, a statement about KOS's own state). |
| tcp_connect | MC_TCP_connect.cfg | violation | The remote host listens. KOS's SYN carries ISN+1, the SYN\|ACK acknowledges ISN+2, and SYN_SENT waits for ISN+1. Retransmissions repeat this for ever (`ConnectCompletes`, a lasso). |
| console_screen | MC_Console.cfg | pass | On an 8 x 3 screen, kprintf calls of the kernel's shapes run in any order of up to four, plus `idt_init`, then either a `kernel_panic` or a CPU exception on vector 0, 14 or 31 (68,563 states). They include a `%s` line or NULL, zero, a tab that wraps, `%c` overwritten after `\r`, a `%p` line longer than two rows, an `%x` line exactly one row wide, `%lx`/`%lu`, a bare `%` and an unknown conversion. The text buffer and cursor always show the last rows of the output (`ScreenShowsOutput`), and the output is each format printed per spec.md's conversion list (`OutputFollowsFormats`). The string routines agree with their reference meanings (`StringOpsAgree`), and `process_create`'s `strncpy` stays inside `name[32]` (`ProcessNameFits`). On every placement of four PCI cards in 2 buses x 2 slots with a 3-entry table, `pci_init` lists exactly the present functions with the right BARs and MSI capability (`PciScanOK`), and `pci_enable_msi` and `pci_enable_bus_mastering` set exactly the bits the PCI specification names (`PciMsiOK`). |
| vmm_rollback | MC_VMM_rollback.cfg | violation | After `vmm_init` (9 of 12 pool frames) and one address space, `vmm_map_pages` of 2 pages crossing a PT boundary maps page 0. It then takes the last frame for page 1, fails to allocate page 1's PT and returns false with page 0 still mapped (`MapPagesAtomic`). |

**Bounds.**
- **PMM.** Frames 0..19, with three zones of 2–4 frames and at most 3 allocation sizes. That is enough for:
  - first-fit to skip holes;
  - runs to be blocked by set bits;
  - zones to be exhausted in turn (the path that reaches DMA32 and DMA);
  - huge strides to go out of a zone.

  The early window (16 scan slots, 4 frames of early bitmap) is large enough for the safe maps, and small enough for a 22-frame DMA32 range to fill it.
- **Slab** (`slab_callers`). Four 256-byte frames hold two slab pages and a large allocation, or two large ones, so carving, reuse, the large path and running out of frames all happen. Three live allocations are enough for two neighbours in one page plus a third caller.
- **Memory.** Twelve frames leave three after `vmm_init`. That is enough for a slab page beside a new address space or PT, or for a two-page large allocation that leaves a batch short. Two live allocations keep the run under three minutes; with fourteen frames it ran past thirty.
- **Scheduler.** Three threads are enough for a queue of two behind a current thread, which is what FIFO order and the re-enqueue of prev need.
- **TCP.**
  - **Counters.** `U32` = 16 and `RX_BUF` = 4. With 5 bytes from ISN 14, the sequence numbers wrap, the ring fills, and a read or write splits at its end.
  - **Socket structs.** Two are enough for a listener and its child, or for a listener and a socket the application connects, closes or rebinds. Three did not finish in 20 minutes.
  - **Other bounds.** `MaxSend` = 1 lets KOS send data. `MaxPorts` = 1 ephemeral port bounds `next_port`.
- **VMM.** Eight entries per table keep the lower and upper halves, the recursive slot and the VGA path distinct. Twelve frames are `vmm_init`'s nine plus three, so a batch can exhaust the pool in its middle.
- **Console.** Eight columns make the `%p` line (20 characters) span three rows, and make the 8-digit `%x` line exactly one row. Three rows make most orders of four calls scroll, and let the scroll move a row that is neither the first nor the last. In the version line the tab wraps, and the character after `\r` overwrites the `%c` printed on that row.
- **String library.** Five-byte memories hold two strings of up to two characters, or one of up to four. They cover overlapping `memmove` in both directions, prefixes (`strncmp` with `n` below, at and past the difference), empty needles and accept sets, and `strncat` at the end of memory. `NameSize` = 4 (32 in the code) with names of length 0 to 5 covers a name shorter than `n`, equal to it, and longer.
- **PCI.** Four cards cover each path of the scan:
  - an APU with a multi-function header (a display function with two 64-bit BARs, one a 256 MiB prefetchable one, and a 32-bit BAR at BAR5; an HD audio function with a 32-bit MSI capability before its PM capability);
  - a Realtek NIC with 64-bit BARs at 2 and 4 and MSI after PM;
  - an I210 that answers for all eight function numbers while its header says single-function;
  - an NVMe controller with MSI before PM.

  Two buses of two slots hold up to four cards, so the APU, the NIC and the NVMe controller make four functions against a table of `MAX_PCI_DEVICES` = 3, and the `break` of a full table happens both inside a slot and at a later slot. The space stops at offset 0x5C, past every capability of the cards.

**Fairness.** `QueuedEventuallyCurrent` assumes weak fairness of `Schedule`: the running context keeps yielding. Nothing in the code preempts (see the liveness hazard), so this is the cooperative contract, not a guarantee of the code. The run uses the "leave" build. Under "ret", the CPU halts at the first switch to a fresh thread, which the `sched_entry` run shows. With "leave", the run shows that the label-level rotation is FIFO.

**Mutants** (PROJECT.json): each passing property fails when one definition is replaced by a plausible bug.

| Property | Mutant |
|---|---|
| `ZoneAccounting` | `free_pages--` in place of `-= count` |
| `NoDoubleAllocation` | the run scan not resetting `consecutive` |
| `FrameOwnership` | the second pass ignoring the entry type |
| `NoSpuriousOOM` | pre-check `free_pages <= count` |
| PMM `TypeOK` | returning physical instead of `PHYS_TO_VIRT` pointers |
| `QueueWellFormed` | dequeue without resetting tail |
| `NoLostThread` | enqueue without `tail->next = t` |
| `QueuedEventuallyCurrent` | LIFO enqueue |
| Scheduler `TypeOK` | dequeue without `nr_running--` |
| `SlotPartition` | the carving loop stopping one slot short |
| `LiveMagic` | kmalloc returning the header instead of `obj + 1` |
| Slab `NoDoubleAllocation` | a pop that does not advance `free_list` |
| Slab `TypeOK` | carving without `last->next = NULL` |
| `FrameRoles` | carving a slab page without recording the frame as taken from the pool |
| `MappingsExact` | `vmm_map_page` writing the PT slot at `PD_INDEX` in place of `PT_INDEX` |
| `KernelHalfShared` | `vmm_create_address_space`'s copy loop stopping before the last entry |
| `StreamRefinement` | `tcp_rx` copying in-order data without trimming it to the free ring space |
| TCP `TypeOK` | the ring copy not split at the end of the buffer (one memcpy past `rx_buf`) |
| Console `TypeOK` | the wrap test `cursor_x > VGA_WIDTH` |
| `ScreenShowsOutput` | the scroll's copy loop stopping one row early |
| `OutputFollowsFormats` | `print_dec` without its `val == 0` case |
| `StringOpsAgree` | `memmove` always copying forward |
| `ProcessNameFits` | `strncpy`'s padding loop as a do-while (one zero more) |
| `PciScanOK` | `pci_init` scanning eight functions without reading the header type |
| `PciMsiOK` | `pci_write_word` replacing the wrong half of the dword |

## 5. Findings

1. **`pmm_init` hands out metadata on ordinary maps** (memory.c:155, :199). This covers the zone bitmaps at 1 MiB and the kernel image loaded there. Zeroing a bitmap frame then causes double allocation.
2. **`pmm_init` panics** when a DMA32 range of at least 1 GiB starts at 1 MiB (memory.c:140), because of the memset over the early bitmap.
3. **`kzalloc` overwrites its neighbour's header** (kmalloc.c:77). `kmalloc` returns `obj + 1` in a slot of exactly the class size, so a full-class request runs into the next header. A live neighbour loses its magic and its `kfree` silently leaks it; a free neighbour's `next` is cleared and the rest of the list is lost. `process_create`'s 64-byte thread is such a request.
4. **No thread can ever start** (scheduler.c:91, :193). There are two causes:
   - The first yield from kernel_main makes the first thread current without switching. The next switch then saves the boot context as that thread's context.
   - `context_switch` is a C function, and `process_create`'s frame is never consumed by a routine that pops it.

5. **An active open never completes** (tcp.c:136, :241). The SYN carries `snd_nxt` after it was already set to ISN+1. A correct remote host therefore acknowledges ISN+2, and SYN_SENT accepts only ISN+1.
6. **A FIN is taken at any sequence number** (tcp.c:282). After a full ring trims data, the FIN moves `rcv_nxt` past bytes KOS dropped, and KOS acknowledges them.
7. **`vmm_map_pages` does not roll back** when `vmm_map_page` fails (vmm.c:125). This contradicts the spec's "rolls back all prior mappings". The earlier pages stay mapped and the frame of the failing page leaks.

Other defects are recorded as hazards (PROJECT.json) and are not yet checked by a run:
- `pmm_free_page` treats a virtual pointer as a frame number, and its bit test is inverted.
- Huge pages are not 2 MiB aligned.
- The kernel stack top is 64 KiB above a 16 KiB allocation.
- The early bitmap overwrites the kernel image.
- TCP:
  - A passive open leaves `snd_una > snd_nxt`.
  - CLOSE_WAIT + ACK closes a socket the user holds.
  - An active close is never reaped.
  - KOS never retransmits a segment lost to an ARP miss.
  - A failed `kmalloc` in `tcp_tx` or `tcp_socket` goes unnoticed.
- VMM:
  - `get_or_create_table` follows huge leaves as tables.
  - The pmm-failure rollback does not free frames.
  - Address spaces snapshot the kernel's upper PML4 entries.
- Console: callers use conversions `kvprintf` does not implement, which shift the arguments: `%lX` in `pmm_init`'s zone line prints the zone start as its size in MB, and there are `%02x`, `%04X` and `%zu` as well.
- String library: `strncpy` writes `n + 1` bytes for a short source. It is harmless for its one caller, which the console run checks.
- PCI:
  - `bar_size` of a 64-bit BAR of 4 GiB or more is 0, computed from the low dword only.
  - `pci_write_word`'s write-back of the command dword clears the status register's write-one-to-clear bits.

Defects that no caller in the repository reaches, not listed as hazards:
- The last slot of a 16-byte-class slab page hands out the first address of the next frame, and `kfree` of a large allocation can then read a real header in the previous frame. Both need 16-byte requests, which nothing makes.
- `kfree` does not clear the magic, so a second `kfree` of one pointer pushes it twice. No caller frees twice.

Defects a single unit test would show, not listed as hazards:
- Printed console cells get attribute 0xFF, the low byte of the RGB `fg_color`, while blanks are 0x07.
- TCP's advertised window is 0: 65536 does not fit the `uint16_t` field.
- PCI:
  - `pci_enable_msi` writes only the low 16 bits of the MSI upper address (offset 8); the word at offset 0x0A keeps what firmware left.
  - A capability list that loops makes `pci_init`'s walk run for ever; nothing bounds it.
  - An I/O BAR is decoded with the memory BAR's mask (`& 0xFFFFFFF0`) and bit 2 as the 64-bit flag.

## 6. Not modelled

- Drivers and ACPI: each driver is a stub that calls `pci_find_class` or `pci_find_device` and prints; ACPI is table parsing. Neither has state worth a model.
- PCI: I/O BARs and the status register's write-one-to-clear bits (the model's status register is read-only); `pci_get_device`, `pci_get_device_count`, `pci_read_dword` and `pci_read_bar` only read. The bus and slot loops run over 2 x 2 instead of 256 x 32; nothing in the scan depends on the numbers beyond their order.
- Console:
  - The framebuffer path (`console_set_framebuffer`, `fb_putchar`, the font): nothing calls `console_set_framebuffer`, so `fb_virt` stays NULL.
  - Characters of 0x80 and above, whose sign extension does not change the stored cell.
  - Negative `%d` arguments (see the hazard).
- Interrupts:
  - The IRQ branch: no handler is ever installed.
  - The IDT gate contents: the handler addresses are not modelled.
  - The LAPIC, IOAPIC and PIT register programming: pure I/O.
  - One observation from `idt.c:27` that no run records: `exception_names[32]` has 31 initializers. Vector 31's name is therefore NULL, and `%s` prints nothing for it (the console run includes vector 31). "Security Exception" sits at index 29, so vector 30 is printed as "Reserved".
- IP and network:
  - ICMP and UDP are not modelled.
  - Checksums and the ARP table beyond the one remote host are left out.
  - Addresses are left out, and `IpSend` delivers every segment once ARP has resolved. The code does not: a passively opened socket never gets `remote_addr` (tcp.c:228), so `ip_send(0, …)` sends its segments to 0.0.0.0 through the gateway (ip.c:42, 48-50), where no remote host receives them. The model's wire therefore over-approximates what reaches the remote host. `StreamRefinement` is a safety property and holds under the over-approximation, hence also for the code. `RcvNxtOverStored` is stated over KOS's own state. Its violation needs a segment that puts KOS's child in ESTABLISHED and then data and a FIN at the right numbers, which any host that sends to the socket can do without seeing KOS's answers.
  - `network_init` is never called from `kernel_main`, so the TCP model describes the stack as a caller would drive it.
- TCP: the TX buffer (allocated, never used), congestion fields, RST (never sent) and `tcp_timer_tick` (unreachable).
- VMM: `PHYS_TO_VIRT`/`VIRT_TO_PHYS` are taken to cancel. Whether the kernel image's 1 MiB offset breaks the direct map depends on a linker script that is not in the repository. `invlpg` and `write_cr3` change no state the model holds.
- `scheduler_ap_entry`: no AP is ever started.
- The repository does not define `smp_init`, `cpu_get_current`, `gdt64_init`, `tss_set_rsp0` or the ISR stubs. The models assume `cpu_get_current` returns the boot CPU and that `tss_set_rsp0` only writes the TSS.
