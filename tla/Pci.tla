-------------------------------- MODULE Pci --------------------------------
(***************************************************************************)
(* src/pci.c: pci_init's scan of configuration space into devices[], the  *)
(* lookups the drivers use, and the word-level register helpers with      *)
(* pci_enable_bus_mastering and pci_enable_msi.                           *)
(*                                                                         *)
(* A configuration space is a function from <<bus, slot, func>> to the    *)
(* function's registers: dword offset -> [reg, mask], where mask holds    *)
(* the bits a write can change (a BAR's address bits, nothing of an ID    *)
(* register).  A 32-bit dword is the pair <<low 16 bits, high 16 bits>>,  *)
(* so 0xFFFFFFFF and 0xFEE00000 stay within TLC's integers; each shift    *)
(* and mask of the code becomes the half and the byte it selects.  A      *)
(* function nothing answers for reads all ones and ignores writes.        *)
(***************************************************************************)
EXTENDS Integers, Sequences, SequencesExt, Bitwise

CONSTANTS
    NumBuses,          \* 256 in pci_init's bus loop
    NumSlots,          \* 32 in its slot loop
    MAX_PCI_DEVICES    \* 256 in kernel.h

DwLo(d) == d[1]
DwHi(d) == d[2]
DwZero == <<0, 0>>
DwOnes == <<65535, 65535>>
DwByte(d, k) == IF k < 2 THEN (DwLo(d) \div (256 ^ k)) % 256
                ELSE (DwHi(d) \div (256 ^ (k - 2))) % 256

\* (v & m) | (old & ~m), half by half: what a register keeps of a write.
Masked(old, v, m) ==
    [j \in 1 .. 2 |-> (v[j] & m[j]) | (old[j] & (65535 - m[j]))]

\* offset & 0xFC, offset & ~3: the dword an offset lies in.
Align4(off) == off - (off % 4)

\* pci_read: the dword at offset & 0xFC of the addressed function.
PciRead(sp, b, s, f, off) == sp[<<b, s, f>>][Align4(off)].reg

\* pci_write: outl of the address, then of the value.
PciWrite(sp, b, s, f, off, v) ==
    [sp EXCEPT ![<<b, s, f>>][Align4(off)].reg = Masked(@, v, sp[<<b, s, f>>][Align4(off)].mask)]

\* ~x + 1 on 32 bits.
Neg32(d) ==
    << (65536 - DwLo(d)) % 65536,
       (65535 - DwHi(d) + (IF DwLo(d) = 0 THEN 1 ELSE 0)) % 65536 >>

ClearLow4(d) == << DwLo(d) - (DwLo(d) % 16), DwHi(d) >>   \* & 0xFFFFFFF0

NoBar == [bar |-> DwZero, phys |-> <<DwZero, DwZero>>, size |-> DwZero, mmio |-> FALSE]

(* The BAR loop from BAR i on: save, write all ones, read the size mask,   *)
(* restore; a 64-bit BAR takes the next dword as its high half and skips  *)
(* it.  Entries the loop skips keep the zeroes of the static array.       *)
RECURSIVE BarLoop(_, _, _, _, _, _)
BarLoop(sp, b, s, f, i, bars) ==
    IF i >= 6 THEN [sp |-> sp, bars |-> bars]
    ELSE LET off == 16 + 4 * i
             old == PciRead(sp, b, s, f, off)
             sp1 == PciWrite(sp, b, s, f, off, DwOnes)
             sz == PciRead(sp1, b, s, f, off)
             sp2 == PciWrite(sp1, b, s, f, off, old)
             Rec(hi) == [bar |-> old, phys |-> <<ClearLow4(old), hi>>,
                         size |-> Neg32(ClearLow4(sz)), mmio |-> DwLo(old) & 1 = 0]
         IN  IF sz = DwZero \/ sz = DwOnes
             THEN BarLoop(sp2, b, s, f, i + 1, [bars EXCEPT ![i] = NoBar])
             ELSE IF DwLo(old) & 4 # 0
             THEN BarLoop(sp2, b, s, f, i + 2,
                          [bars EXCEPT ![i] = Rec(PciRead(sp2, b, s, f, off + 4))])
             ELSE BarLoop(sp2, b, s, f, i + 1, [bars EXCEPT ![i] = Rec(DwZero)])

(* The capability walk: the last MSI (ID 5) capability met is kept.        *)
RECURSIVE CapWalk(_, _, _, _, _, _)
CapWalk(sp, b, s, f, ptr, msi) ==
    IF ptr = 0 THEN msi
    ELSE LET d == PciRead(sp, b, s, f, ptr)
             next == IF DwByte(d, 0) = 5 THEN [capable |-> TRUE, offset |-> ptr] ELSE msi
         IN  CapWalk(sp, b, s, f, DwByte(d, 1), next)

\* One present function: the fields of struct pci_device, in the code's order.
ScanFunc(sp, b, s, f) ==
    LET id == PciRead(sp, b, s, f, 0)
        cl == PciRead(sp, b, s, f, 8)
        irq == PciRead(sp, b, s, f, 60)
        bl == BarLoop(sp, b, s, f, 0, [i \in 0 .. 5 |-> NoBar])
        msi == CapWalk(bl.sp, b, s, f, DwByte(PciRead(bl.sp, b, s, f, 52), 0),
                       [capable |-> FALSE, offset |-> 0])
    IN  [sp |-> bl.sp,
         dev |-> [bus |-> b, slot |-> s, func |-> f,
                  vendor |-> DwLo(id), device |-> DwHi(id),
                  class |-> DwByte(cl, 3), subclass |-> DwByte(cl, 2),
                  prog_if |-> DwByte(cl, 1), revision |-> DwByte(cl, 0),
                  irq_line |-> DwByte(irq, 0), irq_pin |-> DwByte(irq, 1),
                  bars |-> bl.bars, msi_capable |-> msi.capable, msi_offset |-> msi.offset]]

(* The function loop of one slot: absent functions are skipped; a full     *)
(* devices[] breaks out of this slot's loop (the slot loop goes on).       *)
RECURSIVE FuncLoop(_, _, _, _, _)
FuncLoop(st, b, s, f, funcs) ==
    IF f >= funcs THEN st
    ELSE IF DwLo(PciRead(st.sp, b, s, f, 0)) = 65535 THEN FuncLoop(st, b, s, f + 1, funcs)
    ELSE IF Len(st.devs) >= MAX_PCI_DEVICES THEN st
    ELSE LET r == ScanFunc(st.sp, b, s, f)
         IN  FuncLoop([sp |-> r.sp, devs |-> Append(st.devs, r.dev)], b, s, f + 1, funcs)

\* Mutant: all eight functions scanned whatever the header type says.
ScanSlotAllFuncs(st, b, s) ==
    IF DwLo(PciRead(st.sp, b, s, 0, 0)) = 65535 THEN st
    ELSE FuncLoop(st, b, s, 0, 8)

(* A slot whose function 0 is absent is skipped; otherwise eight functions *)
(* are scanned when bit 7 of the header type (byte 0x0E) says so, one else.*)
ScanSlot(st, b, s) ==
    IF DwLo(PciRead(st.sp, b, s, 0, 0)) = 65535 THEN st
    ELSE FuncLoop(st, b, s, 0, IF DwByte(PciRead(st.sp, b, s, 0, 14), 2) & 128 # 0 THEN 8 ELSE 1)

\* pci_init: bus by bus, slot by slot.
RECURSIVE SlotLoop(_, _)
SlotLoop(st, k) ==
    IF k = NumBuses * NumSlots THEN st
    ELSE SlotLoop(ScanSlot(st, k \div NumSlots, k % NumSlots), k + 1)

PciInit(sp) == SlotLoop([sp |-> sp, devs |-> << >>], 0)

\* pci_find_class and pci_find_device: the first match in devices[], or 0.
FirstIndex(I) == IF I = {} THEN 0 ELSE CHOOSE i \in I : \A j \in I : i <= j
PciFindClass(devs, code) ==
    FirstIndex({ i \in 1 .. Len(devs) :
                   devs[i].class * 65536 + devs[i].subclass * 256 + devs[i].prog_if = code })
PciFindDevice(devs, v, id) ==
    FirstIndex({ i \in 1 .. Len(devs) : devs[i].vendor = v /\ devs[i].device = id })

\* pci_read_word: the dword at offset & ~3, its high half when offset & 2.
PciReadWord(sp, d, off) ==
    LET dw == PciRead(sp, d.bus, d.slot, d.func, Align4(off))
    IN  IF off & 2 # 0 THEN DwHi(dw) ELSE DwLo(dw)

\* Mutant: the halves chosen the wrong way round.
PciWriteWordSwapped(sp, d, off, val) ==
    LET dw == PciRead(sp, d.bus, d.slot, d.func, Align4(off))
        nw == IF off & 2 = 0 THEN <<DwLo(dw), val>> ELSE <<val, DwHi(dw)>>
    IN  PciWrite(sp, d.bus, d.slot, d.func, off, nw)

\* pci_write_word: read the dword, replace one half, write the dword back.
PciWriteWord(sp, d, off, val) ==
    LET dw == PciRead(sp, d.bus, d.slot, d.func, Align4(off))
        nw == IF off & 2 # 0 THEN <<DwLo(dw), val>> ELSE <<val, DwHi(dw)>>
    IN  PciWrite(sp, d.bus, d.slot, d.func, off, nw)

\* pci_enable_bus_mastering: command |= BUS_MASTER | MEM_SPACE.
PciEnableBusMastering(sp, d) == PciWriteWord(sp, d, 4, PciReadWord(sp, d, 4) | 6)

(* pci_enable_msi: message address 0xFEE00000 (APIC 0) as two words, the  *)
(* upper address and the data after it for a 64-bit capability, the data *)
(* at +8 otherwise; then the enable bit, then INTx disable (bit 10).      *)
PciEnableMsi(sp, d, vector) ==
    IF ~d.msi_capable THEN [ok |-> FALSE, sp |-> sp]
    ELSE LET o == d.msi_offset
             ctrl == PciReadWord(sp, d, o + 2)
             sp1 == PciWriteWord(PciWriteWord(sp, d, o + 4, 0), d, o + 6, 65248)
             sp2 == IF ctrl & 128 # 0
                    THEN PciWriteWord(PciWriteWord(sp1, d, o + 8, 0), d, o + 12, vector)
                    ELSE PciWriteWord(sp1, d, o + 8, vector)
             sp3 == PciWriteWord(sp2, d, o + 2, ctrl | 1)
         IN  [ok |-> TRUE, sp |-> PciWriteWord(sp3, d, 4, PciReadWord(sp3, d, 4) | 1024)]

-----------------------------------------------------------------------------
(***************************************************************************)
(* Reference: what the PCI specification says a function's registers      *)
(* mean.  A card is a device description per function (ghost: a single-  *)
(* function card that answers for every function number, as some do); a  *)
(* function is described by its IDs, class, interrupt, six BARs (none, or *)
(* a 32- or 64-bit memory BAR of a base and a power-of-two size) and its  *)
(* capability list.  Registers builds the registers the card exposes.     *)
(***************************************************************************)
CONSTANTS
    Cards,     \* the cards a slot may hold
    MsiVectors \* vectors pci_enable_msi is called with

Offs == { 4 * k : k \in 0 .. 23 }     \* 0x00 .. 0x5C
SizeDw(z) == << z % \h10000, z \div \h10000 >>

\* ~(size - 1): the address bits a BAR of that size decodes.
AddrMask(z) == IF z <= \h10000 THEN << \h10000 - z, \hFFFF >> ELSE << 0, \h10000 - z \div \h10000 >>
BarFlags(bar) == (IF bar.kind = "mem64" THEN 4 ELSE 0) + (IF bar.pref THEN 8 ELSE 0)
BarValue(bar) == << DwLo(bar.lo) + BarFlags(bar), DwHi(bar.lo) >>

BarReg(fn, i) ==
    CASE fn.bars[i].kind # "none" ->
           [reg |-> BarValue(fn.bars[i]), mask |-> AddrMask(fn.bars[i].size)]
      [] i > 0 /\ fn.bars[i - 1].kind = "mem64" ->      \* its upper dword
           [reg |-> fn.bars[i - 1].hi, mask |-> DwOnes]
      [] OTHER -> [reg |-> DwZero, mask |-> DwZero]

\* The capability registers: ID and next pointer, MSI's control word (bit 7:
\* 64-bit; bits 0 and 4-6 writable) and the address and data dwords after it.
CapReg(fn, o) ==
    LET n == Len(fn.caps)
        k == CHOOSE k \in 1 .. n + 1 : k > n \/ fn.caps[k].off = o
        at == { k2 \in 1 .. n : fn.caps[k2].id = 5 /\ o - fn.caps[k2].off \in {4, 8, 12} }
    IN  CASE k <= n ->
               [reg |-> << fn.caps[k].id + 256 * (IF k < n THEN fn.caps[k + 1].off ELSE 0),
                           IF fn.caps[k].id = 5 /\ fn.caps[k].msi64 THEN 128 ELSE 0 >>,
                mask |-> << 0, IF fn.caps[k].id = 5 THEN \h71 ELSE 0 >>]
          [] at # {} -> [reg |-> DwZero, mask |-> DwOnes]
          [] OTHER -> [reg |-> DwZero, mask |-> DwZero]

Registers(fn) ==
    [o \in Offs |->
        CASE o = 0  -> [reg |-> << fn.vendor, fn.device >>, mask |-> DwZero]
          [] o = 4  -> [reg |-> << 0, IF fn.caps = << >> THEN 0 ELSE 16 >>,   \* status: cap list
                        mask |-> << \hFFFF, 0 >>]
          [] o = 8  -> [reg |-> << fn.rev + 256 * fn.class[3], fn.class[2] + 256 * fn.class[1] >>,
                        mask |-> DwZero]
          [] o = 12 -> [reg |-> << 0, IF fn.multi THEN 128 ELSE 0 >>, mask |-> DwZero]
          [] o \in 16 .. 36 -> BarReg(fn, (o - 16) \div 4)
          [] o = 52 -> [reg |-> << IF fn.caps = << >> THEN 0 ELSE fn.caps[1].off, 0 >>,
                        mask |-> DwZero]
          [] o = 60 -> [reg |-> << fn.irq + 256 * fn.pin, 0 >>, mask |-> << 255, 0 >>]
          [] o >= 64 -> CapReg(fn, o)
          [] OTHER  -> [reg |-> DwZero, mask |-> DwZero]]

AbsentFn == [o \in Offs |-> [reg |-> DwOnes, mask |-> DwZero]]

Positions == 0 .. NumBuses * NumSlots - 1
EmptySlot == [ghost |-> FALSE, funcs |-> << >>]    \* no function answers
Machines == [Positions -> Cards \cup {EmptySlot}]
Fns == (0 .. NumBuses - 1) \X (0 .. NumSlots - 1) \X (0 .. 7)
CardAt(m, x) == m[x[1] * NumSlots + x[2]]

Space(m) ==
    [x \in Fns |->
        LET c == CardAt(m, x) IN
        CASE x[3] \in DOMAIN c.funcs -> Registers(c.funcs[x[3]])
          [] c.ghost -> Registers(c.funcs[0])
          [] OTHER -> AbsentFn]

\* The functions a scan must find, in bus, slot, function order: function 0
\* of every card, and the others of a card whose function 0 is multi-function.
Present(m) ==
    { x \in Fns : x[3] \in DOMAIN CardAt(m, x).funcs
                  /\ (x[3] = 0 \/ CardAt(m, x).funcs[0].multi) }
Key(x) == (x[1] * NumSlots + x[2]) * 8 + x[3]
Rank(S, x) == Cardinality({ y \in S : Key(y) < Key(x) }) + 1
Listed(m) ==
    LET P == Present(m)
        n == IF Cardinality(P) < MAX_PCI_DEVICES THEN Cardinality(P) ELSE MAX_PCI_DEVICES
    IN  [k \in 1 .. n |-> CHOOSE x \in P : Rank(P, x) = k]

\* Two configuration spaces agree on every register of every function.
SameSpace(a, b) == \A x \in Fns : a[x] = b[x]

FnOf(m, x) == CardAt(m, x).funcs[x[3]]
MsiCaps(fn) == { k \in 1 .. Len(fn.caps) : fn.caps[k].id = 5 }

RefBar(fn, i) ==
    IF fn.bars[i].kind = "none" THEN NoBar
    ELSE [bar |-> BarValue(fn.bars[i]), phys |-> << fn.bars[i].lo, fn.bars[i].hi >>,
          size |-> SizeDw(fn.bars[i].size), mmio |-> TRUE]

RefDev(m, x) ==
    LET fn == FnOf(m, x) IN
    [bus |-> x[1], slot |-> x[2], func |-> x[3], vendor |-> fn.vendor, device |-> fn.device,
     class |-> fn.class[1], subclass |-> fn.class[2], prog_if |-> fn.class[3],
     revision |-> fn.rev, irq_line |-> fn.irq, irq_pin |-> fn.pin,
     bars |-> [i \in 0 .. 5 |-> RefBar(fn, i)],
     msi_capable |-> MsiCaps(fn) # {},
     msi_offset |-> IF MsiCaps(fn) = {} THEN 0 ELSE fn.caps[CHOOSE k \in MsiCaps(fn) : TRUE].off]

ClassCode(fn) == fn.class[1] * \h10000 + fn.class[2] * 256 + fn.class[3]

(* pci_init fills devices[] with exactly the functions present, in bus,    *)
(* slot, function order, each once (a single-function card that answers    *)
(* for every function number is listed once), up to MAX_PCI_DEVICES, with  *)
(* IDs, class, interrupt, BAR bases and sizes and the MSI capability read  *)
(* from the right bytes; pci_find_class and pci_find_device, which the     *)
(* drivers probe with, return the first such function or NULL.             *)
PciScanAgrees ==
    \A m \in Machines :
        LET devs == PciInit(Space(m)).devs
            l == Listed(m)
        IN  /\ devs = [k \in 1 .. Len(l) |-> RefDev(m, l[k])]
            /\ \A c \in Cards : \A f \in DOMAIN c.funcs :
                 LET fn == c.funcs[f]
                     byClass == { k \in 1 .. Len(l) : ClassCode(FnOf(m, l[k])) = ClassCode(fn) }
                     byId == { k \in 1 .. Len(l) : FnOf(m, l[k]).vendor = fn.vendor
                                                   /\ FnOf(m, l[k]).device = fn.device }
                 IN  /\ PciFindClass(devs, ClassCode(fn)) = IF byClass = {} THEN 0 ELSE Min(byClass)
                     /\ PciFindDevice(devs, fn.vendor, fn.device) = IF byId = {} THEN 0 ELSE Min(byId)

\* The registers of function x that MSI programming sets, by offset, for
\* capability c and vector v; the others keep their values.
MsiWanted(sp, x, c, v) ==
    LET o == c.off
        R(j) == sp[x][j].reg
    IN  (4 :> << R(4)[1] | \h400, R(4)[2] >>)
        @@ (o :> << R(o)[1], R(o)[2] | 1 >>)
        @@ (o + 4 :> << 0, \hFEE0 >>)
        @@ (IF c.msi64 THEN (o + 8 :> DwZero) @@ (o + 12 :> << v, R(o + 12)[2] >>)
                       ELSE (o + 8 :> << v, R(o + 8)[2] >>))

\* sp2 is sp with the registers of function x given by w.
SpaceWith(sp2, sp, x, w) ==
    /\ \A y \in Fns \ {x} : sp2[y] = sp[y]
    /\ \A j \in Offs : sp2[x][j] = [sp[x][j] EXCEPT !.reg = IF j \in DOMAIN w THEN w[j] ELSE @]

(* pci_enable_msi on a scanned function with an MSI capability programs    *)
(* message address 0xFEE00000, a zero upper address (64-bit capability)    *)
(* and the vector as data, sets MSI enable and INTx disable, and changes   *)
(* no other register bit; without the capability it changes nothing.      *)
(* pci_enable_bus_mastering sets command bits 1 and 2 alone.  Both go      *)
(* through pci_write_word's read-modify-write of a whole dword.            *)
MsiProgrammed ==
    \A m \in Machines, v \in MsiVectors :
    \A sp \in { Space(m) } :
    \A devs \in { PciInit(sp).devs } :
    \A k \in 1 .. Len(devs) :
        LET d == devs[k]
            x == << d.bus, d.slot, d.func >>
            fn == FnOf(m, x)
        IN  /\ SpaceWith(PciEnableBusMastering(sp, d), sp, x,
                         4 :> << sp[x][4].reg[1] | 6, sp[x][4].reg[2] >>)
            /\ \A r \in { PciEnableMsi(sp, d, v) } :
                 IF MsiCaps(fn) = {} THEN ~r.ok /\ SameSpace(r.sp, sp)
                 ELSE r.ok /\ SpaceWith(r.sp, sp, x,
                                        MsiWanted(sp, x, fn.caps[CHOOSE j \in MsiCaps(fn) : TRUE], v))

====
