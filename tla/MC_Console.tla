---------------------------- MODULE MC_Console ----------------------------
(***************************************************************************)
(* An 8 x 3 screen (W a multiple of 4, as 80 is) and kprintf calls shaped  *)
(* like the kernel's: a %s status line or a NULL string; a version line    *)
(* with a zero, a tab that wraps, a %c and a carriage return followed by   *)
(* a character that overwrites it; a %p line longer than two rows; an %x   *)
(* line exactly one row wide; %lx and %lu; a bare '%' and an unknown       *)
(* conversion.  Most orders of four calls scroll the screen.               *)
(***************************************************************************)
EXTENDS Console, StringLib, Pci

FmtStatus == <<"%", "s", "\n">>
FmtVersion == <<"v", "%", "u", ".", "%", "d", "\t", "%", "c", "\r", ">", "\n">>
FmtPtr == <<"%", "p", " ", "%", "%", "\n">>
FmtRow == <<"%", "x", "\n">>
FmtLong == <<"%", "l", "x", "%", "l", "u", "\t">>
FmtOdd == <<"%", "q", "%">>

CallsMC ==
    { [fmt |-> FmtStatus,  args |-> <<<<"o", "k">>>>],
      [fmt |-> FmtStatus,  args |-> <<NULL>>],
      [fmt |-> FmtVersion, args |-> <<10, 0, "z">>],
      [fmt |-> FmtPtr,     args |-> <<255>>],
      [fmt |-> FmtRow,     args |-> <<171>>],
      [fmt |-> FmtLong,    args |-> <<4660, 7>>],
      [fmt |-> FmtOdd,     args |-> <<>>] }

PanicMsgsMC == { <<"e">> }

(* Vector 0 (divide error), 14 (page fault, with its extra lines) and 31,  *)
(* whose exception_names[] slot has no initializer (the table lists 31     *)
(* names for 32 vectors) and so is NULL.                                   *)
VectorsMC == {0, 14, 31}
ExcNameMC == [n \in VectorsMC |-> CASE n = 0  -> <<"D">>
                                    [] n = 14 -> <<"F">>
                                    [] OTHER  -> NULL]

(* string.c is in use from boot on: in every state the routines agree with *)
(* their reference meanings (StringLib), checked once as constants.        *)
StringOpsAgree == inited \in BOOLEAN /\ StringRoutinesAgree

(* process_create's strncpy of a name into name[32] never writes past the  *)
(* array and leaves the name's first 31 characters, NUL-terminated.        *)
ProcessNameFits == inited \in BOOLEAN /\ ProcessNameCopy

(* PCI cards as the scan meets them (2 buses x 2 slots, up to 3 entries in *)
(* devices[] so that a full table drops a function): a multi-function APU  *)
(* (display with two 64-bit BARs and a 32-bit one, PM then 64-bit MSI; HD  *)
(* audio with a 32-bit MSI first), a Realtek NIC, an I210 that answers for *)
(* all eight function numbers, and an NVMe controller (MSI before PM).     *)
NoneBar == [kind |-> "none", lo |-> DwZero, hi |-> DwZero, size |-> 0, pref |-> FALSE]
Mem(k, base, z, p) == [kind |-> k, lo |-> base, hi |-> DwZero, size |-> z, pref |-> p]
BarsOf(f) == [i \in 0 .. 5 |-> IF i \in DOMAIN f THEN f[i] ELSE NoneBar]
PM(o) == [off |-> o, id |-> 1, msi64 |-> FALSE]
MSI(o, w) == [off |-> o, id |-> 5, msi64 |-> w]

ApuVga == [vendor |-> \h1002, device |-> \h15D8, class |-> <<3, 0, 0>>, rev |-> \hC1,
           multi |-> TRUE, irq |-> 11, pin |-> 1,
           bars |-> BarsOf(0 :> Mem("mem64", <<0, \hE000>>, \h10000000, TRUE)
                        @@ 2 :> Mem("mem64", <<0, \hF000>>, \h200000, TRUE)
                        @@ 5 :> Mem("mem32", <<0, \hFE80>>, \h80000, FALSE)),
           caps |-> << PM(\h48), MSI(\h50, TRUE) >>]
ApuHda == [vendor |-> \h1002, device |-> \h15DE, class |-> <<4, 3, 0>>, rev |-> 0,
           multi |-> FALSE, irq |-> 10, pin |-> 2,
           bars |-> BarsOf(0 :> Mem("mem32", <<\h8000, \hFE9C>>, \h4000, FALSE)),
           caps |-> << MSI(\h40, FALSE), PM(\h50) >>]
Nic == [vendor |-> \h10EC, device |-> \h8168, class |-> <<2, 0, 0>>, rev |-> \h15,
        multi |-> FALSE, irq |-> 11, pin |-> 1,
        bars |-> BarsOf(2 :> Mem("mem64", <<\h4000, \hF710>>, \h1000, FALSE)
                     @@ 4 :> Mem("mem64", <<0, \hF710>>, \h4000, TRUE)),
        caps |-> << PM(\h40), MSI(\h50, TRUE) >>]
I210 == [vendor |-> \h8086, device |-> \h1533, class |-> <<2, 0, 0>>, rev |-> 3,
         multi |-> FALSE, irq |-> 5, pin |-> 1,
         bars |-> BarsOf(0 :> Mem("mem32", <<0, \hF720>>, \h20000, FALSE)
                      @@ 3 :> Mem("mem32", <<0, \hF722>>, \h4000, FALSE)),
         caps |-> << PM(\h40), MSI(\h50, TRUE) >>]
Nvme == [vendor |-> \h144D, device |-> \hA808, class |-> <<1, 8, 2>>, rev |-> 0,
         multi |-> FALSE, irq |-> 10, pin |-> 1,
         bars |-> BarsOf(0 :> Mem("mem64", <<0, \hFE60>>, \h4000, FALSE)),
         caps |-> << MSI(\h40, TRUE), PM(\h50) >>]

CardsMC == { [ghost |-> FALSE, funcs |-> (0 :> ApuVga @@ 1 :> ApuHda)],
             [ghost |-> FALSE, funcs |-> (0 :> Nic)],
             [ghost |-> TRUE,  funcs |-> (0 :> I210)],
             [ghost |-> FALSE, funcs |-> (0 :> Nvme)] }

(* pci.c's scan, lookups and register writes checked once as constants     *)
(* against what the PCI specification says the registers mean.            *)
PciScanOK == inited \in BOOLEAN /\ PciScanAgrees
PciMsiOK == inited \in BOOLEAN /\ MsiProgrammed
=============================================================================
