------------------------------ MODULE Console ------------------------------
(***************************************************************************)
(* The early text console of src/console.c: console_early_init, the        *)
(* cursor and scrolling logic of vga_putchar, the digit printers print_hex  *)
(* and print_dec, the format interpreter kvprintf, and kprintf /           *)
(* kernel_panic that drive it.  A character is a one-letter string, a C    *)
(* string a sequence of them; a VGA cell is a record of its character and  *)
(* its attribute byte.  The screen is W x H cells (80 x 25 in the code).   *)
(***************************************************************************)
EXTENDS Integers, Sequences, SequencesExt, Bitwise

CONSTANTS
    W, H,          \* VGA_WIDTH, VGA_HEIGHT (W a multiple of 4, as 80 is)
    FG, BG,        \* fg_color, bg_color
    Calls,         \* kprintf calls the kernel makes: [fmt, args]
    PanicMsgs,     \* messages handed to kernel_panic
    MaxCalls,      \* bound on the number of kprintf calls explored
    NULL,          \* the NULL pointer as a %s argument
    JUNK,          \* whatever the firmware left in the text buffer
    Vectors,       \* exception vectors (0 .. 31) the CPU may raise
    ErrCodes,      \* error codes pushed with them
    Cr2s,          \* faulting addresses read_cr2 may return
    ExcName        \* exception_names[]: vector -> string or NULL

VARIABLES
    vga,           \* vga_buffer[0 .. W*H-1]
    cursor_x, cursor_y,
    inited,        \* console_early_init has run
    halted,        \* kernel_panic: cli; hlt forever
    idt_loaded,    \* idt_init has run lidt
    pending,       \* kprintf calls interrupt_handler has still to make
    out,           \* history: characters handed to vga_putchar since init
    calls          \* history: the kprintf calls made since init

vars == <<vga, cursor_x, cursor_y, inited, halted, idt_loaded, pending, out, calls>>

Cells == 0 .. W * H - 1
Blank == [c |-> " ", a |-> 7]                   \* 0x0720
\* (uint16_t)c | (fg_color << 8) | (bg_color << 12), stored in 16 bits:
\* only the low byte of fg_color and low nibble of bg_color survive.
Attr == (((FG % 256) * 256) | ((BG % 16) * 4096)) \div 256
Digit == <<"0","1","2","3","4","5","6","7","8","9","A","B","C","D","E","F">>
HexChar(d) == Digit[d + 1]

(* vga_buffer[idx] = c with the attribute; an index past the buffer (only  *)
(* reachable if the cursor leaves the screen) writes memory outside it.     *)
Store(v, idx, c) ==
    IF idx \in Cells THEN [v EXCEPT ![idx] = [c |-> c, a |-> Attr]] ELSE v

(* Mutant: the copy loop stops one row early (y < VGA_HEIGHT - 2).         *)
ScrollShort(v) ==
    [i \in Cells |-> IF i < (H - 2) * W THEN v[i + W]
                     ELSE IF i < (H - 1) * W THEN v[i] ELSE Blank]

(* The scroll loop: rows 1 .. H-1 move up one row, the last is cleared.    *)
Scroll(v) == [i \in Cells |-> IF i < (H - 1) * W THEN v[i + W] ELSE Blank]

(* Mutant: the wrap test is cursor_x > VGA_WIDTH.                         *)
PutcharLateWrap(s, c) ==
    LET s1 == CASE c = "\n" -> [s EXCEPT !.x = 0, !.y = @ + 1]
                [] c = "\r" -> [s EXCEPT !.x = 0]
                [] c = "\t" -> [s EXCEPT !.x = (@ + 4) - ((@ + 4) % 4)]
                [] OTHER    -> [s EXCEPT !.vga = Store(@, s.y * W + s.x, c), !.x = @ + 1]
        s2 == IF s1.x > W THEN [s1 EXCEPT !.x = 0, !.y = @ + 1] ELSE s1
    IN  IF s2.y >= H THEN [s2 EXCEPT !.vga = Scroll(@), !.y = H - 1] ELSE s2

(* vga_putchar on a console state s = [vga, x, y].                         *)
Putchar(s, c) ==
    LET s1 == CASE c = "\n" -> [s EXCEPT !.x = 0, !.y = @ + 1]
                [] c = "\r" -> [s EXCEPT !.x = 0]
                [] c = "\t" -> [s EXCEPT !.x = (@ + 4) - ((@ + 4) % 4)]
                [] OTHER    -> [s EXCEPT !.vga = Store(@, s.y * W + s.x, c), !.x = @ + 1]
        s2 == IF s1.x >= W THEN [s1 EXCEPT !.x = 0, !.y = @ + 1] ELSE s1
    IN  IF s2.y >= H THEN [s2 EXCEPT !.vga = Scroll(@), !.y = H - 1] ELSE s2

(* val >> n on a 64-bit value; model values stay below 2^31.               *)
Shr(val, n) == IF n >= 31 THEN 0 ELSE val \div 2^n

(* print_hex: digits nibbles, most significant first.                      *)
PrintHex(val, digits) ==
    [k \in 1 .. digits |-> HexChar(Shr(val, (digits - k) * 4) % 16)]

(* print_dec: '0' for zero, else the digits collected in buf, in order.    *)
RECURSIVE DecDigits(_)
DecDigits(val) ==
    IF val = 0 THEN <<>> ELSE DecDigits(val \div 10) \o <<HexChar(val % 10)>>
(* Mutant: print_dec without its val == 0 case prints nothing for zero.    *)
PrintDecNoZero(val) == DecDigits(val)
PrintDec(val) == IF val = 0 THEN <<"0">> ELSE DecDigits(val)

StrArg(s) == IF s = NULL THEN <<>> ELSE s

(* kvprintf over fmt from index i with the next va_arg being args[j]: the  *)
(* characters it hands to vga_putchar.  "%l" not followed by x or u        *)
(* prints nothing and consumes no argument; an unknown conversion prints   *)
(* '%' and the letter; a '%' at the end of fmt prints itself.              *)
RECURSIVE Kv(_, _, _, _)
Kv(f, i, a, j) ==
    IF i > Len(f) THEN <<>>
    ELSE IF f[i] = "%" /\ i < Len(f)
    THEN LET c  == f[i + 1]
             nx == IF i + 2 <= Len(f) THEN f[i + 2] ELSE "NUL"
         IN CASE c = "s"             -> StrArg(a[j]) \o Kv(f, i + 2, a, j + 1)
              [] c \in {"d","i","u"} -> PrintDec(a[j]) \o Kv(f, i + 2, a, j + 1)
              [] c = "x"             -> PrintHex(a[j], 8) \o Kv(f, i + 2, a, j + 1)
              [] c = "l" /\ nx = "x" -> PrintHex(a[j], 16) \o Kv(f, i + 3, a, j + 1)
              [] c = "l" /\ nx = "u" -> PrintDec(a[j]) \o Kv(f, i + 3, a, j + 1)
              [] c = "l"             -> Kv(f, i + 2, a, j)
              [] c = "p"             -> <<"0","x">> \o PrintHex(a[j], 16)
                                           \o Kv(f, i + 2, a, j + 1)
              [] c = "c"             -> <<a[j]>> \o Kv(f, i + 2, a, j + 1)
              [] c = "%"             -> <<"%">> \o Kv(f, i + 2, a, j)
              [] OTHER               -> <<"%", c>> \o Kv(f, i + 2, a, j)
    ELSE <<f[i]>> \o Kv(f, i + 1, a, j)

KvPrintf(fmt, args) == Kv(fmt, 1, args, 1)

Console == [vga |-> vga, x |-> cursor_x, y |-> cursor_y]

(* The characters of one kprintf handed to vga_putchar one after another.  *)
PutAll(s, text) ==
    LET st[k \in 0 .. Len(text)] ==
            IF k = 0 THEN s ELSE Putchar(st[k - 1], text[k])
    IN  st[Len(text)]

(* A sequence of kprintf calls: the whole formatted output of each goes    *)
(* through vga_putchar in order.                                           *)
Emit(cs) ==
    LET text == FlattenSeq([k \in DOMAIN cs |-> KvPrintf(cs[k].fmt, cs[k].args)])
        s    == PutAll(Console, text)
    IN  /\ vga' = s.vga /\ cursor_x' = s.x /\ cursor_y' = s.y
        /\ out' = out \o text
        /\ calls' = calls \o cs

Init ==
    /\ vga = [i \in Cells |-> JUNK]
    /\ cursor_x = 0 /\ cursor_y = 0
    /\ inited = FALSE /\ halted = FALSE /\ idt_loaded = FALSE
    /\ pending = <<>>
    /\ out = <<>> /\ calls = <<>>

ConsoleEarlyInit ==
    /\ ~inited
    /\ vga' = [i \in Cells |-> Blank]
    /\ cursor_x' = 0 /\ cursor_y' = 0
    /\ inited' = TRUE
    /\ UNCHANGED <<halted, idt_loaded, pending, out, calls>>

Kprintf ==
    /\ inited /\ ~halted /\ pending = <<>> /\ Len(calls) < MaxCalls
    /\ \E call \in Calls : Emit(<<call>>)
    /\ UNCHANGED <<inited, halted, idt_loaded, pending>>

(* kernel_panic: cli, one kprintf of the banner and msg, then hlt forever. *)
PanicFmt == <<"\n", "\n", "!", "\n", "%", "s", "\n", "h", "\n">>
PanicCall(msg) == [fmt |-> PanicFmt, args |-> <<msg>>]
KernelPanic ==
    /\ inited /\ ~halted /\ pending = <<>>
    /\ \E msg \in PanicMsgs : Emit(<<PanicCall(msg)>>)
    /\ halted' = TRUE
    /\ UNCHANGED <<inited, idt_loaded, pending>>

(* idt_init: the gates of vectors 0 .. 47 (their addresses are not         *)
(* modelled), lidt, then its kprintf of the entry count.                   *)
IdtFmt == <<"I", "%", "d", "\n">>
IdtInit ==
    /\ inited /\ ~halted /\ pending = <<>> /\ ~idt_loaded
    /\ Emit(<<[fmt |-> IdtFmt, args |-> <<256>>]>>)
    /\ idt_loaded' = TRUE
    /\ UNCHANGED <<inited, halted, pending>>

(* interrupt_handler for an exception (num < 32): the vector and its name, *)
(* the error code, for a page fault CR2 and the P/W/U bits of the error    *)
(* code, then kernel_panic("Unhandled exception").  The CPU enters the     *)
(* handler through an interrupt gate, so nothing else runs until the       *)
(* panic halts it; the calls are made one step at a time.                  *)
ExcFmt == <<"E", "%", "l", "u", ":", "%", "s", "\n">>
ErrFmt == <<"c", "%", "l", "u", "\n">>
Cr2Fmt == <<"2", "%", "p", "\n">>
PwuFmt == <<"P", "%", "d", "W", "%", "d", "U", "%", "d", "\n">>
Bit(err, b) == IF (err & b) # 0 THEN 1 ELSE 0
ExceptionCalls(num, err, cr2) ==
    << [fmt |-> ExcFmt, args |-> <<num, ExcName[num]>>],
       [fmt |-> ErrFmt, args |-> <<err>>] >>
    \o (IF num = 14
        THEN << [fmt |-> Cr2Fmt, args |-> <<cr2>>],
                [fmt |-> PwuFmt, args |-> <<Bit(err, 1), Bit(err, 2), Bit(err, 4)>>] >>
        ELSE <<>>)
    \o << PanicCall(<<"u">>) >>
CpuException ==
    /\ inited /\ ~halted /\ pending = <<>> /\ idt_loaded
    /\ \E num \in Vectors, err \in ErrCodes, cr2 \in Cr2s :
         pending' = ExceptionCalls(num, err, cr2)
    /\ UNCHANGED <<vga, cursor_x, cursor_y, inited, halted, idt_loaded, out, calls>>
(* The next kprintf of the handler; the last is kernel_panic's, which halts. *)
HandlerKprintf ==
    /\ pending # <<>>
    /\ Emit(<<Head(pending)>>)
    /\ pending' = Tail(pending)
    /\ halted' = (Len(pending) = 1)
    /\ UNCHANGED <<inited, idt_loaded>>

Next == ConsoleEarlyInit \/ Kprintf \/ KernelPanic \/ IdtInit \/ CpuException
        \/ HandlerKprintf

Spec == Init /\ [][Next]_vars

-----------------------------------------------------------------------------
(***************************************************************************)
(* Reference screen.  Independently of the cursor arithmetic: the output   *)
(* splits at '\n' into lines; within a line a character lands at a         *)
(* position p (row p \div W, column p % W) that advances by one, to the    *)
(* next multiple of 4 on '\t', and to its row start on '\r'; a line        *)
(* occupies the rows up to its final position; the screen shows the last  *)
(* H rows of all lines, top-aligned while there are fewer.                 *)
(***************************************************************************)
Lines(s) ==
    LET nl == SelectSeq([i \in 1 .. Len(s) |-> i], LAMBDA i : s[i] = "\n")
        b  == <<0>> \o nl \o <<Len(s) + 1>>
    IN  [k \in 1 .. Len(b) - 1 |-> SubSeq(s, b[k] + 1, b[k + 1] - 1)]

Ordinary(c) == c \notin {"\n", "\r", "\t"}

LinePos(L) ==
    LET p[k \in 0 .. Len(L)] ==
          IF k = 0 THEN 0
          ELSE CASE L[k] = "\r" -> p[k - 1] - (p[k - 1] % W)
                 [] L[k] = "\t" -> (p[k - 1] + 4) - ((p[k - 1] + 4) % 4)
                 [] OTHER       -> p[k - 1] + 1
    IN  p

LineRows(L) ==
    LET p == LinePos(L)
        Cell(q) == LET ks == {k \in 1 .. Len(L) : Ordinary(L[k]) /\ p[k - 1] = q}
                   IN  IF ks = {} THEN Blank
                       ELSE [c |-> L[Max(ks)], a |-> Attr]
    IN  [r \in 1 .. p[Len(L)] \div W + 1 |->
            [x \in 0 .. W - 1 |-> Cell((r - 1) * W + x)]]

ScreenOf(s) ==
    LET ls   == Lines(s)
        rows == FlattenSeq([k \in 1 .. Len(ls) |-> LineRows(ls[k])])
        n    == Len(rows)
        Row(y) == IF n <= H THEN IF y < n THEN rows[y + 1] ELSE [x \in 0 .. W - 1 |-> Blank]
                  ELSE rows[n - H + y + 1]
        lastL == ls[Len(ls)]
    IN  [vga |-> [i \in Cells |-> Row(i \div W)[i % W]],
         x   |-> LinePos(lastL)[Len(lastL)] % W,
         y   |-> IF n <= H THEN n - 1 ELSE H - 1]

(***************************************************************************)
(* Reference printf for the conversions spec.md lists (%s %d %i %u %x %lx  *)
(* %lu %p %c %%): fmt is cut into tokens, the k-th argument goes to the    *)
(* k-th argument-taking conversion, numbers in decimal without leading     *)
(* zeros or in hex zero-padded to 8 (16 for %lx and %p).                   *)
(***************************************************************************)
Conversions == {"s", "d", "i", "u", "x", "p", "c", "%"}

RECURSIVE Tokens(_)
Tokens(f) ==
    IF f = <<>> THEN <<>>
    ELSE IF Len(f) >= 3 /\ f[1] = "%" /\ f[2] = "l" /\ f[3] \in {"x", "u"}
    THEN <<[conv |-> <<"l", f[3]>>]>> \o Tokens(SubSeq(f, 4, Len(f)))
    ELSE IF Len(f) >= 2 /\ f[1] = "%" /\ f[2] \in Conversions
    THEN <<[conv |-> <<f[2]>>]>> \o Tokens(SubSeq(f, 3, Len(f)))
    ELSE <<[lit |-> f[1]]>> \o Tokens(Tail(f))

TakesArg(t) == "conv" \in DOMAIN t /\ t.conv # <<"%">>

DecRef(v) ==
    LET n == CHOOSE n \in 1 .. 9 : v < 10^n /\ (n = 1 \/ v >= 10^(n - 1))
    IN  [k \in 1 .. n |-> HexChar((v \div 10^(n - k)) % 10)]
HexRef(v, n) ==
    [k \in 1 .. n |-> IF n - k >= 8 THEN "0" ELSE HexChar((v \div 16^(n - k)) % 16)]

TokenText(t, arg) ==
    IF "lit" \in DOMAIN t THEN <<t.lit>>
    ELSE CASE t.conv = <<"s">> -> IF arg = NULL THEN <<>> ELSE arg
           [] t.conv \in {<<"d">>, <<"i">>, <<"u">>, <<"l", "u">>} -> DecRef(arg)
           [] t.conv = <<"x">> -> HexRef(arg, 8)
           [] t.conv = <<"l", "x">> -> HexRef(arg, 16)
           [] t.conv = <<"p">> -> <<"0", "x">> \o HexRef(arg, 16)
           [] t.conv = <<"c">> -> <<arg>>
           [] t.conv = <<"%">> -> <<"%">>

Printf(f, args) ==
    LET ts == Tokens(f)
        ArgOf(k) == LET j == Cardinality({m \in 1 .. k - 1 : TakesArg(ts[m])}) + 1
                    IN  IF TakesArg(ts[k]) THEN args[j] ELSE NULL
    IN  FlattenSeq([k \in 1 .. Len(ts) |-> TokenText(ts[k], ArgOf(k))])

-----------------------------------------------------------------------------
TypeOK ==
    /\ cursor_x \in 0 .. W - 1 /\ cursor_y \in 0 .. H - 1
    /\ DOMAIN vga = Cells
    /\ \A i \in Cells : vga[i] = JUNK \/ vga[i].a \in {7, Attr}
    /\ inited \in BOOLEAN /\ halted \in BOOLEAN
    /\ idt_loaded \in BOOLEAN /\ Len(pending) <= 5
    /\ Len(calls) <= MaxCalls + 6     \* the kprintf calls, idt_init's, one exception

(* vga_putchar's cursor, wrap and scroll logic keeps the text buffer and   *)
(* cursor exactly where the characters printed since console_early_init   *)
(* belong: the last H rows of the output, cursor after its last character. *)
ScreenShowsOutput == inited => Console = ScreenOf(out)

(* kvprintf prints every kprintf call, including kernel_panic's, as the    *)
(* conversions spec.md lists: each argument in its conversion, in order.   *)
OutputFollowsFormats ==
    out = FlattenSeq([k \in 1 .. Len(calls) |-> Printf(calls[k].fmt, calls[k].args)])

=============================================================================
