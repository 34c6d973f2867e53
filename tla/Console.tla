------------------------------ MODULE Console ------------------------------
(***************************************************************************)
(* printf (libk/src/all/stdio/printf.c) and the terminal it writes to      *)
(* (kernel/src/arch/i386/tty.c).  Threads call printf at the same time and *)
(* share the cursor without a lock; what is said of the screen ends when   *)
(* two calls of terminal_putchar overlap, so the steps of one need not be  *)
(* finer than its assignments.  Colours are left out.                      *)
(*                                                                         *)
(* num and den are the operands of a 64-bit division.  A number is printed *)
(* when den is the base of a conversion: %x, %o and %u take an unsigned    *)
(* int, %J 64 bits.                                                        *)
(***************************************************************************)
EXTENDS Arithmetic, Sequences, SequencesExt

CONSTANTS
  Threads,
  Formats,          \* the format strings: sequences of characters, Conversion,
                    \* String and Unknown
  Conversion, String, Unknown,
  Argument,         \* the string a %s is given
  Printable,        \* bound: the numbers that are printed
  Newline,          \* '\n'
  Width, Height,    \* VGA_WIDTH, VGA_HEIGHT
  MaxNumberLength   \* MAX_NUMBER_LENGTH

ASSUME ConsoleAssumption ==
  /\ Width \in Nat \ {0} /\ Height \in Nat \ {0} /\ MaxNumberLength \in Nat
  /\ Power(8, MaxNumberLength) >= Whole  \* "size in the worst case"
  /\ Argument \in Seq(STRING) /\ \A f \in Formats : f \in Seq(STRING)

VARIABLES
  num, den,
  terminal_row, terminal_column, terminal_buffer,
  place, format, out, written,   \* of each thread: out is what the conversion
                                 \* at hand has still to print
  panicked,
  text,         \* history: the characters printed, in the order they began
  said,         \* history: what each thread has given to terminal_putchar
  called,       \* history: the format each thread called printf with
  overlapped    \* history: has a terminal_putchar begun inside another?

terminal == <<terminal_row, terminal_column, terminal_buffer>>
history == <<text, said, called, overlapped>>
console ==
  <<num, den, terminal, place, format, out, written, panicked, history>>

Cells == (0..(Width - 1)) \X (0..(Height - 1))

ConsoleInit ==
  /\ num \in Unsigned /\ den \in Unsigned
  /\ terminal_row = 0 /\ terminal_column = 0
  /\ terminal_buffer = [cell \in Cells |-> " "]  \* terminal_initialize
  /\ place = [t \in Threads |-> "call"]
  /\ format = [t \in Threads |-> <<>>]
  /\ out = [t \in Threads |-> <<>>]
  /\ written = [t \in Threads |-> 0]
  /\ panicked = FALSE
  /\ text = <<>>
  /\ said = [t \in Threads |-> <<>>]
  /\ called = [t \in Threads |-> <<>>]
  /\ overlapped = FALSE

Goto(t, from, to) ==
  /\ place[t] = from
  /\ place' = [place EXCEPT ![t] = to]

-----------------------------------------------------------------------------
digits == <<"0", "1", "2", "3", "4", "5", "6", "7",
            "8", "9", "a", "b", "c", "d", "e", "f">>

(* The loop of printf_u leaves remain[k] after k digits, which are printed *)
(* in reverse.  Its test ends it with a panic behind MaxNumberLength + 1.  *)
Printed(i, base) ==
  LET remain[k \in 0..(MaxNumberLength + 1)] ==
        IF k = 0 THEN i ELSE udiv64(remain[k - 1], base)
      length == Min({k \in DOMAIN remain : remain[k] = 0})
  IN [j \in 1..length |-> digits[umod64(remain[length - j], base) + 1]]

BadPrintf_u(i, base) == Printed(i, base)  \* prints nothing for 0

printf_u(i, base) == IF i = 0 THEN <<digits[1]>> ELSE Printed(i, base)

HasConversion ==
  num \in Printable /\ (den = 16 \/ (den \in {8, 10} /\ num < Half))

-----------------------------------------------------------------------------
(* printf                                                                  *)

Printf(t) ==
  /\ Goto(t, "call", "format")
  /\ \E f \in Formats :
       /\ Conversion \in Range(f) => HasConversion
       /\ format' = [format EXCEPT ![t] = f]
       /\ called' = [called EXCEPT ![t] = f]
  /\ UNCHANGED <<num, den, terminal, out, written, panicked, text, said,
                 overlapped>>

\* What one conversion, or one character, sends to the terminal.
Output(item) ==
  CASE item = Conversion -> printf_u(num, den)
    [] item = String -> Argument
    [] OTHER -> <<item>>

Convert(t) ==
  /\ format[t] # <<>>
  /\ Head(format[t]) # Unknown
  /\ Goto(t, "format", "putchar")
  /\ out' = [out EXCEPT ![t] = Output(Head(format[t]))]
  /\ written' = [written EXCEPT ![t] = @ + Len(Output(Head(format[t])))]
  /\ format' = [format EXCEPT ![t] = Tail(@)]
  /\ UNCHANGED <<num, den, terminal, panicked, history>>

\* "Unknown format" and "Unexpected end of format string"
UnknownFormat(t) ==
  /\ place[t] = "format"
  /\ format[t] # <<>>
  /\ Head(format[t]) = Unknown
  /\ panicked' = TRUE
  /\ UNCHANGED <<num, den, terminal, place, format, out, written, history>>

Return(t) ==
  /\ format[t] = <<>>
  /\ Goto(t, "format", "done")
  /\ UNCHANGED <<num, den, terminal, format, out, written, panicked, history>>

\* The loops of terminal_write and printf_u end.
Written(t) ==
  /\ out[t] = <<>>
  /\ Goto(t, "putchar", "format")
  /\ UNCHANGED <<num, den, terminal, format, out, written, panicked, history>>

-----------------------------------------------------------------------------
(* terminal_putchar                                                        *)

InPutchar(t) == place[t] \in {"column", "row", "scroll"}

PutEntry(t) ==
  /\ out[t] # <<>>
  /\ LET c == Head(out[t]) IN
       /\ terminal_buffer' =
            IF c = Newline THEN terminal_buffer ELSE
              [terminal_buffer EXCEPT ![<<terminal_column, terminal_row>>] = c]
       /\ Goto(t, "putchar", IF c = Newline THEN "row" ELSE "column")
       /\ text' = Append(text, c)
       /\ said' = [said EXCEPT ![t] = Append(@, c)]
  /\ overlapped' = (overlapped \/ \E u \in Threads : InPutchar(u))
  /\ UNCHANGED <<num, den, terminal_row, terminal_column, format, out, written,
                 panicked, called>>

\* ++terminal_column == VGA_WIDTH
Column(t) ==
  /\ Goto(t, "column", IF terminal_column + 1 = Width THEN "row" ELSE "putchar")
  /\ terminal_column' = terminal_column + 1
  /\ out' = IF terminal_column + 1 = Width THEN out
            ELSE [out EXCEPT ![t] = Tail(@)]
  /\ UNCHANGED <<num, den, terminal_row, terminal_buffer, format, written,
                 panicked, history>>

\* terminal_column = 0; ++terminal_row == VGA_HEIGHT
Row(t) ==
  /\ Goto(t, "row", IF terminal_row + 1 = Height THEN "scroll" ELSE "putchar")
  /\ terminal_column' = 0
  /\ terminal_row' = terminal_row + 1
  /\ out' = IF terminal_row + 1 = Height THEN out
            ELSE [out EXCEPT ![t] = Tail(@)]
  /\ UNCHANGED <<num, den, terminal_buffer, format, written, panicked, history>>

\* The memcpy of all lines but the first, and the blank last line.
BadScrolled ==  \* the last line is not cleared
  [cell \in Cells |-> terminal_buffer[<<cell[1],
     IF cell[2] = Height - 1 THEN cell[2] ELSE cell[2] + 1>>]]

Scrolled ==
  [cell \in Cells |->
     IF cell[2] = Height - 1 THEN " "
     ELSE terminal_buffer[<<cell[1], cell[2] + 1>>]]

Scroll(t) ==
  /\ Goto(t, "scroll", "putchar")
  /\ terminal_row' = Height - 1
  /\ terminal_buffer' = Scrolled
  /\ out' = [out EXCEPT ![t] = Tail(@)]
  /\ UNCHANGED <<num, den, terminal_column, format, written, panicked, history>>

terminal_putchar(t) == PutEntry(t) \/ Column(t) \/ Row(t) \/ Scroll(t)

ConsoleNext ==
  /\ ~panicked
  /\ \E t \in Threads :
       \/ Printf(t) \/ Convert(t) \/ UnknownFormat(t) \/ Return(t) \/ Written(t)
       \/ terminal_putchar(t)

ConsoleSpec == ConsoleInit /\ [][ConsoleNext]_console

-----------------------------------------------------------------------------
(* Properties.                                                             *)

\* Division of integers rounds towards 0.
Quotient(m, e) ==
  IF (m < 0) = (e < 0) THEN Abs(m) \div Abs(e) ELSE -(Abs(m) \div Abs(e))

(* The routines GCC calls for 64-bit division give the exact quotient for  *)
(* every pair of operands, and their divl never traps.  They give the      *)
(* exact remainder when it fits the 32-bit types that umod64 and smod64    *)
(* return: an unsigned one below 2^32, a signed one from -2^31 to 2^31 - 1.*)
(* (The only quotient that does not exist is that of INT64_MIN and -1.)    *)
DivisionExact ==
  LET m == Signed(num, Whole)
      e == Signed(den, Whole)
      r == m - e * Quotient(m, e)
  IN den # 0 =>
       /\ udiv64(num, den) = num \div den
       /\ num % den < Half => umod64(num, den) = num % den
       /\ ~(m = -(Whole \div 2) /\ e = -1) =>
            /\ sdiv64(m, e) = Quotient(m, e)
            /\ r \in (-(Half \div 2))..(Half \div 2 - 1) => smod64(m, e) = r

(* umod64 and smod64 return the remainder, as their comments say, and      *)
(* __umoddi3 and __moddi3 the 64-bit remainder.                            *)
RemainderExact ==
  LET m == Signed(num, Whole)
      e == Signed(den, Whole)
  IN den # 0 =>
       /\ umod64(num, den) = num % den
       /\ smod64(m, e) = m - e * Quotient(m, e)

\* The numeral of i in base b.
Numeral(i, b) ==
  LET length == CHOOSE k \in 1..(MaxNumberLength + 1) :
                  Power(b, k) > i /\ (k = 1 \/ Power(b, k - 1) <= i)
  IN [k \in 1..length |-> digits[((i \div Power(b, length - k)) % b) + 1]]

(* When printf returns, it has printed every number as its numeral, every  *)
(* string and every character, it returns how many these are, and no       *)
(* number was longer than the buffer of printf_u.                          *)
PrintsFormat ==
  \A t \in Threads : place[t] = "done" =>
    LET Expected(item) ==
          CASE item = Conversion -> Numeral(num, den)
            [] item = String -> Argument
            [] OTHER -> <<item>>
    IN /\ said[t] =
            FlattenSeq([k \in 1..Len(called[t]) |-> Expected(called[t][k])])
       /\ written[t] = Len(said[t])
       /\ Conversion \in Range(called[t]) =>
            Len(printf_u(num, den)) <= MaxNumberLength

\* Where each character goes on paper that is Width wide and never ends.
Paper[k \in 0..Len(text)] ==
  IF k = 0 THEN <<0, 0>>
  ELSE LET x == Paper[k - 1][1]
           y == Paper[k - 1][2]
       IN IF text[k] = Newline \/ x + 1 = Width
            THEN <<0, y + 1>> ELSE <<x + 1, y>>

(* As long as no two terminal_putchar overlap, the screen shows the end of *)
(* what was printed, wrapped at its width and scrolled by whole lines, and *)
(* the cursor is where the next character goes.                            *)
ScreenShowsText ==
  ~overlapped /\ (\A t \in Threads : ~InPutchar(t)) =>
    LET paper == Paper
        cursor == paper[Len(text)]
        top == IF cursor[2] < Height THEN 0 ELSE cursor[2] - (Height - 1)
        At(x, y) ==
          {k \in 1..Len(text) : text[k] # Newline /\ paper[k - 1] = <<x, y>>}
    IN /\ <<terminal_column, terminal_row>> = <<cursor[1], cursor[2] - top>>
       /\ \A cell \in Cells :
            LET here == At(cell[1], cell[2] + top) IN
            IF here = {} THEN terminal_buffer[cell] = " "
            ELSE \E k \in here : terminal_buffer[cell] = text[k]

=============================================================================
