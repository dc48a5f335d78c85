------------------------------- MODULE Format -------------------------------
(***************************************************************************)
(* _vsnprintf and _vprintf (print/printf.c): a format is read character by *)
(* character, once to learn the length of the text and once to put it in a *)
(* buffer of BUF_SIZE characters.  printk and printf share this code.      *)
(***************************************************************************)
EXTENDS Integers, Sequences

CONSTANTS
  BUF_SIZE,   \* characters of the buffer
  INT, LONG,  \* hexadecimal digits of an int and a long
  Args,       \* arguments: [num, str], read as the conversion asks
  LenMax      \* bound of the model: characters of a format

Chars == {"%", "l", "p", "x", "d", "s", "c", "#"}
Takes == {"p", "x", "d", "s", "c"}
Digits == <<"0", "1", "2", "3", "4", "5", "6", "7", "8", "9", "a", "b", "c", "d", "e", "f">>

VARIABLES
  fmt, args,    \* the call
  pass,         \* "count" and "put", "error" for the endless loop, "done"
  i,            \* character of the format that is next
  format, longarg, pos,
  vl,           \* argument that is next
  n,            \* characters _vsnprintf may use, 0 in the pass without a buffer
  buf           \* the buffer, whatever was in it before

vars == <<fmt, args, pass, i, format, longarg, pos, vl, n, buf>>

\* An argument that the caller did not pass: whatever is there.
Arg(k) == IF k \in DOMAIN args THEN args[k] ELSE [num |-> 0, str |-> <<>>]

\* Conversions take their arguments in order, at most two of them; c is the last.
Converts(f) ==
  {k \in DOMAIN f : /\ f[k] \in Takes
                    /\ \E j \in 1 .. k - 1 : f[j] = "%" /\ \A h \in j + 1 .. k - 1 : f[h] \notin Takes}

Callable(f) == \A k \in Converts(f) : f[k] = "c" => \A j \in Converts(f) : j <= k

Formats == {f \in UNION {[1 .. k -> Chars] : k \in 0 .. LenMax} : Callable(f)}

Init ==
  /\ fmt \in Formats
  /\ args \in [1 .. 2 -> Args]
  /\ pass = "count"
  /\ i = 1 /\ format = FALSE /\ longarg = FALSE /\ pos = 0 /\ vl = 1 /\ n = 0
  /\ buf = [k \in 0 .. BUF_SIZE |-> "?"]

-----------------------------------------------------------------------------
Hex(num, w) == [k \in 1 .. w |-> Digits[((num \div (16 ^ (w - k))) % 16) + 1]]

Abs(num) == IF num < 0 THEN - num ELSE num

Decimal(num) ==
  LET a == Abs(num)
      digits == CHOOSE k \in 1 .. 10 : a < 10 ^ k /\ \A j \in 1 .. k - 1 : a >= 10 ^ j
  IN  (IF num < 0 THEN <<"-">> ELSE <<>>)
      \o [k \in 1 .. digits |-> Digits[((a \div (10 ^ (digits - k))) % 10) + 1]]

\* What conversion c writes.
Piece(c, long, arg) ==
  CASE c = "p" -> <<"0", "x">> \o Hex(arg.num, LONG)
    [] c = "x" -> Hex(arg.num, IF long THEN LONG ELSE INT)
    [] c = "d" -> Decimal(arg.num)
    [] c = "s" -> arg.str
    [] c = "c" -> <<"c">>

\* Mutant: the last character is left out.
Put_short(t) ==
  /\ buf' = [k \in DOMAIN buf |->
               IF k \in pos .. (pos + Len(t) - 1) /\ k + 2 < n THEN t[k - pos + 1] ELSE buf[k]]
  /\ pos' = pos + Len(t)

\* out[pos] and the following are set to t, as far as they are below n.
Put(t) ==
  /\ buf' = [k \in DOMAIN buf |->
               IF k \in pos .. (pos + Len(t) - 1) /\ k < n THEN t[k - pos + 1] ELSE buf[k]]
  /\ pos' = pos + Len(t)

\* One turn of the loop.  c takes its argument only when there is a buffer.
Char ==
  /\ pass \in {"count", "put"}
  /\ i <= Len(fmt)
  /\ i' = i + 1
  /\ LET c == fmt[i]
     IN  \/ /\ format /\ c \in Takes
            /\ Put(Piece(c, longarg, Arg(vl)))
            /\ vl' = IF c = "c" /\ ~ (pos < n) THEN vl ELSE vl + 1
            /\ format' = FALSE /\ longarg' = FALSE
         \/ /\ format /\ c \notin Takes
            /\ longarg' = (longarg \/ c = "l")
            /\ UNCHANGED <<format, pos, vl, buf>>
         \/ /\ ~ format /\ c = "%"
            /\ format' = TRUE
            /\ UNCHANGED <<longarg, pos, vl, buf>>
         \/ /\ ~ format /\ c # "%"
            /\ Put(<<c>>)
            /\ UNCHANGED <<format, longarg, vl>>
  /\ UNCHANGED <<fmt, args, pass, n>>

TooLong(res) == res + 1 >= BUF_SIZE

\* The first pass has returned pos; _vprintf gives up or starts the second.
Again ==
  /\ pass = "count"
  /\ i > Len(fmt)
  /\ IF TooLong(pos) THEN pass' = "error" /\ UNCHANGED <<i, format, longarg, pos, vl, n>>
     ELSE /\ pass' = "put"
          /\ i' = 1 /\ format' = FALSE /\ longarg' = FALSE /\ pos' = 0 /\ vl' = 1
          /\ n' = pos + 1
  /\ UNCHANGED <<fmt, args, buf>>

\* out[pos] = 0, or the last character of the buffer.
End ==
  /\ pass = "put"
  /\ i > Len(fmt)
  /\ pass' = "done"
  /\ buf' = [buf EXCEPT ![IF pos < n THEN pos ELSE n - 1] = "NUL"]
  /\ UNCHANGED <<fmt, args, i, format, longarg, pos, vl, n>>

Next == Char \/ Again \/ End

Spec == Init /\ [][Next]_vars

-----------------------------------------------------------------------------
(* Properties. *)

\* The text of the format from character k on, its next argument being a.
Text(f) ==
  LET from[k \in 1 .. Len(f) + 1, a \in 1 .. Len(f) + 1] ==
        IF k > Len(f) THEN <<>>
        ELSE IF f[k] # "%" THEN <<f[k]>> \o from[k + 1, a]
        ELSE LET ends == {j \in k + 1 .. Len(f) : f[j] \in Takes}
             IN  IF ends = {} THEN <<>>
                 ELSE LET e == CHOOSE j \in ends : \A h \in ends : j <= h
                      IN  Piece(f[e], \E h \in k + 1 .. e - 1 : f[h] = "l", Arg(a))
                          \o from[e + 1, a + 1]
  IN  from[1, 1]

\* The buffer that uart_puts() gets holds the text and nothing of what was in
\* it before: both passes take the same arguments and count the
\* same length.
TextRight ==
  pass = "done" =>
    LET t == Text(fmt)
    IN  /\ pos = Len(t)
        /\ \A k \in 1 .. Len(t) : buf[k - 1] = t[k]
        /\ buf[Len(t)] = "NUL"

\* A text that does not fit is refused before a character is written.
InBuffer == buf[BUF_SIZE] = "?" /\ n <= BUF_SIZE
=============================================================================
