---------------------------- MODULE MCSequential ----------------------------
(* For TLC, the parts in which one thing happens at a time: registers and  *)
(* stacks, the text of printf(), the string functions, the clock.  `part'  *)
(* says which of them runs.                                                *)
EXTENDS Context, Sequences

VARIABLES
  part,
  fmt, args, pass, i, format, longarg, pos, vl, n, buf,         \* Format
  chars, last, path, names,                                     \* Strings
  date, days                                                    \* Clock

formatVars == <<fmt, args, pass, i, format, longarg, pos, vl, n, buf>>
stringVars == <<chars, last, path, names>>
clockVars == <<date, days>>

TwoArgs == {[num |-> -10, str |-> <<"h", "i">>], [num |-> 0, str |-> <<>>]}

P == INSTANCE Format
       WITH BUF_SIZE <- 6, INT <- 2, LONG <- 3, Args <- TwoArgs, LenMax <- 4
S == INSTANCE Strings WITH N <- 6, PATH_LONG_MAX <- 3, Letters <- {97}, mem <- chars
C == INSTANCE Clock WITH LastYear <- 2038

(* The parts that do not run stay in an initial state. *)
MCInit ==
  /\ part \in {"hart", "format", "strings", "clock"}
  /\ ContextInit /\ C!Init
  /\ IF part = "format" THEN P!Init
     ELSE /\ fmt = <<>> /\ args = <<>> /\ pass = "done" /\ buf = <<>>
          /\ i = 1 /\ format = FALSE /\ longarg = FALSE /\ pos = 0 /\ vl = 1 /\ n = 0
  /\ IF part = "strings" THEN S!Init
     ELSE chars = <<>> /\ last = [op |-> "none"] /\ path = -1 /\ names = <<>>

MCNext ==
  /\ UNCHANGED part
  /\ \/ part = "hart" /\ Next /\ UNCHANGED <<formatVars, stringVars, clockVars>>
     \/ part = "format" /\ P!Next /\ UNCHANGED <<vars, stringVars, clockVars>>
     \/ part = "strings" /\ S!Next /\ UNCHANGED <<vars, formatVars, clockVars>>
     \/ part = "clock" /\ C!Next /\ UNCHANGED <<vars, formatVars, stringVars>>

MCSpec == MCInit /\ [][MCNext]_<<part, vars, formatVars, stringVars, clockVars>>

-----------------------------------------------------------------------------
(* Properties, whose parts are stated and explained in the modules.        *)
(* KernelKept and EachItsMachine are those of Context.                     *)

\* The buffer that uart_puts() gets holds the text of the format; a text that
\* does not fit is refused before a character is written.
FormatRight == part = "format" => P!TextRight /\ P!InBuffer

\* memmove(), strncpy(), strcmp(), skepelem() and kernel_mktime() compute what
\* definitions without their loops and tables do.
LibraryRight ==
  /\ part = "strings" => S!MoveRight /\ S!CopyRight /\ S!CompareRight /\ S!WalkRight
  /\ part = "clock" => C!SecondsExact
=============================================================================
