------------------------------ MODULE Strings -------------------------------
(***************************************************************************)
(* The string functions of string/string.c over a memory of characters,    *)
(* where source and destination may overlap, and skepelem() of fs/ops.c,   *)
(* which takes a path apart; each against a definition without loops.      *)
(* Characters are numbers: NUL, '/', '.' and letters.                      *)
(***************************************************************************)
EXTENDS Integers, Sequences, SequencesExt

CONSTANTS
  N,               \* bound: characters of memory
  PATH_LONG_MAX,   \* characters of a name buffer
  Letters          \* letters of paths

NUL == 0
Dot == 46
Slash == 47
Chars == {NUL, Dot, Slash} \cup Letters

VARIABLES
  mem,     \* the memory, ending in NUL
  last,    \* the last call: [op, old, d, s, n], with the memory before it
  path,    \* skepelem's path, -1 when it returned NULL
  names    \* the names it took off

vars == <<mem, last, path, names>>
Cells == 0 .. N - 1

Init ==
  /\ mem \in {m \in [Cells -> Chars] : m[N - 1] = NUL}
  /\ last = [op |-> "none", old |-> mem, d |-> 0, s |-> 0, n |-> 0]
  /\ path = 0
  /\ names = <<>>

-----------------------------------------------------------------------------
(* The loops: m after n steps, step k having set cell d[k] from cell s[k]. *)

Looped(m, n, d, s) ==
  LET f[k \in 0 .. n] ==
        IF k = 0 THEN m
        ELSE LET p == f[k - 1] IN [p EXCEPT ![d[k]] = p[s[k]]]
  IN  f[n]

\* The n cells from a on, in the order in which a loop visits them.
Upwards(a, n) == [k \in 1 .. n |-> a + k - 1]
Downwards(a, n) == [k \in 1 .. n |-> a + n - k]

\* Mutant: always from the first character on.
memmove_forward(m, d, s, n) ==
  Looped(m, n, Upwards(d, n), Upwards(s, n))

memmove(m, d, s, n) ==
  IF s < d /\ s + n > d
  THEN Looped(m, n, Downwards(d, n), Downwards(s, n))
  ELSE Looped(m, n, Upwards(d, n), Upwards(s, n))

strlen(m, s) == CHOOSE k \in 0 .. N : m[s + k] = NUL /\ \A j \in 0 .. k - 1 : m[s + j] # NUL

strncpy(m, d, s, n) ==
  LET f[k \in 0 .. n] ==
        IF k = 0 THEN [mem |-> m, end |-> FALSE]
        ELSE LET p == f[k - 1]
                 c == IF p.end THEN NUL ELSE p.mem[s + k - 1]
             IN  [mem |-> [p.mem EXCEPT ![d + k - 1] = c], end |-> c = NUL]
  IN  f[n].mem

strcmp(m, s, t) ==
  IF strlen(m, s) # strlen(m, t) THEN 1
  ELSE IF \E k \in 0 .. strlen(m, s) - 1 : m[s + k] # m[t + k] THEN 1 ELSE 0

\* The first cell from a on with a character of T, or where the string ends.
Scan(a, T) ==
  CHOOSE b \in a .. N - 1 :
    /\ mem[b] \in T \cup {NUL}
    /\ \A c \in a .. b - 1 : mem[c] \notin T \cup {NUL}

\* skepelem: [rest, name], rest = -1 for NULL.
skepelem(p) ==
  LET s == Scan(p, Chars \ {Slash, Dot})
      e == Scan(s, {Slash})
      len == IF e - s >= PATH_LONG_MAX THEN PATH_LONG_MAX ELSE e - s
  IN  IF mem[s] = NUL THEN [rest |-> -1, name |-> <<>>]
      ELSE [rest |-> Scan(e, Chars \ {Slash}),
            name |-> [k \in 1 .. len |-> mem[s + k - 1]]]

-----------------------------------------------------------------------------
Fits(d, s, n) == d + n <= N /\ s + n <= N

Called(op, m, d, s, n) ==
  /\ last.op = "none" /\ path = 0
  /\ last' = [op |-> op, old |-> mem, d |-> d, s |-> s, n |-> n]
  /\ mem' = m
  /\ UNCHANGED <<path, names>>

Move == \E d, s, n \in Cells :
          Fits(d, s, n) /\ Called("memmove", memmove(mem, d, s, n), d, s, n)

Copy == \E d, s, n \in Cells :
          /\ Fits(d, s, n)
          /\ s + n <= d \/ d + n <= s
          /\ Called("strncpy", strncpy(mem, d, s, n), d, s, n)

Take ==
  /\ last.op = "none"
  /\ path # -1
  /\ path' = skepelem(path).rest
  /\ names' = IF path' = -1 THEN names ELSE Append(names, skepelem(path).name)
  /\ UNCHANGED <<mem, last>>

Next == Move \/ Copy \/ Take

Spec == Init /\ [][Next]_vars

-----------------------------------------------------------------------------
(* Properties. *)

\* memmove() copies n characters to d as they were before the call, even when
\* source and destination overlap, and nothing else.
MoveRight ==
  last.op = "memmove" =>
    \A a \in Cells :
      mem[a] = IF a \in last.d .. last.d + last.n - 1
               THEN last.old[last.s + a - last.d] ELSE last.old[a]

\* strncpy() copies the string, at most n characters of it, and fills what is
\* left of the n with NUL, the way DIR_Name fields need it.
CopyRight ==
  last.op = "strncpy" =>
    \A a \in Cells :
      LET k == a - last.d
      IN  mem[a] = IF k \notin 0 .. last.n - 1 THEN last.old[a]
                   ELSE IF \E j \in 0 .. k : last.old[last.s + j] = NUL THEN NUL
                   ELSE last.old[last.s + k]

\* strcmp() returns 0 for equal strings only.
CompareRight ==
  last.op = "none" /\ path = 0 => \A s, t \in Cells :
    strcmp(mem, s, t) = 0 <=>
      SubSeq([k \in 1 .. N |-> mem[k - 1]], s + 1, s + strlen(mem, s))
        = SubSeq([k \in 1 .. N |-> mem[k - 1]], t + 1, t + strlen(mem, t))

\* The path as a sequence, cut at its slashes.
PathSeq == [k \in 1 .. strlen(mem, 0) |-> mem[k - 1]]
Trimmed(s) == IF \E k \in DOMAIN s : s[k] # Dot
              THEN SubSeq(s, CHOOSE k \in DOMAIN s : s[k] # Dot /\ \A j \in 1 .. k - 1 : s[j] = Dot, Len(s))
              ELSE <<>>
Cuts == {0} \cup {k \in DOMAIN PathSeq : PathSeq[k] = Slash} \cup {Len(PathSeq) + 1}
Elements ==
  LET starts == SetToSortSeq(Cuts \ {Len(PathSeq) + 1}, <)
      after(k) == CHOOSE c \in Cuts : c > k /\ \A b \in Cuts : b > k => c <= b
      pieces == [i \in DOMAIN starts |-> SubSeq(PathSeq, starts[i] + 1, after(starts[i]) - 1)]
  IN  SelectSeq([i \in DOMAIN pieces |-> Trimmed(pieces[i])], LAMBDA e : e # <<>>)

\* skepelem() called until it returns NULL takes the elements of the path off
\* one by one, without leading dots, as long as they fit the name buffer.
WalkRight ==
  path = -1 /\ (\A i \in DOMAIN Elements : Len(Elements[i]) < PATH_LONG_MAX) => names = Elements

\* ops.c:173: skepelem("..", name) is "", not NULL.
DotDotIsEmpty ==
  last.op = "none" /\ PathSeq = <<Dot, Dot>> => path # -1 \/ names # <<>>
=============================================================================
