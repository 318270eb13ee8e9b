------------------------------ MODULE CharString ------------------------------
(***************************************************************************)
(* class string of string.cc: characters on the heap and their number.  A  *)
(* step is one member function; the exceptions of operator[] and substr    *)
(* change nothing.                                                         *)
(***************************************************************************)
EXTENDS Naturals, Sequences, SequencesExt

CONSTANTS Strings,   \* the string variables of the program
          Buffers,   \* addresses new char[] returns
          Chars, Nul,
          MaxLen,    \* bound on the length of literals
          Null,      \* nullptr
          NoObject   \* a variable that does not exist now, and a buffer that is not allocated

StringAssumption ==
    /\ Nul \notin Chars /\ Null \notin Buffers /\ MaxLen \in Nat
    /\ NoObject \notin Buffers \cup {Null} /\ NoObject \notin Seq(Chars \cup {Nul})

VARIABLES data, str_len,  \* the members
          chars           \* chars[b]: what is in buffer b

vars == <<data, str_len, chars>>

Init ==
    /\ data = [s \in Strings |-> NoObject]
    /\ str_len = [s \in Strings |-> 0]
    /\ chars = [b \in Buffers |-> NoObject]

Exists(s) == data[s] # NoObject
Value(s) == IF data[s] = Null THEN <<>> ELSE SubSeq(chars[data[s]], 1, str_len[s])

\* delete[] of s's buffer, if it has one.
Deleted(s) == [b \in Buffers |-> IF b = data[s] THEN NoObject ELSE chars[b]]

\* s gets a buffer of its own with the given text, as long as memory lasts; free: the
\* buffers after deletions.
CreateAndCopy(s, text, free) ==
    LET b == CHOOSE c \in Buffers : free[c] = NoObject IN
    /\ \E c \in Buffers : free[c] = NoObject
    /\ data' = [data EXCEPT ![s] = b]
    /\ str_len' = [str_len EXCEPT ![s] = Len(text)]
    /\ chars' = [free EXCEPT ![b] = text]

\* string(const char *) reads up to the terminator.
Construct(s, text) == ~Exists(s) /\ CreateAndCopy(s, text, chars)

Copy(s, rhs) == ~Exists(s) /\ Exists(rhs) /\ CreateAndCopy(s, Value(rhs), chars)

Assign(s, rhs) ==
    /\ Exists(s) /\ Exists(rhs) /\ s # rhs
    /\ CreateAndCopy(s, Value(rhs), Deleted(s))

\* The pointer changes hands.
Stolen(s, rhs) == [data EXCEPT ![s] = data[rhs], ![rhs] = Null]

Move(s, rhs) ==
    /\ ~Exists(s) /\ Exists(rhs)
    /\ data' = Stolen(s, rhs)
    /\ str_len' = [str_len EXCEPT ![s] = str_len[rhs], ![rhs] = 0]
    /\ UNCHANGED chars

\* operator=(string&&), with s # rhs asserted, takes the buffer but not str_len.
MoveAssign(s, rhs) ==
    /\ Exists(s) /\ Exists(rhs) /\ s # rhs
    /\ data' = Stolen(s, rhs)
    /\ str_len' = [str_len EXCEPT ![s] = IF data[s] = Null THEN @ ELSE 0, ![rhs] = 0]
    /\ chars' = Deleted(s)

Destroy(s) ==
    /\ Exists(s)
    /\ data' = [data EXCEPT ![s] = NoObject]
    /\ str_len' = [str_len EXCEPT ![s] = 0]
    /\ chars' = Deleted(s)

\* operator[](i) = c
Set(s, i, c) ==
    /\ Exists(s) /\ i \in 1 .. str_len[s]
    /\ chars' = [chars EXCEPT ![data[s]][i] = c]
    /\ UNCHANGED <<data, str_len>>

\* s is initialized with rhs.substr(idx, len), indices from 1.  The strlen of the
\* private constructor stops at the first Nul, which the assertion on it wants beyond the
\* part taken, or else somewhere beyond the buffer.
Substr(s, rhs, idx, len) ==
    LET last == IF idx + len - 1 <= str_len[rhs] THEN idx + len - 1 ELSE str_len[rhs]
        part == IF len = 0 THEN <<>> ELSE SubSeq(Value(rhs), idx, last)
    IN  /\ ~Exists(s) /\ Exists(rhs) /\ idx \in 1 .. str_len[rhs]
        /\ Nul \notin ToSet(part)
        /\ CreateAndCopy(s, part, chars)

Next ==
    \/ \E s \in Strings : Destroy(s) \/ \E text \in BoundedSeq(Chars, MaxLen) : Construct(s, text)
    \/ \E s, rhs \in Strings : Copy(s, rhs) \/ Assign(s, rhs) \/ Move(s, rhs) \/ MoveAssign(s, rhs)
    \/ \E s \in Strings, i \in 1 .. MaxLen, c \in Chars \cup {Nul} : Set(s, i, c)
    \/ \E s, rhs \in Strings, idx \in 1 .. MaxLen, len \in 0 .. MaxLen : Substr(s, rhs, idx, len)

Spec == Init /\ [][Next]_vars
-----------------------------------------------------------------------------
(***************************************************************************)
(* The members refer to buffers, and no string is longer than a literal.   *)
(***************************************************************************)
TypeOK ==
    /\ data \in [Strings -> Buffers \cup {Null, NoObject}]
    /\ str_len \in [Strings -> 0 .. MaxLen]
    /\ \A b \in Buffers : chars[b] = NoObject \/ chars[b] \in Seq(Chars \cup {Nul})

(***************************************************************************)
(* A buffer exists as long as one string has it, and never two: nothing is *)
(* leaked or deleted twice.  No string is longer than its buffer.          *)
(***************************************************************************)
OwnedOnce ==
    /\ \A b \in Buffers :
          Cardinality({s \in Strings : data[s] = b}) = IF chars[b] = NoObject THEN 0 ELSE 1
    /\ \A s \in Strings : str_len[s] > 0 => str_len[s] <= Len(chars[data[s]])
=============================================================================
