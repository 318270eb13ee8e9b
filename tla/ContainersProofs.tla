--------------------------- MODULE ContainersProofs ---------------------------
(***************************************************************************)
(* Proofs about the containers and owning classes of Routines, for any     *)
(* sizes, variables and elements.                                          *)
(***************************************************************************)
EXTENDS RoutinesProofs

\* A step of the program is, for each container, one of its own or none.
LEMMA ContainerSteps ==
    ASSUME [Next]_allVars
    PROVE  /\ Heap!Next \/ UNCHANGED heapVars
           /\ List!Next \/ UNCHANGED listVars
           /\ Table!Next \/ UNCHANGED tableVars
           /\ Vector!Next \/ UNCHANGED vectorVars
           /\ Text!Next \/ UNCHANGED textVars
           /\ Unique!Next \/ UNCHANGED uniqueVars
           /\ \/ routine = "ro5_copies" /\ Five!CopyNext
              \/ routine # "ro5_copies" /\ Five!Next
              \/ UNCHANGED fiveVars
           /\ Sort!Next \/ UNCHANGED sortVars
<1>1. CASE UNCHANGED containerVars
  BY <1>1 DEF containerVars
<1>2. CASE ContainersStep
  <2>1. CASE HeapStep
    BY <2>1 DEF HeapStep
  <2>2. CASE ListStep
    BY <2>2 DEF ListStep
  <2>3. CASE TableStep
    BY <2>3 DEF TableStep
  <2>4. CASE VectorStep
    BY <2>4 DEF VectorStep
  <2>5. CASE TextStep
    BY <2>5 DEF TextStep
  <2>6. CASE UniqueStep
    BY <2>6 DEF UniqueStep
  <2>7. CASE FiveStep
    BY <2>7 DEF FiveStep
  <2>8. CASE SortStep
    BY <2>8 DEF SortStep
  <2> QED
    BY <1>2, <2>1, <2>2, <2>3, <2>4, <2>5, <2>6, <2>7, <2>8 DEF ContainersStep, ContainersNext
<1> QED
  BY <1>1, <1>2
  DEF Next, allVars, MemoryAllocatorStep, OPoolStep, ObjectPoolStep, CowStep, SharedPointerStep

\* A set with one element, and one with none.
LEMMA OneOrNone ==
    /\ \A A, o : o \in A /\ (\A p, q \in A : p = q) => Cardinality(A) = 1
    /\ \A A : (\A p \in A : FALSE) => Cardinality(A) = 0
<1>1. ASSUME NEW A, NEW o \in A, \A p, q \in A : p = q PROVE Cardinality(A) = 1
  <2>1. A = {o}
    BY <1>1
  <2> QED
    BY <2>1, FS_Singleton
<1>2. ASSUME NEW A, \A p \in A : FALSE PROVE Cardinality(A) = 0
  <2>1. A = {}
    BY <1>2
  <2> QED
    BY <2>1, FS_EmptySet
<1> QED
  BY <1>1, <1>2
-----------------------------------------------------------------------------
(* UniquePointer *)

(***************************************************************************)
(* A unique_pointer has an object that exists, or none, and shares it with *)
(* no other.                                                               *)
(***************************************************************************)
UniqueInv ==
    /\ u_data \in [Pointers -> Blocks \cup {Null, NoObject}] /\ u_alive \subseteq Blocks
    /\ \A p \in Pointers : u_data[p] \in Blocks => u_data[p] \in u_alive
    /\ \A p, q \in Pointers : u_data[p] = u_data[q] /\ u_data[p] \in Blocks => p = q

\* No pointer exists at first.
LEMMA InitUnique == Init => UniqueInv
  BY SharedConstants DEF Init, ContainersInit, Unique!Init, UniqueInv

\* A unique_pointer gets what nobody has, or what it takes from another.
LEMMA NextUnique == UniqueInv /\ [Next]_allVars => UniqueInv'
<1> SUFFICES ASSUME UniqueInv, [Next]_allVars PROVE UniqueInv'
  OBVIOUS
<1> USE SharedConstants DEF UniqueInv
<1>1. CASE UNCHANGED uniqueVars
  BY <1>1 DEF uniqueVars
<1>2. CASE \E p \in Pointers : Unique!Construct(p)
  BY <1>2 DEF Unique!Construct, Unique!Exists
<1>3. CASE \E p \in Pointers : Unique!Leave(p)
  BY <1>3 DEF Unique!Leave, Unique!Exists
<1>4. ASSUME NEW p \in Pointers, NEW q \in Pointers, Unique!Move(p, q) \/ Unique!MoveAssign(p, q)
      PROVE  UniqueInv'
  <2>1. p # q /\ u_alive' = u_alive /\ u_data' = [u_data EXCEPT ![p] = u_data[q], ![q] = Null]
    BY <1>4 DEF Unique!Move, Unique!MoveAssign, Unique!Moved, Unique!Exists
  <2> QED
    BY <2>1
<1> QED
  BY <1>1, <1>2, <1>3, <1>4, ContainerSteps DEF Unique!Next
-----------------------------------------------------------------------------
(* RuleOfFive *)

\* What the proofs use of the constants.
LEMMA FiveConstants ==
    MaxFd \in Nat /\ Null \notin Blocks /\ NoObject \notin Blocks \cup {Null}
  BY RoutinesAssumption DEF ContainersAssumption, Five!RuleOfFiveAssumption

FiveTyped ==
    /\ r_data \in [Objects -> Blocks \cup {Null, NoObject}]
    /\ sockfd \in [Objects -> -1 .. MaxFd]
    /\ r_alive \subseteq Blocks /\ open \subseteq 0 .. MaxFd

(***************************************************************************)
(* The blocks of the objects are the blocks that exist, each in one object.*)
(***************************************************************************)
FiveOwned ==
    /\ \A o \in Objects : r_data[o] \in Blocks => r_data[o] \in r_alive
    /\ \A o, p \in Objects : r_data[o] = r_data[p] /\ r_data[o] \in Blocks => o = p
    /\ \A b \in r_alive : \E o \in Objects : r_data[o] = b

(***************************************************************************)
(* While objects are only copied, their sockets are what is open apart     *)
(* from the standard input, each in one object.                            *)
(***************************************************************************)
FiveSockets ==
    /\ 0 \in open
    /\ \A o \in Objects : r_data[o] # Null
    /\ \A o \in Objects : IF r_data[o] = NoObject THEN sockfd[o] = -1 ELSE sockfd[o] \in open \ {0}
    /\ \A o, p \in Objects : sockfd[o] = sockfd[p] /\ sockfd[o] # -1 => o = p
    /\ \A fd \in open \ {0} : \E o \in Objects : sockfd[o] = fd

FiveInv == FiveTyped /\ FiveOwned /\ (routine = "ro5_copies" => FiveSockets)

\* No object exists at first.
LEMMA InitFive == Init => FiveInv
  BY FiveConstants
  DEF Init, ContainersInit, Five!Init, FiveInv, FiveTyped, FiveOwned, FiveSockets

\* socket() returns a descriptor that is not open.
LEMMA SocketIsNew ==
    ASSUME FiveTyped, open # 0 .. MaxFd
    PROVE  Five!Socket \in (0 .. MaxFd) \ open
<1>1. (0 .. MaxFd) \ open \subseteq Nat /\ (0 .. MaxFd) \ open # {}
  <2>1. (0 .. MaxFd) \ open \subseteq Nat
    BY FiveConstants
  <2>2. \A A, B : A \subseteq B /\ A # B => B \ A # {}
    OBVIOUS
  <2> QED
    BY <2>1, <2>2 DEF FiveTyped
<1>2. PICK m \in (0 .. MaxFd) \ open : \A n \in (0 .. MaxFd) \ open : m <= n
  BY <1>1, LeastNat
<1> QED
  BY <1>2 DEF Five!Socket, Five!Min

\* A constructor gets a block and a socket that nobody has, or nothing.
LEMMA FiveConstructs ==
    ASSUME FiveInv, NEW o \in Objects, NEW fails \in BOOLEAN, Five!Construct(o, fails),
           routine' = routine
    PROVE  FiveInv'
<1> USE FiveConstants DEF FiveInv
<1>1. CASE fails
  <2>1. r_alive' = r_alive /\ UNCHANGED <<r_data, sockfd, open>>
    BY <1>1 DEF Five!Construct, Five!AfterFailure
  <2> QED
    BY <2>1 DEF FiveTyped, FiveOwned, FiveSockets
<1>2. CASE ~fails
  <2>1. PICK b \in Blocks \ r_alive : /\ r_data' = [r_data EXCEPT ![o] = b]
                                      /\ r_alive' = r_alive \cup {b}
                                      /\ sockfd' = [sockfd EXCEPT ![o] = Five!Socket]
                                      /\ open' = open \cup {Five!Socket}
    BY <1>2 DEF Five!Construct
  <2>2. PICK fd \in (0 .. MaxFd) \ open : fd = Five!Socket
    BY <1>2, SocketIsNew DEF Five!Construct
  <2>3. r_data[o] = NoObject
    BY DEF Five!Construct, Five!Exists
  <2>4. FiveTyped'
    BY <2>1, <2>2 DEF FiveTyped
  <2>5. FiveOwned'
    BY <2>1, <2>3 DEF FiveTyped, FiveOwned
  <2>6. ASSUME routine = "ro5_copies" PROVE FiveSockets'
    <3>1. FiveSockets /\ 0 # fd /\ fd # -1
      BY <2>2, <2>6 DEF FiveSockets
    <3>2. \A p \in Objects : p # o => r_data'[p] = r_data[p] /\ sockfd'[p] = sockfd[p]
      BY <2>1 DEF FiveTyped
    <3>3. r_data'[o] \in Blocks /\ sockfd'[o] = fd /\ open' = open \cup {fd}
      BY <2>1, <2>2 DEF FiveTyped
    <3>4. sockfd[o] = -1
      BY <2>3, <3>1 DEF FiveSockets
    <3>5. \A p \in Objects : sockfd[p] # fd
      BY <2>2, <3>1 DEF FiveSockets
    <3>6. -1 \notin open
      BY DEF FiveTyped
    <3> QED
      BY <3>1, <3>2, <3>3, <3>4, <3>5, <3>6 DEF FiveSockets
  <2> QED
    BY <2>4, <2>5, <2>6
<1> QED
  BY <1>1, <1>2

\* A moved object takes the block along.
LEMMA FiveMoves ==
    ASSUME FiveInv, NEW o \in Objects, NEW p \in Objects, Five!Move(o, p),
           routine' = routine, routine # "ro5_copies"
    PROVE  FiveInv'
<1>1. /\ o # p /\ r_data[o] = NoObject
      /\ r_data' = [r_data EXCEPT ![o] = r_data[p], ![p] = Null]
      /\ sockfd' = [sockfd EXCEPT ![o] = sockfd[p], ![p] = 0]
      /\ UNCHANGED <<r_alive, open>>
  BY DEF Five!Move, Five!Exists
<1>2. FiveTyped'
  BY <1>1, FiveConstants DEF FiveInv, FiveTyped
<1>3. FiveOwned'
  BY <1>1, FiveConstants DEF FiveInv, FiveTyped, FiveOwned
<1> QED
  BY <1>2, <1>3 DEF FiveInv

\* A destructor gives back the block and the socket.
LEMMA FiveDestroys ==
    ASSUME FiveInv, NEW o \in Objects, Five!Destroy(o), routine' = routine
    PROVE  FiveInv'
<1> USE FiveConstants DEF FiveInv
<1>1. /\ r_data[o] # NoObject
      /\ r_data' = [r_data EXCEPT ![o] = NoObject]
      /\ sockfd' = [sockfd EXCEPT ![o] = -1]
      /\ r_alive' = r_alive \ {r_data[o]}
      /\ open' = open \ {sockfd[o]}
  BY DEF Five!Destroy, Five!Exists
<1>2. FiveTyped'
  <2>1. /\ r_data' \in [Objects -> Blocks \cup {Null, NoObject}]
        /\ r_alive' \subseteq Blocks /\ open' \subseteq 0 .. MaxFd
    BY <1>1 DEF FiveTyped
  <2>2. -1 \in -1 .. MaxFd
    OBVIOUS
  <2>3. sockfd' \in [Objects -> -1 .. MaxFd]
    BY <1>1, <2>2 DEF FiveTyped
  <2> QED
    BY <2>1, <2>3 DEF FiveTyped
<1>3. FiveOwned'
  BY <1>1 DEF FiveTyped, FiveOwned
<1>4. ASSUME routine = "ro5_copies" PROVE FiveSockets'
  <2>1. FiveSockets /\ sockfd[o] # 0 /\ sockfd[o] # -1
    BY <1>1, <1>4 DEF FiveTyped, FiveSockets
  <2>2. \A p \in Objects : p # o => r_data'[p] = r_data[p] /\ sockfd'[p] = sockfd[p]
    BY <1>1 DEF FiveTyped
  <2>3. r_data'[o] = NoObject /\ sockfd'[o] = -1
    BY <1>1 DEF FiveTyped
  <2> QED
    BY <1>1, <2>1, <2>2, <2>3 DEF FiveSockets
<1> QED
  BY <1>2, <1>3, <1>4

\* Every step of the program keeps blocks and sockets in order.
LEMMA NextFive == FiveInv /\ [Next]_allVars => FiveInv'
<1> SUFFICES ASSUME FiveInv, [Next]_allVars PROVE FiveInv'
  OBVIOUS
<1>1. routine' = routine
  BY ComponentSteps
<1>2. CASE UNCHANGED fiveVars
  BY <1>1, <1>2 DEF fiveVars, FiveInv, FiveTyped, FiveOwned, FiveSockets
<1>3. CASE Five!CopyNext
  BY <1>1, <1>3, FiveConstructs, FiveDestroys DEF Five!CopyNext, Five!Copy
<1>4. CASE routine # "ro5_copies" /\ Five!Next
  BY <1>1, <1>3, <1>4, FiveMoves DEF Five!Next
<1> QED
  BY <1>2, <1>3, <1>4, ContainerSteps

\* What FiveInv says of each block, and of each descriptor.
LEMMA FiveOwnsOnce ==
    ASSUME FiveInv
    PROVE  Five!OwnedOnce /\ (routine = "ro5_copies" => Five!SocketsOwnedOnce)
<1> USE DEF FiveInv
<1>1. \A S : Five!Cardinality(S) = Cardinality(S)
  BY DEF Cardinality, Five!Cardinality
<1>2. ASSUME NEW b \in Blocks
      PROVE  Cardinality({o \in Objects : r_data[o] = b}) = IF b \in r_alive THEN 1 ELSE 0
  <2> DEFINE A == {o \in Objects : r_data[o] = b}
  <2>1. CASE b \in r_alive
    <3>1. (\E o : o \in A) /\ \A p, q \in A : p = q
      BY <2>1 DEF FiveOwned
    <3> HIDE DEF A
    <3> QED
      BY <2>1, <3>1, OneOrNone DEF A
  <2>2. CASE b \notin r_alive
    <3>1. \A p \in A : FALSE
      BY <2>2 DEF FiveOwned
    <3> HIDE DEF A
    <3> QED
      BY <2>2, <3>1, OneOrNone DEF A
  <2> QED
    BY <2>1, <2>2
<1>3. ASSUME routine = "ro5_copies", NEW fd \in 0 .. MaxFd
      PROVE  Cardinality({o \in Objects : sockfd[o] = fd}) = IF fd \in open \ {0} THEN 1 ELSE 0
  <2> DEFINE A == {o \in Objects : sockfd[o] = fd}
  <2>1. fd # -1
    OBVIOUS
  <2>2. CASE fd \in open \ {0}
    <3>1. (\E o : o \in A) /\ \A p, q \in A : p = q
      BY <1>3, <2>1, <2>2 DEF FiveSockets
    <3> HIDE DEF A
    <3> QED
      BY <2>2, <3>1, OneOrNone DEF A
  <2>3. CASE fd \notin open \ {0}
    <3>1. \A p \in A : FALSE
      BY <1>3, <2>1, <2>3 DEF FiveSockets
    <3> HIDE DEF A
    <3> QED
      BY <2>3, <3>1, OneOrNone DEF A
  <2> QED
    BY <2>2, <2>3
<1> QED
  BY <1>1, <1>2, <1>3 DEF Five!OwnedOnce, Five!SocketsOwnedOnce
-----------------------------------------------------------------------------
(* CharString *)

Texts == Seq(Contents \cup {Nul})

\* What the proofs use of the constants.
LEMMA TextConstants ==
    /\ Nul \notin Contents /\ Null \notin Blocks /\ MaxText \in Nat
    /\ NoObject \notin Blocks \cup {Null} /\ NoObject \notin Texts
  BY RoutinesAssumption DEF ContainersAssumption, Text!StringAssumption, Texts

TextTyped ==
    /\ t_data \in [Strings -> Blocks \cup {Null, NoObject}]
    /\ str_len \in [Strings -> 0 .. MaxText]
    /\ chars \in [Blocks -> Texts \cup {NoObject}]

(***************************************************************************)
(* A string has a buffer that exists and is long enough, or its length is  *)
(* 0; and the buffers of the strings are those that exist, each of one     *)
(* string.                                                                 *)
(***************************************************************************)
TextOwned ==
    /\ \A s \in Strings : IF t_data[s] \in Blocks
                          THEN chars[t_data[s]] # NoObject /\ str_len[s] <= Len(chars[t_data[s]])
                          ELSE str_len[s] = 0
    /\ \A s, q \in Strings : t_data[s] = t_data[q] /\ t_data[s] \in Blocks => s = q
    /\ \A b \in Blocks : chars[b] # NoObject => \E s \in Strings : t_data[s] = b

TextInv == TextTyped /\ TextOwned

\* No string exists at first.
LEMMA InitText == Init => TextInv
  BY TextConstants
  DEF Init, ContainersInit, Text!Init, TextInv, TextTyped, TextOwned

\* A text that a string holds, or a part of it, is no longer than a literal may be.
LEMMA TextValue ==
    ASSUME TextInv, NEW s \in Strings, NEW i \in Nat \ {0}, NEW j \in Nat, j <= str_len[s],
           Text!Exists(s)
    PROVE  /\ Text!Value(s) \in Texts /\ Len(Text!Value(s)) = str_len[s]
           /\ i <= j => /\ SubSeq(Text!Value(s), i, j) \in Texts
                        /\ Len(SubSeq(Text!Value(s), i, j)) <= MaxText
<1>1. str_len[s] \in 0 .. MaxText
  BY DEF TextInv, TextTyped
<1>2. Text!Value(s) \in Texts /\ Len(Text!Value(s)) = str_len[s]
  <2>1. CASE t_data[s] = Null
    <3>1. str_len[s] = 0
      BY <2>1, TextConstants DEF TextInv, TextOwned
    <3> QED
      BY <2>1, <3>1 DEF Text!Value, Texts
  <2>2. CASE t_data[s] # Null
    <3>1. t_data[s] \in Blocks
      BY <2>2 DEF TextInv, TextTyped, Text!Exists
    <3>2. PICK text \in Texts : text = chars[t_data[s]] /\ str_len[s] <= Len(text)
      BY <3>1 DEF TextInv, TextTyped, TextOwned
    <3>3. SubSeq(text, 1, str_len[s]) \in Texts /\ Len(SubSeq(text, 1, str_len[s])) = str_len[s]
      BY <1>1, <3>2, SubSeqProperties DEF Texts
    <3> QED
      BY <2>2, <3>2, <3>3 DEF Text!Value
  <2> QED
    BY <2>1, <2>2
<1>3. ASSUME i <= j
      PROVE  SubSeq(Text!Value(s), i, j) \in Texts /\ Len(SubSeq(Text!Value(s), i, j)) <= MaxText
  <2>1. PICK text \in Texts : text = Text!Value(s) /\ Len(text) = str_len[s]
    BY <1>2
  <2>2. SubSeq(text, i, j) \in Texts /\ Len(SubSeq(text, i, j)) = j - i + 1
    BY <1>1, <1>3, <2>1, SubSeqProperties DEF Texts
  <2>3. PICK n \in 0 .. MaxText : n = str_len[s]
    BY <1>1
  <2>4. j - i + 1 <= MaxText
    BY <2>3, TextConstants
  <2> QED
    BY <2>1, <2>2, <2>4
<1> QED
  BY <1>2, <1>3

\* A string that has no buffer gets one that nobody has.
LEMMA TextCopies ==
    ASSUME TextTyped, NEW s \in Strings, NEW text \in Texts, Len(text) <= MaxText,
           NEW left1 \in [Blocks -> Texts \cup {NoObject}],
           \A q \in Strings \ {s} : IF t_data[q] \in Blocks
                                    THEN left1[t_data[q]] # NoObject /\ str_len[q] <= Len(left1[t_data[q]])
                                    ELSE str_len[q] = 0,
           \A p, q \in Strings \ {s} : t_data[p] = t_data[q] /\ t_data[p] \in Blocks => p = q,
           \A b \in Blocks : left1[b] # NoObject => \E q \in Strings \ {s} : t_data[q] = b,
           Text!CreateAndCopy(s, text, left1)
    PROVE  TextInv'
<1>1. PICK b \in Blocks : left1[b] = NoObject /\ b = CHOOSE c \in Blocks : left1[c] = NoObject
  BY DEF Text!CreateAndCopy
<1>2. /\ t_data' = [t_data EXCEPT ![s] = b]
      /\ str_len' = [str_len EXCEPT ![s] = Len(text)]
      /\ chars' = [left1 EXCEPT ![b] = text]
  BY <1>1 DEF Text!CreateAndCopy
<1>3. Len(text) \in 0 .. MaxText /\ text # NoObject
  BY TextConstants DEF Texts
<1>4. TextTyped'
  BY <1>2, <1>3 DEF TextTyped
<1>5. /\ t_data'[s] = b /\ str_len'[s] = Len(text) /\ chars'[b] = text
      /\ \A q \in Strings \ {s} : t_data'[q] = t_data[q] /\ str_len'[q] = str_len[q]
      /\ \A c \in Blocks \ {b} : chars'[c] = left1[c]
  BY <1>2 DEF TextTyped
<1>6. \A q \in Strings \ {s} : t_data[q] # b
  BY <1>1
<1>7. TextOwned'
  BY <1>3, <1>5, <1>6 DEF TextOwned
<1> QED
  BY <1>4, <1>7 DEF TextInv

\* A new string is copied into a buffer of its own.
LEMMA TextConstructs ==
    ASSUME TextInv, NEW s \in Strings, NEW text \in Texts, Len(text) <= MaxText,
           ~Text!Exists(s), Text!CreateAndCopy(s, text, chars)
    PROVE  TextInv'
<1>1. t_data[s] = NoObject
  BY DEF Text!Exists
<1>2. \A b \in Blocks : chars[b] # NoObject => \E q \in Strings \ {s} : t_data[q] = b
  BY <1>1, TextConstants DEF TextInv, TextOwned
<1>3. \A q \in Strings \ {s} : IF t_data[q] \in Blocks
                               THEN chars[t_data[q]] # NoObject /\ str_len[q] <= Len(chars[t_data[q]])
                               ELSE str_len[q] = 0
  BY DEF TextInv, TextOwned
<1>4. \A p, q \in Strings \ {s} : t_data[p] = t_data[q] /\ t_data[p] \in Blocks => p = q
  BY DEF TextInv, TextOwned
<1> QED
  BY <1>2, <1>3, <1>4, TextCopies DEF TextInv, TextTyped

\* Without the buffer of one string, those of the others are as they were.
LEMMA TextDeleted ==
    ASSUME TextInv, NEW s \in Strings, NEW left1, left1 = Text!Deleted(s)
    PROVE  /\ left1 \in [Blocks -> Texts \cup {NoObject}]
           /\ \A q \in Strings \ {s} : t_data[q] \in Blocks => left1[t_data[q]] = chars[t_data[q]]
           /\ \A b \in Blocks : left1[b] # NoObject => \E q \in Strings \ {s} : t_data[q] = b
<1>1. /\ left1 \in [Blocks -> Texts \cup {NoObject}]
      /\ \A b \in Blocks : left1[b] = IF b = t_data[s] THEN NoObject ELSE chars[b]
  BY DEF Text!Deleted, TextInv, TextTyped
<1>2. \A q \in Strings \ {s} : t_data[q] \in Blocks => left1[t_data[q]] = chars[t_data[q]]
  BY <1>1 DEF TextInv, TextOwned
<1>3. \A b \in Blocks : left1[b] # NoObject => \E q \in Strings \ {s} : t_data[q] = b
  BY <1>1 DEF TextInv, TextOwned
<1> QED
  BY <1>1, <1>2, <1>3

\* A copy assignment deletes the string's buffer and gets it another.
LEMMA TextAssigns ==
    ASSUME TextInv, NEW s \in Strings, NEW rhs \in Strings, Text!Assign(s, rhs)
    PROVE  TextInv'
<1>1. PICK left1 : left1 = Text!Deleted(s)
  OBVIOUS
<1>2. /\ left1 \in [Blocks -> Texts \cup {NoObject}]
      /\ \A q \in Strings \ {s} : t_data[q] \in Blocks => left1[t_data[q]] = chars[t_data[q]]
      /\ \A b \in Blocks : left1[b] # NoObject => \E q \in Strings \ {s} : t_data[q] = b
  BY <1>1, TextDeleted
<1>3. PICK text : text = Text!Value(rhs)
  OBVIOUS
<1>4. text \in Texts /\ Len(text) <= MaxText
  <2>1. str_len[rhs] \in Nat /\ str_len[rhs] <= MaxText
    BY TextConstants DEF TextInv, TextTyped
  <2>2. text \in Texts /\ Len(text) = str_len[rhs]
    BY <1>3, <2>1, TextValue DEF Text!Assign
  <2> QED
    BY <2>1, <2>2
<1>5. Text!CreateAndCopy(s, text, left1)
  BY <1>1, <1>3 DEF Text!Assign
<1>6. \A q \in Strings \ {s} : IF t_data[q] \in Blocks
                               THEN left1[t_data[q]] # NoObject /\ str_len[q] <= Len(left1[t_data[q]])
                               ELSE str_len[q] = 0
  BY <1>2 DEF TextInv, TextOwned
<1>7. \A p, q \in Strings \ {s} : t_data[p] = t_data[q] /\ t_data[p] \in Blocks => p = q
  BY DEF TextInv, TextOwned
<1> QED
  BY <1>2, <1>4, <1>5, <1>6, <1>7, TextCopies DEF TextInv

\* Moves hand a buffer over.
LEMMA TextMoves ==
    ASSUME TextInv, NEW s \in Strings, NEW rhs \in Strings, Text!Move(s, rhs)
    PROVE  TextInv'
<1>1. /\ s # rhs /\ t_data[s] = NoObject /\ t_data[rhs] # NoObject /\ chars' = chars
      /\ t_data' = [t_data EXCEPT ![s] = t_data[rhs], ![rhs] = Null]
      /\ str_len' = [str_len EXCEPT ![s] = str_len[rhs], ![rhs] = 0]
  BY DEF Text!Move, Text!Exists, Text!Stolen
<1>2. TextTyped'
  BY <1>1, TextConstants DEF TextInv, TextTyped
<1>3. /\ t_data'[s] = t_data[rhs] /\ t_data'[rhs] = Null
      /\ str_len'[s] = str_len[rhs] /\ str_len'[rhs] = 0
      /\ \A q \in Strings : q # s /\ q # rhs => t_data'[q] = t_data[q] /\ str_len'[q] = str_len[q]
  BY <1>1 DEF TextInv, TextTyped
<1>4. TextOwned'
  <2>1. ASSUME NEW q \in Strings
        PROVE  IF t_data'[q] \in Blocks
               THEN chars'[t_data'[q]] # NoObject /\ str_len'[q] <= Len(chars'[t_data'[q]])
               ELSE str_len'[q] = 0
    <3>1. CASE q = s
      BY <3>1, <1>1, <1>3, TextConstants DEF TextInv, TextOwned, TextTyped
    <3>2. CASE q = rhs
      BY <3>2, <1>1, <1>3, TextConstants DEF TextInv, TextOwned
    <3>3. CASE q # s /\ q # rhs
      BY <3>3, <1>1, <1>3, TextConstants DEF TextInv, TextOwned
    <3> QED
      BY <3>1, <3>2, <3>3
  <2>2. ASSUME NEW p \in Strings, NEW q \in Strings, t_data'[p] = t_data'[q], t_data'[p] \in Blocks
        PROVE  p = q
    <3>1. p # rhs /\ q # rhs
      BY <2>2, <1>3, TextConstants
    <3>2. PICK p0 \in Strings, q0 \in Strings : /\ p0 = IF p = s THEN rhs ELSE p
                                                /\ q0 = IF q = s THEN rhs ELSE q
      OBVIOUS
    <3>3. t_data'[p] = t_data[p0] /\ t_data'[q] = t_data[q0]
      BY <3>1, <3>2, <1>3
    <3>4. p0 = q0
      BY <2>2, <3>3 DEF TextInv, TextOwned
    <3> QED
      BY <3>1, <3>2, <3>4
  <2>3. ASSUME NEW b \in Blocks, chars'[b] # NoObject
        PROVE  \E q \in Strings : t_data'[q] = b
    <3>1. PICK q \in Strings : t_data[q] = b
      BY <2>3, <1>1, <1>3, TextConstants DEF TextInv, TextOwned
    <3>2. CASE q = rhs
      BY <3>1, <3>2, <1>1, <1>3, TextConstants
    <3>3. CASE q # rhs
      BY <3>1, <3>3, <1>1, <1>3, TextConstants
    <3> QED
      BY <3>2, <3>3
  <2> QED
    BY <2>1, <2>2, <2>3 DEF TextOwned
<1> QED
  BY <1>2, <1>4 DEF TextInv

\* A move assignment deletes the string's buffer before it takes the other's.
LEMMA TextMoveAssigns ==
    ASSUME TextInv, NEW s \in Strings, NEW rhs \in Strings, Text!MoveAssign(s, rhs)
    PROVE  TextInv'
<1>1. /\ s # rhs /\ t_data[rhs] # NoObject /\ chars' = Text!Deleted(s)
      /\ t_data' = [t_data EXCEPT ![s] = t_data[rhs], ![rhs] = Null]
      /\ str_len' = [str_len EXCEPT ![s] = IF t_data[s] = Null THEN @ ELSE 0, ![rhs] = 0]
  BY DEF Text!MoveAssign, Text!Exists, Text!Stolen
<1>2. t_data[s] = Null => str_len[s] = 0
  BY TextConstants DEF TextInv, TextOwned
<1>3. /\ t_data'[s] = t_data[rhs] /\ t_data'[rhs] = Null
      /\ str_len'[s] = 0 /\ str_len'[rhs] = 0
      /\ \A q \in Strings : q # s /\ q # rhs => t_data'[q] = t_data[q] /\ str_len'[q] = str_len[q]
  BY <1>1, <1>2 DEF TextInv, TextTyped
<1>4. /\ chars' \in [Blocks -> Texts \cup {NoObject}]
      /\ \A q \in Strings \ {s} : t_data[q] \in Blocks => chars'[t_data[q]] = chars[t_data[q]]
      /\ \A b \in Blocks : chars'[b] # NoObject => \E q \in Strings \ {s} : t_data[q] = b
  BY <1>1, TextDeleted
<1>5. TextTyped'
  BY <1>1, <1>4, TextConstants DEF TextInv, TextTyped
<1>6. \A b \in Texts : 0 <= Len(b)
  BY DEF Texts
<1>7. TextOwned'
  <2>1. ASSUME NEW q \in Strings
        PROVE  IF t_data'[q] \in Blocks
               THEN chars'[t_data'[q]] # NoObject /\ str_len'[q] <= Len(chars'[t_data'[q]])
               ELSE str_len'[q] = 0
    <3>1. CASE q = s
      BY <3>1, <1>1, <1>3, <1>4, <1>6, TextConstants DEF TextInv, TextOwned, TextTyped
    <3>2. CASE q = rhs
      BY <3>2, <1>1, <1>3, <1>4, TextConstants DEF TextInv, TextOwned
    <3>3. CASE q # s /\ q # rhs
      <4>1. t_data'[q] = t_data[q] /\ str_len'[q] = str_len[q]
        BY <3>3, <1>3
      <4>2. t_data[q] \in Blocks => chars'[t_data[q]] = chars[t_data[q]]
        BY <3>3, <1>4
      <4> QED
        BY <4>1, <4>2 DEF TextInv, TextOwned
    <3> QED
      BY <3>1, <3>2, <3>3
  <2>2. ASSUME NEW p \in Strings, NEW q \in Strings, t_data'[p] = t_data'[q], t_data'[p] \in Blocks
        PROVE  p = q
    <3>1. p # rhs /\ q # rhs
      BY <2>2, <1>3, TextConstants
    <3>2. PICK p0 \in Strings, q0 \in Strings : /\ p0 = IF p = s THEN rhs ELSE p
                                                /\ q0 = IF q = s THEN rhs ELSE q
      OBVIOUS
    <3>3. t_data'[p] = t_data[p0] /\ t_data'[q] = t_data[q0]
      BY <3>1, <3>2, <1>3
    <3>4. p0 = q0
      BY <2>2, <3>3 DEF TextInv, TextOwned
    <3> QED
      BY <3>1, <3>2, <3>4
  <2>3. ASSUME NEW b \in Blocks, chars'[b] # NoObject
        PROVE  \E q \in Strings : t_data'[q] = b
    <3>1. PICK q \in Strings : t_data[q] = b /\ q # s
      BY <2>3, <1>1, <1>3, <1>4, TextConstants DEF TextInv, TextOwned
    <3>2. CASE q = rhs
      BY <3>1, <3>2, <1>1, <1>3, <1>4, TextConstants
    <3>3. CASE q # rhs
      BY <3>1, <3>3, <1>1, <1>3, <1>4, TextConstants
    <3> QED
      BY <3>2, <3>3
  <2> QED
    BY <2>1, <2>2, <2>3 DEF TextOwned
<1> QED
  BY <1>5, <1>7 DEF TextInv

\* The destructor deletes the buffer.
LEMMA TextDestroys ==
    ASSUME TextInv, NEW s \in Strings, Text!Destroy(s)
    PROVE  TextInv'
<1>1. /\ chars' = Text!Deleted(s)
      /\ t_data' = [t_data EXCEPT ![s] = NoObject] /\ str_len' = [str_len EXCEPT ![s] = 0]
  BY DEF Text!Destroy
<1>2. /\ chars' \in [Blocks -> Texts \cup {NoObject}]
      /\ \A q \in Strings \ {s} : t_data[q] \in Blocks => chars'[t_data[q]] = chars[t_data[q]]
      /\ \A b \in Blocks : chars'[b] # NoObject => \E q \in Strings \ {s} : t_data[q] = b
  BY <1>1, TextDeleted
<1>3. TextTyped'
  BY <1>1, <1>2, TextConstants DEF TextInv, TextTyped
<1>4. /\ t_data'[s] = NoObject /\ str_len'[s] = 0
      /\ \A q \in Strings \ {s} : t_data'[q] = t_data[q] /\ str_len'[q] = str_len[q]
  BY <1>1 DEF TextInv, TextTyped
<1>5. TextOwned'
  BY <1>1, <1>2, <1>4, TextConstants DEF TextInv, TextOwned
<1> QED
  BY <1>3, <1>5 DEF TextInv

\* operator[] writes within the string.
LEMMA TextSets ==
    ASSUME TextInv, NEW s \in Strings, NEW i, NEW c \in Contents \cup {Nul}, Text!Set(s, i, c)
    PROVE  TextInv'
<1>1. PICK b : b = t_data[s]
  OBVIOUS
<1>2. /\ i \in 1 .. str_len[s] /\ t_data[s] # NoObject
      /\ chars' = [chars EXCEPT ![b][i] = c] /\ t_data' = t_data /\ str_len' = str_len
  BY <1>1 DEF Text!Set, Text!Exists
<1>3. b \in Blocks /\ chars[b] \in Texts /\ str_len[s] <= Len(chars[b])
  BY <1>1, <1>2 DEF TextInv, TextTyped, TextOwned
<1>4. PICK text \in Texts, k \in Nat : text = chars[b] /\ k = str_len[s] /\ k <= Len(text)
  BY <1>3 DEF TextInv, TextTyped
<1>5. PICK t : t = [text EXCEPT ![i] = c]
  OBVIOUS
<1>6. t \in Texts /\ Len(t) = Len(text)
  BY <1>2, <1>4, <1>5, ExceptSeq DEF Texts
<1>7. chars' \in [Blocks -> Texts \cup {NoObject}] /\ chars'[b] = t
      /\ \A d \in Blocks : d # b => chars'[d] = chars[d]
  BY <1>2, <1>3, <1>4, <1>5, <1>6 DEF TextInv, TextTyped
<1>8. TextTyped'
  BY <1>2, <1>7 DEF TextInv, TextTyped
<1>9. \A d \in Blocks : /\ chars'[d] = NoObject <=> chars[d] = NoObject
                        /\ Len(chars'[d]) = Len(chars[d])
  BY <1>3, <1>4, <1>6, <1>7, TextConstants
<1>10. TextOwned'
  BY <1>2, <1>9 DEF TextInv, TextOwned
<1> QED
  BY <1>8, <1>10 DEF TextInv

\* substr copies a part of a string.
LEMMA TextParts ==
    ASSUME TextInv, NEW s \in Strings, NEW rhs \in Strings, NEW idx \in 1 .. MaxText,
           NEW n \in 0 .. MaxText, Text!Substr(s, rhs, idx, n)
    PROVE  TextInv'
<1>1. PICK k \in 0 .. MaxText : k = str_len[rhs]
  BY DEF TextInv, TextTyped
<1>2. PICK last1 \in Nat : last1 = IF idx + n - 1 <= k THEN idx + n - 1 ELSE k
  BY TextConstants
<1>3. PICK text : text = IF n = 0 THEN <<>> ELSE SubSeq(Text!Value(rhs), idx, last1)
  OBVIOUS
<1>4. ~Text!Exists(s) /\ Text!Exists(rhs) /\ idx \in 1 .. k /\ Text!CreateAndCopy(s, text, chars)
  BY <1>1, <1>2, <1>3 DEF Text!Substr
<1>5. text \in Texts /\ Len(text) <= MaxText
  <2>1. CASE n = 0
    BY <1>3, <2>1, TextConstants DEF Texts
  <2>2. CASE n # 0
    <3>1. idx <= last1 /\ last1 <= str_len[rhs] /\ idx \in Nat \ {0}
      BY <1>1, <1>2, <1>4, <2>2
    <3> QED
      BY <1>3, <1>4, <2>2, <3>1, TextValue
  <2> QED
    BY <2>1, <2>2
<1> QED
  BY <1>4, <1>5, TextConstructs

\* Every step of the program keeps strings and buffers in order.
LEMMA NextText == TextInv /\ [Next]_allVars => TextInv'
<1> SUFFICES ASSUME TextInv, [Next]_allVars PROVE TextInv'
  OBVIOUS
<1>1. CASE UNCHANGED textVars
  BY <1>1 DEF textVars, TextInv, TextTyped, TextOwned
<1>2. ASSUME NEW s \in Strings, NEW text \in Text!BoundedSeq(Contents, MaxText),
             Text!Construct(s, text)
      PROVE  TextInv'
  <2>1. PICK m \in 0 .. MaxText : text \in [1 .. m -> Contents]
    BY DEF Text!BoundedSeq, Text!SeqOf
  <2>2. text \in Texts /\ Len(text) = m
    BY <2>1 DEF Texts
  <2> QED
    BY <1>2, <2>2, TextConstructs DEF Text!Construct
<1>3. ASSUME NEW s \in Strings, NEW rhs \in Strings, Text!Copy(s, rhs)
      PROVE  TextInv'
  <2>1. str_len[rhs] \in Nat /\ str_len[rhs] <= MaxText
    BY TextConstants DEF TextInv, TextTyped
  <2>2. PICK text \in Texts : text = Text!Value(rhs) /\ Len(text) = str_len[rhs]
    BY <1>3, <2>1, TextValue DEF Text!Copy
  <2> QED
    BY <1>3, <2>1, <2>2, TextConstructs DEF Text!Copy
<1>4. CASE Text!Next
  BY <1>2, <1>3, <1>4, TextDestroys, TextAssigns, TextMoves, TextMoveAssigns, TextSets, TextParts
  DEF Text!Next
<1> QED
  BY <1>1, <1>4, ContainerSteps

\* What TextInv says of each buffer.
LEMMA TextOwnsOnce == TextInv => Text!OwnedOnce
<1> SUFFICES ASSUME TextInv PROVE Text!OwnedOnce
  OBVIOUS
<1>1. ASSUME NEW b \in Blocks
      PROVE  Cardinality({s \in Strings : t_data[s] = b}) = IF chars[b] = NoObject THEN 0 ELSE 1
  <2> DEFINE A == {s \in Strings : t_data[s] = b}
  <2>1. CASE chars[b] # NoObject
    <3>1. (\E o : o \in A) /\ \A p, q \in A : p = q
      BY <2>1 DEF TextInv, TextOwned
    <3> HIDE DEF A
    <3> QED
      BY <2>1, <3>1, OneOrNone DEF A
  <2>2. CASE chars[b] = NoObject
    <3>1. \A p \in A : FALSE
      BY <2>2 DEF TextInv, TextOwned
    <3> HIDE DEF A
    <3> QED
      BY <2>2, <3>1, OneOrNone DEF A
  <2> QED
    BY <2>1, <2>2
<1>2. \A s \in Strings : str_len[s] > 0 => str_len[s] <= Len(chars[t_data[s]])
  BY DEF TextInv, TextOwned
<1>3. \A S : Text!Cardinality(S) = Cardinality(S)
  BY DEF Cardinality, Text!Cardinality
<1> QED
  BY <1>1, <1>2, <1>3 DEF Text!OwnedOnce
-----------------------------------------------------------------------------
(* HashTable *)

\* What the proofs use of the constants.
LEMMA TableConstants == Default \in Contents /\ MaxInsertions \in Nat
  BY RoutinesAssumption DEF ContainersAssumption, Table!HashTableAssumption

Nodes == Keys \X Contents

\* The nodes of bucket s have the hash h and different keys.
IsBucket(s, h) ==
    /\ s \in Seq(Nodes)
    /\ \A i, j \in DOMAIN s : Hash[s[i][1]] = h /\ (s[i][1] = s[j][1] => i = j)

\* What a node of a bucket is.
LEMMA BucketNodes ==
    ASSUME NEW s \in Seq(Nodes)
    PROVE  /\ DOMAIN s = 1 .. Len(s) /\ Len(s) \in Nat
           /\ \A i \in DOMAIN s : s[i] = <<s[i][1], s[i][2]>> /\ s[i][1] \in Keys /\ s[i][2] \in Contents
  BY DEF Nodes

\* find_if stops at the node with the key, if there is one.
LEMMA FindStops ==
    ASSUME NEW k \in Keys, NEW s \in Seq(Nodes), s = table[Hash[k]]
    PROVE  /\ Table!count(k) <=> \E i \in DOMAIN s : s[i][1] = k
           /\ Table!count(k) => Table!Find(k) \in DOMAIN s /\ s[Table!Find(k)][1] = k
<1> DEFINE I == {i \in 1 .. Len(s) : s[i][1] = k}
<1>1. Table!Find(k) = IF I # {} THEN Table!Min(I) ELSE 0
  BY DEF Table!Find, Table!SelectInSeq
<1>2. DOMAIN s = 1 .. Len(s) /\ Len(s) \in Nat
  BY BucketNodes
<1>3. CASE I # {}
  <2>1. I \subseteq Nat
    OBVIOUS
  <2>2. PICK m \in I : \A n \in I : m <= n
    <3> HIDE DEF I
    <3> QED
      BY <1>3, <2>1, LeastNat
  <2>3. Table!Min(I) \in I
    BY <2>2 DEF Table!Min
  <2> QED
    BY <1>1, <1>2, <1>3, <2>3 DEF Table!count
<1>4. CASE I = {}
  BY <1>1, <1>2, <1>4 DEF Table!count
<1> QED
  BY <1>3, <1>4

Held(s) == {s[i] : i \in DOMAIN s}
Others(N, k) == {z \in N : z[1] # k}

\* What is left of a sequence without its element i.
Rest(t, S, s, i) ==
    /\ t \in Seq(S) /\ Len(t) = Len(s) - 1
    /\ \A n \in 1 .. Len(s) - 1 : t[n] = IF n < i THEN s[n] ELSE s[n + 1]

LEMMA RemoveOne ==
    ASSUME NEW S, NEW s \in Seq(S), NEW i \in 1 .. Len(s), NEW t,
           t = SubSeq(s, 1, i - 1) \o SubSeq(s, i + 1, Len(s))
    PROVE  Rest(t, S, s, i)
<1>1. PICK m \in Nat : m = Len(s) /\ i \in 1 .. m
  OBVIOUS
<1>2. PICK l \in Nat : l = i - 1 /\ l + 1 = i /\ l < m
  BY <1>1
<1>3. \A n \in 1 .. m : s[n] \in S
  BY <1>1
<1>4. PICK a : a = SubSeq(s, 1, l)
  OBVIOUS
<1>5. a \in Seq(S) /\ Len(a) = l /\ \A n \in 1 .. l : a[n] = s[n]
  <2>1. 1 \in Int /\ l \in Int /\ \A n \in 1 .. l : s[n] \in S
    BY <1>2, <1>3
  <2>2. /\ a \in Seq(S) /\ Len(a) = IF 1 <= l THEN l - 1 + 1 ELSE 0
        /\ \A n \in 1 .. l - 1 + 1 : a[n] = s[1 + n - 1]
    BY <1>4, <2>1, SubSeqProperties
  <2>3. l - 1 + 1 = l /\ (IF 1 <= l THEN l - 1 + 1 ELSE 0) = l /\ \A n \in 1 .. l : 1 + n - 1 = n
    OBVIOUS
  <2> QED
    BY <2>2, <2>3
<1>6. PICK b : b = SubSeq(s, i + 1, m)
  OBVIOUS
<1>7. PICK r \in Nat : r = m - i
  <2>1. m - i \in Nat
    BY <1>1
  <2> QED
    BY <2>1
<1>8. b \in Seq(S) /\ Len(b) = r /\ \A n \in 1 .. r : b[n] = s[i + n]
  <2>1. i + 1 \in Int /\ m \in Int /\ \A n \in i + 1 .. m : s[n] \in S
    BY <1>1, <1>3
  <2>2. /\ b \in Seq(S) /\ Len(b) = IF i + 1 <= m THEN m - (i + 1) + 1 ELSE 0
        /\ \A n \in 1 .. m - (i + 1) + 1 : b[n] = s[i + 1 + n - 1]
    BY <1>6, <2>1, SubSeqProperties
  <2>3. m - (i + 1) + 1 = r /\ (IF i + 1 <= m THEN m - (i + 1) + 1 ELSE 0) = r
        /\ \A n \in 1 .. r : i + 1 + n - 1 = i + n
    BY <1>1, <1>7
  <2> QED
    BY <2>2, <2>3
<1>9. t = a \o b
  BY <1>1, <1>2, <1>4, <1>6
<1>10. /\ t \in Seq(S) /\ Len(t) = l + r
       /\ \A n \in 1 .. l + r : t[n] = IF n <= l THEN a[n] ELSE b[n - l]
  <2>1. /\ t \in Seq(S) /\ Len(t) = Len(a) + Len(b)
        /\ \A n \in 1 .. Len(a) + Len(b) : t[n] = IF n <= Len(a) THEN a[n] ELSE b[n - Len(a)]
    <3>1. a \in Seq(S) /\ b \in Seq(S)
      BY <1>5, <1>8
    <3>2. /\ a \o b \in Seq(S) /\ Len(a \o b) = Len(a) + Len(b)
          /\ \A n \in 1 .. Len(a) + Len(b) : (a \o b)[n] = IF n <= Len(a) THEN a[n] ELSE b[n - Len(a)]
      BY <3>1, ConcatProperties
    <3> QED
      BY <1>9, <3>2
  <2>2. Len(a) = l /\ Len(b) = r
    BY <1>5, <1>8
  <2> QED
    BY <2>1, <2>2
<1>11. l + r = m - 1
  BY <1>1, <1>2, <1>7
<1>12. ASSUME NEW n \in 1 .. m - 1 PROVE t[n] = IF n < i THEN s[n] ELSE s[n + 1]
  <2>1. CASE n < i
    <3>1. n <= l /\ n \in 1 .. l
      BY <1>2, <2>1
    <3> QED
      BY <1>5, <1>10, <1>11, <2>1, <3>1
  <2>2. CASE ~(n < i)
    <3>1. ~(n <= l) /\ n - l \in 1 .. r /\ i + (n - l) = n + 1
      BY <1>1, <1>2, <1>7, <2>2
    <3>2. t[n] = b[n - l] /\ b[n - l] = s[i + (n - l)]
      BY <1>8, <1>10, <1>11, <3>1
    <3> QED
      BY <2>2, <3>1, <3>2
  <2> QED
    BY <2>1, <2>2
<1> QED
  BY <1>1, <1>10, <1>11, <1>12 DEF Rest

\* Words for what the member functions do to a bucket.
HasKey(z, k) == z[1] = k
IsAt(s, i, k) == i \in DOMAIN s /\ s[i][1] = k
NoneHas(s, k) == \A i \in DOMAIN s : s[i][1] # k
Overwritten(s, i, z) == [s EXCEPT ![i] = z]
Appended(s, z) == Append(s, z)
Without(s, i) == SubSeq(s, 1, i - 1) \o SubSeq(s, i + 1, Len(s))

\* A node gets another value.
LEMMA BucketReplace ==
    ASSUME NEW h, NEW s, IsBucket(s, h), NEW k, NEW z, z \in Nodes, HasKey(z, k),
           NEW i, IsAt(s, i, k), NEW t, t = Overwritten(s, i, z)
    PROVE  IsBucket(t, h) /\ Held(t) = Others(Held(s), k) \cup {z}
<1>0. z[1] = k /\ i \in DOMAIN s /\ s[i][1] = k /\ t = [s EXCEPT ![i] = z]
  BY DEF HasKey, IsAt, Overwritten
<1>1. s \in Seq(Nodes) /\ DOMAIN s = 1 .. Len(s)
  BY BucketNodes DEF IsBucket
<1>4. t \in Seq(Nodes) /\ DOMAIN t = DOMAIN s /\ t[i] = z
      /\ \A n \in DOMAIN s : n # i => t[n] = s[n]
  BY <1>0, <1>1
<1>6. IsBucket(t, h)
  BY <1>0, <1>4 DEF IsBucket
<1>7. Held(t) = Others(Held(s), k) \cup {z}
  BY <1>0, <1>4 DEF IsBucket, Held, Others
<1> QED
  BY <1>6, <1>7

\* A new node is put at the end.
LEMMA BucketAppend ==
    ASSUME NEW h, NEW s, IsBucket(s, h), NEW k, Hash[k] = h, NEW z, z \in Nodes, HasKey(z, k),
           NoneHas(s, k), NEW t, t = Appended(s, z)
    PROVE  IsBucket(t, h) /\ Held(t) = Others(Held(s), k) \cup {z}
<1>0. z[1] = k /\ (\A i \in DOMAIN s : s[i][1] # k) /\ t = Append(s, z)
  BY DEF HasKey, NoneHas, Appended
<1>1. s \in Seq(Nodes) /\ DOMAIN s = 1 .. Len(s) /\ Len(s) \in Nat
  BY BucketNodes DEF IsBucket
<1>3. PICK m \in Nat : m = Len(s)
  BY <1>1
<1>4. /\ t \in Seq(Nodes) /\ DOMAIN t = 1 .. m + 1
      /\ \A n \in 1 .. m : t[n] = s[n]
      /\ t[m + 1] = z
  BY <1>0, <1>1, <1>3, AppendProperties
<1>5. DOMAIN t = DOMAIN s \cup {m + 1} /\ m + 1 \notin DOMAIN s
  BY <1>1, <1>3, <1>4
<1>6. \A n \in DOMAIN s : t[n] = s[n]
  BY <1>1, <1>3, <1>4
<1>7. IsBucket(t, h)
  BY <1>0, <1>4, <1>5, <1>6 DEF IsBucket
<1>8. Held(t) = Others(Held(s), k) \cup {z}
  <2>1. Others(Held(s), k) = Held(s)
    BY <1>0 DEF Held, Others
  <2>3. \A i \in DOMAIN t : t[i] \in Held(s) \cup {z}
    BY <1>4, <1>5, <1>6 DEF Held
  <2>4. \A i \in DOMAIN s : s[i] \in Held(t)
    BY <1>5, <1>6 DEF Held
  <2>5. z \in Held(t)
    BY <1>4, <1>5 DEF Held
  <2>2. Held(t) = Held(s) \cup {z}
    BY <2>3, <2>4, <2>5 DEF Held
  <2> QED
    BY <2>1, <2>2
<1> QED
  BY <1>7, <1>8

\* A node is taken out.
LEMMA BucketRemove ==
    ASSUME NEW h, NEW s, IsBucket(s, h), NEW k,
           NEW i, IsAt(s, i, k), NEW t, t = Without(s, i)
    PROVE  IsBucket(t, h) /\ Held(t) = Others(Held(s), k)
<1>0. i \in DOMAIN s /\ s[i][1] = k /\ t = SubSeq(s, 1, i - 1) \o SubSeq(s, i + 1, Len(s))
  BY DEF IsAt, Without
<1>1. PICK m \in Nat : s \in Seq(Nodes) /\ DOMAIN s = 1 .. m /\ m = Len(s) /\ i \in 1 .. m
  BY <1>0, BucketNodes DEF IsBucket
<1>2. /\ t \in Seq(Nodes) /\ Len(t) = m - 1
      /\ \A n \in 1 .. m - 1 : t[n] = IF n < i THEN s[n] ELSE s[n + 1]
  <2>1. s \in Seq(Nodes) /\ i \in 1 .. Len(s)
    BY <1>1
  <2>2. t = SubSeq(s, 1, i - 1) \o SubSeq(s, i + 1, Len(s))
    BY <1>0
  <2>3. Rest(t, Nodes, s, i)
    BY <2>1, <2>2, RemoveOne
  <2> QED
    BY <1>1, <2>3 DEF Rest
<1>3. PICK o \in [1 .. m - 1 -> 1 .. m] : \A n \in 1 .. m - 1 : o[n] = IF n < i THEN n ELSE n + 1
  <2> DEFINE o == [n \in 1 .. m - 1 |-> IF n < i THEN n ELSE n + 1]
  <2>1. o \in [1 .. m - 1 -> 1 .. m]
    BY <1>1
  <2> QED
    BY <2>1
<1>4. DOMAIN t = 1 .. m - 1
  BY <1>1, <1>2
<1>5. \A n \in DOMAIN t : o[n] \in DOMAIN s /\ o[n] # i /\ t[n] = s[o[n]]
  <2>1. ASSUME NEW n \in 1 .. m - 1 PROVE o[n] \in 1 .. m /\ o[n] # i /\ t[n] = s[o[n]]
    <3>1. CASE n < i
      BY <1>2, <1>3, <3>1
    <3>2. CASE ~(n < i)
      <4>1. o[n] = n + 1 /\ t[n] = s[n + 1] /\ n + 1 # i /\ n + 1 \in 1 .. m
        <5>1. o[n] = n + 1 /\ t[n] = s[n + 1]
          BY <1>2, <1>3, <3>2
        <5>2. n + 1 # i /\ n + 1 \in 1 .. m
          BY <1>1, <3>2
        <5> QED
          BY <5>1, <5>2
      <4> QED
        BY <4>1
    <3> QED
      BY <3>1, <3>2
  <2> QED
    BY <1>1, <1>4, <2>1
<1>6. \A n, p \in DOMAIN t : o[n] = o[p] => n = p
  BY <1>1, <1>3, <1>4
<1>7. ASSUME NEW n \in DOMAIN s, n # i PROVE \E p \in DOMAIN t : o[p] = n
  <2>1. CASE n < i
    <3>1. n \in 1 .. m - 1 /\ o[n] = n
      BY <1>1, <1>3, <2>1
    <3> QED
      BY <1>4, <3>1
  <2>2. CASE ~(n < i)
    <3>1. n - 1 \in 1 .. m - 1 /\ ~(n - 1 < i) /\ n - 1 + 1 = n
      BY <1>1, <1>7, <2>2
    <3> QED
      BY <1>3, <1>4, <3>1
  <2> QED
    BY <2>1, <2>2
<1>8. IsBucket(t, h)
  <2>1. ASSUME NEW n \in DOMAIN t, NEW p \in DOMAIN t
        PROVE  Hash[t[n][1]] = h /\ (t[n][1] = t[p][1] => n = p)
    <3>1. PICK n0 \in DOMAIN s, p0 \in DOMAIN s : n0 = o[n] /\ p0 = o[p] /\ t[n] = s[n0] /\ t[p] = s[p0]
      BY <1>5
    <3>2. Hash[s[n0][1]] = h /\ (s[n0][1] = s[p0][1] => n0 = p0)
      BY DEF IsBucket
    <3> QED
      BY <1>6, <3>1, <3>2
  <2> QED
    BY <1>2, <2>1 DEF IsBucket
<1>9. Held(t) = Others(Held(s), k)
  <2>1. ASSUME NEW n \in DOMAIN t PROVE t[n] \in Others(Held(s), k)
    <3>1. PICK n0 \in DOMAIN s : n0 # i /\ t[n] = s[n0]
      BY <1>5
    <3>2. s[n0][1] # k
      BY <1>0, <3>1 DEF IsBucket
    <3> QED
      BY <3>1, <3>2 DEF Held, Others
  <2>2. ASSUME NEW z \in Others(Held(s), k) PROVE z \in Held(t)
    <3>1. PICK n \in DOMAIN s : z = s[n] /\ n # i
      BY <1>0 DEF Held, Others
    <3>2. PICK p \in DOMAIN t : o[p] = n
      BY <1>7, <3>1
    <3> QED
      BY <1>5, <3>1, <3>2 DEF Held
  <2> QED
    BY <2>1, <2>2 DEF Held
<1> QED
  BY <1>8, <1>9

TableBuckets ==
    /\ table \in [Table!Buckets -> Seq(Nodes)]
    /\ \A h \in Table!Buckets : IsBucket(table[h], h)

TableNodes == UNION {Held(table[h]) : h \in Table!Buckets}
TableMap == [k \in Table!present |-> table[Hash[k]][Table!Find(k)][2]]

(***************************************************************************)
(* A key has one node, in its bucket, and len counts no less than the keys.*)
(***************************************************************************)
TableInv ==
    /\ TableBuckets
    /\ IsFiniteSet(Table!present) /\ Cardinality(Table!present) <= len
    /\ len \in 0 .. MaxInsertions

\* The nodes are a map from the keys that are there to what the look-up finds.
IsTableMap ==
    /\ TableNodes \subseteq Nodes
    /\ \A z, y \in TableNodes : z[1] = y[1] => z = y
    /\ Table!present = {z[1] : z \in TableNodes}
    /\ \A k \in Keys : Table!count(k) <=> k \in Table!present
    /\ \A z \in TableNodes : /\ z[1] \in Table!present /\ TableMap[z[1]] = z[2]
                             /\ table[Hash[z[1]]][Table!Find(z[1])] = z

\* Buckets in order are such a map.
LEMMA TableSays == TableBuckets => IsTableMap
<1> SUFFICES ASSUME TableBuckets PROVE IsTableMap
  OBVIOUS
<1>1. \A h \in Table!Buckets : table[h] \in Seq(Nodes) /\ IsBucket(table[h], h)
  BY DEF TableBuckets
<1>2. TableNodes \subseteq Nodes
  <2>1. ASSUME NEW h \in Table!Buckets, NEW i \in DOMAIN table[h] PROVE table[h][i] \in Nodes
    <3>1. PICK s \in Seq(Nodes) : s = table[h] /\ i \in DOMAIN s
      BY <1>1
    <3> QED
      BY <3>1
  <2> QED
    BY <2>1 DEF TableNodes, Held
<1>3. \A z \in TableNodes : \E i \in DOMAIN table[Hash[z[1]]] : z = table[Hash[z[1]]][i]
  <2>1. ASSUME NEW h \in Table!Buckets, NEW i \in DOMAIN table[h] PROVE Hash[table[h][i][1]] = h
    BY <1>1 DEF IsBucket
  <2> QED
    BY <2>1 DEF TableNodes, Held
<1>4. ASSUME NEW z \in TableNodes, NEW y \in TableNodes, z[1] = y[1] PROVE z = y
  <2>1. PICK h \in Table!Buckets : h = Hash[z[1]]
    BY <1>2 DEF Table!Buckets, Nodes
  <2>2. PICK i \in DOMAIN table[h], j \in DOMAIN table[h] : z = table[h][i] /\ y = table[h][j]
    BY <1>3, <1>4, <2>1
  <2> QED
    BY <1>1, <1>4, <2>2 DEF IsBucket
<1>5. Table!present = {z[1] : z \in TableNodes}
  BY DEF Table!present, TableNodes, Held
<1>6. ASSUME NEW k \in Keys
      PROVE  /\ Table!count(k) <=> \E i \in DOMAIN table[Hash[k]] : table[Hash[k]][i][1] = k
             /\ Table!count(k) => /\ Table!Find(k) \in DOMAIN table[Hash[k]]
                                  /\ table[Hash[k]][Table!Find(k)][1] = k
  <2>1. table[Hash[k]] \in Seq(Nodes)
    BY <1>1 DEF Table!Buckets
  <2> QED
    BY <2>1, FindStops
<1>7. ASSUME NEW k \in Keys PROVE Table!count(k) <=> k \in Table!present
  <2>1. Hash[k] \in Table!Buckets
    BY DEF Table!Buckets
  <2>2. \A i \in DOMAIN table[Hash[k]] : table[Hash[k]][i] \in TableNodes
    BY <2>1 DEF TableNodes, Held
  <2> QED
    BY <1>3, <1>5, <1>6, <2>2
<1>8. ASSUME NEW z \in TableNodes
      PROVE  /\ z[1] \in Table!present /\ TableMap[z[1]] = z[2]
             /\ table[Hash[z[1]]][Table!Find(z[1])] = z
  <2>1. z[1] \in Table!present /\ z[1] \in Keys
    BY <1>2, <1>5 DEF Nodes
  <2>2. PICK y : y = table[Hash[z[1]]][Table!Find(z[1])]
    OBVIOUS
  <2>3. y \in TableNodes /\ y[1] = z[1]
    <3>1. Hash[z[1]] \in Table!Buckets
      BY <2>1 DEF Table!Buckets
    <3> QED
      BY <1>6, <1>7, <2>1, <2>2, <3>1 DEF TableNodes, Held
  <2>4. y = z
    BY <1>4, <2>3
  <2> QED
    BY <2>1, <2>2, <2>4 DEF TableMap
<1> QED
  BY <1>2, <1>4, <1>5, <1>7, <1>8 DEF IsTableMap

\* So they are after a step.
LEMMA TableSaysNext == TableBuckets' => IsTableMap'
  BY TableSays, PTL

\* One bucket changes.
LEMMA TableChanges ==
    ASSUME TableBuckets, NEW k \in Keys, NEW t, IsBucket(t, Hash[k]),
           table' = [table EXCEPT ![Hash[k]] = t],
           NEW N, Held(t) = Others(Held(table[Hash[k]]), k) \cup N
    PROVE  TableBuckets' /\ TableNodes' = Others(TableNodes, k) \cup N
<1>1. PICK h \in Table!Buckets : h = Hash[k]
  BY DEF Table!Buckets
<1>2. t \in Seq(Nodes) /\ table \in [Table!Buckets -> Seq(Nodes)]
  BY DEF TableBuckets, IsBucket
<1>3. /\ table' \in [Table!Buckets -> Seq(Nodes)] /\ table'[h] = t
      /\ \A g \in Table!Buckets \ {h} : table'[g] = table[g]
  BY <1>1, <1>2
<1>4. TableBuckets'
  <2>1. ASSUME NEW g \in Table!Buckets PROVE IsBucket(table'[g], g)
    BY <1>1, <1>3 DEF TableBuckets
  <2> QED
    BY <1>3, <2>1 DEF TableBuckets, Table!Buckets
<1>5. ASSUME NEW g \in Table!Buckets \ {h} PROVE Others(Held(table[g]), k) = Held(table[g])
  <2>1. ASSUME NEW i \in DOMAIN table[g] PROVE table[g][i][1] # k
    BY <1>1 DEF TableBuckets, IsBucket
  <2> QED
    BY <2>1 DEF Others, Held
<1>6. TableNodes' = UNION {Held(table'[g]) : g \in Table!Buckets}
  BY DEF TableNodes, Held, Table!Buckets
<1>7. Others(TableNodes, k) = UNION {Others(Held(table[g]), k) : g \in Table!Buckets}
  BY DEF TableNodes, Others
<1>8. Held(table'[h]) = Others(Held(table[h]), k) \cup N
  BY <1>1, <1>3
<1>9. \A g \in Table!Buckets \ {h} : Held(table'[g]) = Others(Held(table[g]), k)
  BY <1>3, <1>5
<1>10. UNION {Held(table'[g]) : g \in Table!Buckets}
           = (UNION {Others(Held(table[g]), k) : g \in Table!Buckets}) \cup N
  BY <1>1, <1>8, <1>9
<1> QED
  BY <1>4, <1>6, <1>7, <1>10

\* operator[] leaves one node with the key, which has the value that is assigned.
LEMMA TablePuts ==
    ASSUME TableBuckets, NEW k \in Keys, NEW v \in Contents, Table!At(k, v)
    PROVE  TableBuckets' /\ TableNodes' = Others(TableNodes, k) \cup {<<k, v>>}
<1>1. PICK h \in Table!Buckets : h = Hash[k]
  BY DEF Table!Buckets
<1>2. PICK s \in Seq(Nodes) : s = table[h] /\ IsBucket(s, h)
  BY <1>1 DEF TableBuckets
<1>3. PICK t : t = Table!Inserted(k, v)
  OBVIOUS
<1>4. table' = [table EXCEPT ![Hash[k]] = t]
  BY <1>3 DEF Table!At
<1>0. <<k, v>> \in Nodes /\ <<k, v>>[1] = k
  BY DEF Nodes
<1>9. PICK z \in Nodes : z = <<k, v>> /\ z[1] = k
  BY <1>0
<1>5. IsBucket(t, h) /\ Held(t) = Others(Held(s), k) \cup {z}
  <2>1. CASE Table!count(k)
    <3>1. PICK i \in DOMAIN s : i = Table!Find(k) /\ s[i][1] = k
      BY <1>1, <1>2, <2>1, FindStops
    <3>2. t = [s EXCEPT ![i] = z]
      BY <1>1, <1>2, <1>3, <1>9, <2>1, <3>1 DEF Table!Inserted, Table!ReplaceAt
    <3>3. t = Overwritten(s, i, z) /\ IsAt(s, i, k) /\ HasKey(z, k)
      BY <1>9, <3>1, <3>2 DEF Overwritten, IsAt, HasKey
    <3> QED
      BY <1>2, <1>9, <3>3, BucketReplace
  <2>2. CASE ~Table!count(k)
    <3>1. NoneHas(s, k) /\ HasKey(z, k)
      BY <1>1, <1>2, <1>9, <2>2, FindStops DEF NoneHas, HasKey
    <3>2. t = Append(s, z)
      BY <1>1, <1>2, <1>3, <1>9, <2>2 DEF Table!Inserted
    <3>3. Hash[k] = h /\ t = Appended(s, z)
      BY <1>1, <3>2 DEF Appended
    <3> QED
      BY <1>2, <1>9, <3>1, <3>3, BucketAppend
  <2> QED
    BY <2>1, <2>2
<1> QED
  BY <1>1, <1>2, <1>4, <1>5, <1>9, TableChanges

\* erase leaves none.
LEMMA TableErases ==
    ASSUME TableBuckets, NEW k \in Keys, Table!erase(k)
    PROVE  TableBuckets' /\ TableNodes' = Others(TableNodes, k)
<1>1. PICK h \in Table!Buckets : h = Hash[k]
  BY DEF Table!Buckets
<1>2. PICK s \in Seq(Nodes) : s = table[h] /\ IsBucket(s, h)
  BY <1>1 DEF TableBuckets
<1>3. PICK i \in DOMAIN s : i = Table!Find(k) /\ s[i][1] = k
  BY <1>1, <1>2, FindStops DEF Table!erase
<1>4. PICK t : t = SubSeq(s, 1, i - 1) \o SubSeq(s, i + 1, Len(s))
  OBVIOUS
<1>5. table' = [table EXCEPT ![Hash[k]] = t]
  BY <1>1, <1>2, <1>3, <1>4 DEF Table!erase, Table!RemoveAt
<1>6. IsBucket(t, h) /\ Held(t) = Others(Held(s), k)
  <2>1. t = Without(s, i) /\ IsAt(s, i, k)
    BY <1>3, <1>4 DEF Without, IsAt
  <2> QED
    BY <1>2, <2>1, BucketRemove
<1>8. Held(t) = Others(Held(s), k) \cup {}
  BY <1>6
<1>7. TableBuckets' /\ TableNodes' = Others(TableNodes, k) \cup {}
  BY <1>1, <1>2, <1>5, <1>6, <1>8, TableChanges
<1> QED
  BY <1>7

\* The table is empty at first.
LEMMA InitTable == Init => TableInv /\ Table!Promise!Init
<1> SUFFICES ASSUME Init PROVE TableInv /\ Table!Promise!Init
  OBVIOUS
<1>1. table = [h \in Table!Buckets |-> <<>>] /\ len = 0
  BY DEF Init, ContainersInit, Table!Init
<1>2. TableBuckets
  BY <1>1 DEF TableBuckets, IsBucket
<1>3. Table!present = {}
  BY <1>1 DEF Table!present
<1>4. Table!Promise!Init
  BY <1>3 DEF Table!Promise!Init
<1> QED
  BY <1>1, <1>2, <1>3, <1>4, FS_EmptySet, TableConstants DEF TableInv

\* The look-up with an assignment, or without one, does to the map what a map promises.
LEMMA TableAt ==
    ASSUME TableInv, NEW k \in Keys, NEW v \in Contents, Table!At(k, v)
    PROVE  /\ TableInv'
           /\ TableMap' = [j \in DOMAIN TableMap \cup {k} |-> IF j = k THEN v ELSE TableMap[j]]
<1>1. TableBuckets /\ TableBuckets' /\ TableNodes' = Others(TableNodes, k) \cup {<<k, v>>}
  BY TablePuts DEF TableInv
<1>0. <<k, v>>[1] = k /\ <<k, v>>[2] = v
  OBVIOUS
<1>2. PICK y : y = <<k, v>> /\ y[1] = k /\ y[2] = v
  BY <1>0
<1>3. Table!present = {z[1] : z \in TableNodes} /\ Table!present' = {z[1] : z \in TableNodes'}
  BY <1>1, TableSays, TableSaysNext DEF IsTableMap
<1>4. Table!present' = Table!present \cup {k}
  BY <1>1, <1>2, <1>3 DEF Others
<1>5. TableInv'
  <2>1. Table!count(k) <=> k \in Table!present
    BY <1>1, TableSays DEF IsTableMap
  <2>2. IsFiniteSet(Table!present) /\ Cardinality(Table!present) <= len /\ len \in 0 .. MaxInsertions
    BY DEF TableInv
  <2>3. /\ IsFiniteSet(Table!present')
        /\ Cardinality(Table!present') =
              IF k \in Table!present THEN Cardinality(Table!present) ELSE Cardinality(Table!present) + 1
    BY <1>4, <2>2, FS_AddElement
  <2>4. PICK c \in Nat : c = Cardinality(Table!present)
    BY <2>2, FS_CardinalityType
  <2>5. PICK l \in Nat : l = len /\ l <= MaxInsertions
    BY <2>2, TableConstants
  <2>6. len' = (IF k \in Table!present THEN l ELSE l + 1) /\ (k \in Table!present \/ l < MaxInsertions)
    BY <2>1, <2>5 DEF Table!At
  <2>7. len' \in 0 .. MaxInsertions /\ Cardinality(Table!present') <= len'
    BY <2>2, <2>3, <2>4, <2>5, <2>6, TableConstants
  <2> QED
    BY <1>1, <2>3, <2>7 DEF TableInv
<1>6. TableMap' = [j \in DOMAIN TableMap \cup {k} |-> IF j = k THEN v ELSE TableMap[j]]
  <2>1. DOMAIN TableMap = Table!present /\ DOMAIN TableMap' = Table!present'
    BY DEF TableMap
  <2>2. ASSUME NEW j \in Table!present' PROVE TableMap'[j] = IF j = k THEN v ELSE TableMap[j]
    <3>1. PICK z \in TableNodes' : z[1] = j
      BY <1>3
    <3>2. TableMap'[j] = z[2]
      BY <1>1, <3>1, TableSaysNext DEF IsTableMap
    <3>3. CASE j = k
      BY <1>1, <1>2, <3>1, <3>2, <3>3 DEF Others
    <3>4. CASE j # k
      <4>1. z \in TableNodes
        BY <1>1, <1>2, <3>1, <3>4 DEF Others
      <4> QED
        BY <1>1, <3>1, <3>2, <3>4, <4>1, TableSays DEF IsTableMap
    <3> QED
      BY <3>3, <3>4
  <2>3. TableMap' = [j \in DOMAIN TableMap' |-> TableMap'[j]]
    BY DEF TableMap
  <2> QED
    BY <1>4, <2>1, <2>2, <2>3
<1> QED
  BY <1>5, <1>6

\* erase does too.
LEMMA TableErase ==
    ASSUME TableInv, NEW k \in Keys, Table!erase(k)
    PROVE  /\ TableInv'
           /\ TableMap' = [j \in DOMAIN TableMap \ {k} |-> TableMap[j]]
<1>1. TableBuckets /\ TableBuckets' /\ TableNodes' = Others(TableNodes, k)
  BY TableErases DEF TableInv
<1>2. Table!present = {z[1] : z \in TableNodes} /\ Table!present' = {z[1] : z \in TableNodes'}
  BY <1>1, TableSays, TableSaysNext DEF IsTableMap
<1>3. Table!present' = Table!present \ {k}
  BY <1>1, <1>2 DEF Others
<1>4. TableInv'
  <2>1. IsFiniteSet(Table!present) /\ Cardinality(Table!present) <= len /\ len \in 0 .. MaxInsertions
    BY DEF TableInv
  <2>2. IsFiniteSet(Table!present') /\ Cardinality(Table!present') <= Cardinality(Table!present)
    BY <1>3, <2>1, FS_Subset
  <2>3. PICK c \in Nat, d \in Nat : c = Cardinality(Table!present) /\ d = Cardinality(Table!present')
    BY <2>1, <2>2, FS_CardinalityType
  <2>4. len' = len
    BY DEF Table!erase
  <2> QED
    BY <1>1, <2>1, <2>2, <2>3, <2>4 DEF TableInv
<1>5. TableMap' = [j \in DOMAIN TableMap \ {k} |-> TableMap[j]]
  <2>1. DOMAIN TableMap = Table!present /\ DOMAIN TableMap' = Table!present'
    BY DEF TableMap
  <2>2. ASSUME NEW j \in Table!present' PROVE TableMap'[j] = TableMap[j]
    <3>1. PICK z \in TableNodes' : z[1] = j
      BY <1>2
    <3>2. z \in TableNodes
      BY <1>1, <3>1 DEF Others
    <3>3. TableMap'[j] = z[2]
      BY <1>1, <3>1, TableSaysNext DEF IsTableMap
    <3> QED
      BY <1>1, <3>1, <3>2, <3>3, TableSays DEF IsTableMap
  <2>3. TableMap' = [j \in DOMAIN TableMap' |-> TableMap'[j]]
    BY DEF TableMap
  <2> QED
    BY <1>3, <2>1, <2>2, <2>3
<1> QED
  BY <1>4, <1>5

\* Every step of the program keeps the table in order and its promise.
LEMMA NextTable ==
    ASSUME TableInv, [Next]_allVars
    PROVE  TableInv' /\ [Table!Promise!Next]_TableMap
<1>1. CASE UNCHANGED tableVars
  <2>1. table' = table /\ len' = len
    BY <1>1 DEF tableVars
  <2>3. Table!present' = Table!present
    BY <2>1 DEF Table!present, Table!Buckets
  <2>5. \A k : Table!Find(k)' = Table!Find(k)
    BY <2>1 DEF Table!Find, Table!SelectInSeq, Table!Min
  <2>2. TableMap' = TableMap
    BY <2>1, <2>3, <2>5 DEF TableMap
  <2>4. TableBuckets' <=> TableBuckets
    BY <2>1 DEF TableBuckets, Table!Buckets
  <2> QED
    BY <2>1, <2>2, <2>3, <2>4 DEF TableInv
<1>2. CASE Table!Next
  <2>1. PICK k \in Keys : Table!LookUp(k) \/ (\E v \in Contents : Table!At(k, v)) \/ Table!erase(k)
    BY <1>2 DEF Table!Next
  <2>2. CASE Table!LookUp(k)
    <3>1. PICK v : v = IF Table!count(k) THEN table[Hash[k]][Table!Find(k)][2] ELSE Default
      OBVIOUS
    <3>2. TableBuckets
      BY DEF TableInv
    <3>3. (Table!count(k) <=> k \in DOMAIN TableMap) /\ (Table!count(k) => v = TableMap[k])
      BY <3>1, <3>2, TableSays DEF IsTableMap, TableMap
    <3>4. v \in Contents
      <4>1. CASE Table!count(k)
        <5>1. PICK z \in TableNodes : z[1] = k
          BY <3>2, <4>1, TableSays DEF IsTableMap
        <5>2. v = z[2] /\ z \in Nodes
          BY <3>2, <3>3, <4>1, <5>1, TableSays DEF IsTableMap
        <5> QED
          BY <5>2 DEF Nodes
      <4>2. CASE ~Table!count(k)
        BY <3>1, <4>2, TableConstants
      <4> QED
        BY <4>1, <4>2
    <3>5. Table!At(k, v)
      BY <2>2, <3>1 DEF Table!LookUp
    <3>6. /\ TableInv'
          /\ TableMap' = [j \in DOMAIN TableMap \cup {k} |-> IF j = k THEN v ELSE TableMap[j]]
      BY <3>4, <3>5, TableAt
    <3>7. [j \in DOMAIN TableMap \cup {k} |-> IF j = k THEN v ELSE TableMap[j]]
            = [j \in DOMAIN TableMap \cup {k} |-> IF j \in DOMAIN TableMap THEN TableMap[j] ELSE Default]
      BY <3>1, <3>3
    <3>8. Table!Promise!LookUp(k)
      BY <3>6, <3>7 DEF Table!Promise!LookUp, Table!Promise!Value, TableMap
    <3> QED
      BY <3>6, <3>8 DEF Table!Promise!Next
  <2>3. ASSUME NEW v \in Contents, Table!At(k, v)
        PROVE  TableInv' /\ [Table!Promise!Next]_TableMap
    <3>1. /\ TableInv'
          /\ TableMap' = [j \in DOMAIN TableMap \cup {k} |-> IF j = k THEN v ELSE TableMap[j]]
      BY <2>3, TableAt
    <3>2. [j \in DOMAIN TableMap \cup {k} |-> IF j = k THEN v ELSE TableMap[j]]
            = [j \in DOMAIN TableMap \cup {k} |->
                  IF j = k THEN v ELSE IF j \in DOMAIN TableMap THEN TableMap[j] ELSE Default]
      OBVIOUS
    <3>3. Table!Promise!Put(k, v)
      BY <3>1, <3>2 DEF Table!Promise!Put, Table!Promise!Value, TableMap
    <3> QED
      BY <3>1, <3>3 DEF Table!Promise!Next
  <2>4. CASE Table!erase(k)
    <3>1. TableInv' /\ TableMap' = [j \in DOMAIN TableMap \ {k} |-> TableMap[j]]
      BY <2>4, TableErase
    <3>2. Table!Promise!Remove(k)
      BY <3>1 DEF Table!Promise!Remove, TableMap
    <3> QED
      BY <3>1, <3>2 DEF Table!Promise!Next
  <2> QED
    BY <2>1, <2>2, <2>3, <2>4
<1> QED
  BY <1>1, <1>2, ContainerSteps

\* What TableInv says of the keys.
LEMMA TableSound == TableInv => Table!OneNodePerKey
<1> SUFFICES ASSUME TableInv PROVE Table!OneNodePerKey
  OBVIOUS
<1>1. Table!Cardinality(Table!present) = Cardinality(Table!present)
  BY DEF Cardinality, Table!Cardinality
<1>2. PICK c \in Nat, l \in Nat : c = Cardinality(Table!present) /\ l = len /\ c <= l
  BY FS_CardinalityType, TableConstants DEF TableInv
<1> QED
  BY <1>1, <1>2 DEF TableInv, TableBuckets, IsBucket, Table!OneNodePerKey
-----------------------------------------------------------------------------
(* Vec *)

\* What the proofs use of the constants.
LEMMA VectorConstants == StackCapacity \in Nat /\ StackCapacity > 0 /\ MaxSize \in Nat /\ Null \notin Contents
  BY RoutinesAssumption DEF ContainersAssumption, Vector!VecAssumption

Cells == Contents \cup {Null}

(***************************************************************************)
(* With no more than N elements there is no array on the heap, and the     *)
(* cells before vec_size, wherever they are, hold elements.                *)
(***************************************************************************)
VectorInv ==
    /\ vec_size \in Nat /\ vec_capacity \in Nat
    /\ vec_size <= vec_capacity /\ StackCapacity <= vec_capacity
    /\ stack_vec \in [1 .. StackCapacity -> Cells]
    /\ vec_size <= StackCapacity => heap_vec = <<>> /\ vec_capacity = StackCapacity
    /\ vec_size > StackCapacity => heap_vec \in [1 .. vec_capacity -> Cells]
    /\ \A i \in 1 .. vec_size : Vector!Storage[i] \in Contents

VectorList == SubSeq(Vector!Storage, 1, vec_size)

\* The first n cells of an array, all of them written, are a sequence.
LEMMA FirstCells ==
    ASSUME NEW a, NEW n \in Nat, \A i \in 1 .. n : a[i] \in Contents
    PROVE  /\ SubSeq(a, 1, n) \in Seq(Contents) /\ Len(SubSeq(a, 1, n)) = n
           /\ \A i \in 1 .. n : SubSeq(a, 1, n)[i] = a[i]
<1>1. 1 \in Int /\ n \in Int
  OBVIOUS
<1>2. /\ SubSeq(a, 1, n) \in Seq(Contents)
      /\ Len(SubSeq(a, 1, n)) = IF 1 <= n THEN n - 1 + 1 ELSE 0
      /\ \A i \in 1 .. n - 1 + 1 : SubSeq(a, 1, n)[i] = a[1 + i - 1]
  BY <1>1, SubSeqProperties
<1>3. n - 1 + 1 = n /\ (IF 1 <= n THEN n - 1 + 1 ELSE 0) = n /\ \A i \in 1 .. n : 1 + i - 1 = i
  OBVIOUS
<1> QED
  BY <1>2, <1>3

\* One cell more is one element more at the end.
LEMMA CellAppended ==
    ASSUME NEW a, NEW b, NEW n \in Nat, NEW e \in Contents, \A i \in 1 .. n : a[i] \in Contents,
           \A i \in 1 .. n : b[i] = a[i], b[n + 1] = e
    PROVE  SubSeq(b, 1, n + 1) = Append(SubSeq(a, 1, n), e)
<1>1. PICK s : s = SubSeq(a, 1, n)
  OBVIOUS
<1>2. s \in Seq(Contents) /\ Len(s) = n /\ \A i \in 1 .. n : s[i] = a[i]
  BY <1>1, FirstCells
<1>3. PICK t : t = SubSeq(b, 1, n + 1)
  OBVIOUS
<1>4. t \in Seq(Contents) /\ Len(t) = n + 1 /\ \A i \in 1 .. n + 1 : t[i] = b[i]
  <2>1. n + 1 \in Nat /\ \A i \in 1 .. n + 1 : b[i] \in Contents
    <3>1. \A i \in 1 .. n + 1 : i \in 1 .. n \/ i = n + 1
      OBVIOUS
    <3> QED
      BY <3>1
  <2> QED
    BY <1>3, <2>1, FirstCells
<1>5. PICK u : u = Append(s, e)
  OBVIOUS
<1>6. u \in Seq(Contents) /\ Len(u) = n + 1 /\ (\A i \in 1 .. n : u[i] = s[i]) /\ u[n + 1] = e
  BY <1>2, <1>5, AppendProperties
<1>7. \A i \in 1 .. n + 1 : t[i] = u[i]
  <2>1. ASSUME NEW i \in 1 .. n + 1 PROVE t[i] = u[i]
    <3>1. CASE i \in 1 .. n
      BY <1>2, <1>4, <1>6, <3>1
    <3>2. CASE i = n + 1
      BY <1>4, <1>6, <3>2
    <3> QED
      BY <3>1, <3>2
  <2> QED
    BY <2>1
<1>8. t = u
  BY <1>4, <1>6, <1>7, SeqEqual
<1> QED
  BY <1>1, <1>3, <1>5, <1>8

\* One cell overwritten is one element with another value.
LEMMA CellSet ==
    ASSUME NEW a, NEW b, NEW n \in Nat, NEW e \in Contents, \A i \in 1 .. n : a[i] \in Contents,
           NEW j \in 1 .. n, \A i \in 1 .. n : i # j => b[i] = a[i], b[j] = e
    PROVE  /\ j \in DOMAIN SubSeq(a, 1, n)
           /\ SubSeq(b, 1, n) = [SubSeq(a, 1, n) EXCEPT ![j] = e]
<1>1. PICK s : s = SubSeq(a, 1, n)
  OBVIOUS
<1>2. s \in Seq(Contents) /\ Len(s) = n /\ \A i \in 1 .. n : s[i] = a[i]
  BY <1>1, FirstCells
<1>3. PICK t : t = SubSeq(b, 1, n)
  OBVIOUS
<1>4. t \in Seq(Contents) /\ Len(t) = n /\ \A i \in 1 .. n : t[i] = b[i]
  <2>1. \A i \in 1 .. n : b[i] \in Contents
    OBVIOUS
  <2> QED
    BY <1>3, <2>1, FirstCells
<1>5. PICK u : u = [s EXCEPT ![j] = e]
  OBVIOUS
<1>6. u \in Seq(Contents) /\ Len(u) = n /\ \A i \in 1 .. n : u[i] = IF i = j THEN e ELSE s[i]
  BY <1>2, <1>5, ExceptSeq
<1>7. t = u
  <2>1. \A i \in 1 .. n : t[i] = u[i]
    BY <1>2, <1>4, <1>6
  <2> QED
    BY <1>4, <1>6, <2>1, SeqEqual
<1>8. j \in DOMAIN s
  BY <1>2
<1> QED
  BY <1>1, <1>3, <1>5, <1>7, <1>8

\* The vector is empty at first.
LEMMA InitVector == Init => VectorInv /\ Vector!Promise!Init
<1> SUFFICES ASSUME Init PROVE VectorInv /\ Vector!Promise!Init
  OBVIOUS
<1>1. /\ stack_vec = [i \in 1 .. StackCapacity |-> Null]
      /\ heap_vec = <<>> /\ vec_size = 0 /\ vec_capacity = StackCapacity
  BY DEF Init, ContainersInit, Vector!Init
<1>2. VectorInv
  BY <1>1, VectorConstants DEF VectorInv, Cells
<1>3. SubSeq(Vector!Storage, 1, 0) = <<>>
  BY SubSeqEmpty
<1> QED
  BY <1>1, <1>2, <1>3 DEF Vector!Promise!Init

\* emplace_back while there is room in the object.
LEMMA VectorOnStack ==
    ASSUME VectorInv, NEW e \in Contents, Vector!EmplaceOnStack(e)
    PROVE  VectorInv' /\ VectorList' = Append(VectorList, e)
<1>1. PICK n \in Nat : n = vec_size /\ n < StackCapacity /\ n + 1 <= StackCapacity
  BY VectorConstants DEF VectorInv, Vector!EmplaceOnStack
<1>2. /\ stack_vec' = [stack_vec EXCEPT ![n + 1] = e] /\ vec_size' = n + 1
      /\ heap_vec' = heap_vec /\ vec_capacity' = vec_capacity
  BY <1>1 DEF Vector!EmplaceOnStack
<1>3. /\ stack_vec \in [1 .. StackCapacity -> Cells] /\ heap_vec = <<>> /\ vec_capacity = StackCapacity
      /\ Vector!Storage = stack_vec /\ \A i \in 1 .. n : stack_vec[i] \in Contents
  BY <1>1, VectorConstants DEF VectorInv, Vector!Storage
<1>4. /\ stack_vec' \in [1 .. StackCapacity -> Cells]
      /\ stack_vec'[n + 1] = e /\ \A i \in 1 .. n : stack_vec'[i] = stack_vec[i]
  <2>1. n + 1 \in 1 .. StackCapacity /\ e \in Cells /\ \A i \in 1 .. n : i # n + 1 /\ i \in 1 .. StackCapacity
    BY <1>1, VectorConstants DEF Cells
  <2> QED
    BY <1>2, <1>3, <2>1
<1>5. Vector!Storage' = stack_vec'
  BY <1>1, <1>2, VectorConstants DEF Vector!Storage
<1>6. VectorList' = Append(VectorList, e)
  BY <1>1, <1>2, <1>3, <1>4, <1>5, CellAppended DEF VectorList
<1>7. \A i \in 1 .. n + 1 : stack_vec'[i] \in Contents
  <2>1. \A i \in 1 .. n + 1 : i \in 1 .. n \/ i = n + 1
    OBVIOUS
  <2> QED
    BY <1>3, <1>4, <2>1
<1>8. VectorInv'
  BY <1>1, <1>2, <1>3, <1>4, <1>5, <1>7, VectorConstants DEF VectorInv
<1> QED
  BY <1>6, <1>8

\* emplace_back to the array on the heap, which may grow first.
LEMMA VectorOnHeap ==
    ASSUME VectorInv, NEW e \in Contents, Vector!EmplaceOnHeap(e)
    PROVE  VectorInv' /\ VectorList' = Append(VectorList, e)
<1>1. PICK n \in Nat, c \in Nat : n = vec_size /\ c = vec_capacity /\ n <= c /\ StackCapacity <= n
  BY VectorConstants DEF VectorInv, Vector!EmplaceOnHeap
<1>2. PICK g : g = IF n = c THEN Vector!Grown ELSE heap_vec
  OBVIOUS
<1>3. PICK d \in Nat : d = IF n = c THEN 2 * c ELSE c
  OBVIOUS
<1>4. /\ vec_capacity' = d /\ heap_vec' = [g EXCEPT ![n + 1] = e] /\ vec_size' = n + 1
      /\ stack_vec' = stack_vec
  BY <1>1, <1>2, <1>3 DEF Vector!EmplaceOnHeap
<1>5. n + 1 <= d /\ StackCapacity <= d /\ StackCapacity < n + 1
  BY <1>1, <1>3, VectorConstants
<1>6. \A i \in 1 .. n : Vector!Storage[i] \in Contents
  BY <1>1 DEF VectorInv
<1>7. g \in [1 .. d -> Cells] /\ \A i \in 1 .. n : g[i] = Vector!Storage[i]
  <2>1. CASE n = c
    <3>1. Vector!Grown = [i \in 1 .. 2 * c |->
              IF i > n THEN Null ELSE IF n = StackCapacity THEN stack_vec[i] ELSE heap_vec[i]]
      BY <1>1 DEF Vector!Grown
    <3>2. \A i \in 1 .. n :
              (IF n = StackCapacity THEN stack_vec[i] ELSE heap_vec[i]) = Vector!Storage[i]
      BY <1>1, VectorConstants DEF Vector!Storage
    <3>3. g = [i \in 1 .. d |->
              IF i > n THEN Null ELSE IF n = StackCapacity THEN stack_vec[i] ELSE heap_vec[i]]
      BY <1>2, <1>3, <2>1, <3>1
    <3>4. \A i \in 1 .. d : i > n \/ i \in 1 .. n
      BY <1>1
    <3>5. \A i \in 1 .. n : i \in 1 .. d /\ ~(i > n)
      BY <1>5
    <3>6. \A i \in 1 .. n : g[i] = Vector!Storage[i]
      BY <3>2, <3>3, <3>5
    <3>7. \A i \in 1 .. d : g[i] \in Cells
      <4>1. ASSUME NEW i \in 1 .. d PROVE g[i] \in Cells
        <5>1. CASE i > n
          BY <3>3, <5>1 DEF Cells
        <5>2. CASE i \in 1 .. n
          BY <1>6, <3>6, <5>2 DEF Cells
        <5> QED
          BY <3>4, <5>1, <5>2
      <4> QED
        BY <4>1
    <3> QED
      BY <3>3, <3>6, <3>7
  <2>2. CASE n # c
    <3>1. n > StackCapacity
      BY <1>1, <2>2, VectorConstants DEF VectorInv
    <3>2. heap_vec \in [1 .. c -> Cells] /\ Vector!Storage = heap_vec
      BY <1>1, <3>1, VectorConstants DEF VectorInv, Vector!Storage
    <3> QED
      BY <1>2, <1>3, <2>2, <3>2
  <2> QED
    BY <2>1, <2>2
<1>8. /\ heap_vec' \in [1 .. d -> Cells]
      /\ heap_vec'[n + 1] = e /\ \A i \in 1 .. n : heap_vec'[i] = g[i]
  <2>1. n + 1 \in 1 .. d /\ e \in Cells /\ \A i \in 1 .. n : i # n + 1 /\ i \in 1 .. d
    BY <1>5 DEF Cells
  <2> QED
    BY <1>4, <1>7, <2>1
<1>9. Vector!Storage' = heap_vec'
  BY <1>4, <1>5, VectorConstants DEF Vector!Storage
<1>10. VectorList' = Append(VectorList, e)
  <2>1. \A i \in 1 .. n : heap_vec'[i] = Vector!Storage[i]
    BY <1>7, <1>8
  <2>2. SubSeq(heap_vec', 1, n + 1) = Append(SubSeq(Vector!Storage, 1, n), e)
    BY <1>6, <1>8, <2>1, CellAppended
  <2> QED
    BY <1>1, <1>4, <1>9, <2>2 DEF VectorList
<1>11. \A i \in 1 .. n + 1 : heap_vec'[i] \in Contents
  <2>1. \A i \in 1 .. n + 1 : i \in 1 .. n \/ i = n + 1
    OBVIOUS
  <2> QED
    BY <1>6, <1>7, <1>8, <2>1
<1>12. VectorInv'
  <2>1. stack_vec \in [1 .. StackCapacity -> Cells]
    BY DEF VectorInv
  <2>2. n + 1 \in Nat /\ d \in Nat /\ ~(n + 1 <= StackCapacity) /\ n + 1 > StackCapacity
    BY <1>1, <1>5, VectorConstants
  <2> QED
    BY <1>4, <1>5, <1>8, <1>9, <1>11, <2>1, <2>2 DEF VectorInv
<1> QED
  BY <1>10, <1>12

\* An assignment through operator[].
LEMMA VectorSets ==
    ASSUME VectorInv, NEW e \in Contents, NEW j, Vector!Set(j, e)
    PROVE  VectorInv' /\ j \in DOMAIN VectorList /\ VectorList' = [VectorList EXCEPT ![j] = e]
<1>1. PICK n \in Nat, c \in Nat : n = vec_size /\ c = vec_capacity /\ n <= c
  BY DEF VectorInv
<1>2. j \in 1 .. n /\ vec_size' = n /\ vec_capacity' = c
  BY <1>1 DEF Vector!Set
<1>3. PICK a : a = Vector!Storage
  OBVIOUS
<1>4. \A i \in 1 .. n : a[i] \in Contents
  BY <1>1, <1>3 DEF VectorInv
<1>5. PICK b : b = [a EXCEPT ![j] = e]
  OBVIOUS
<1>6. CASE n <= StackCapacity
  <2>1. /\ a = stack_vec /\ stack_vec' = b /\ heap_vec' = heap_vec
        /\ heap_vec = <<>> /\ c = StackCapacity /\ a \in [1 .. StackCapacity -> Cells]
    BY <1>1, <1>3, <1>5, <1>6, VectorConstants DEF VectorInv, Vector!Set, Vector!Storage
  <2>2. j \in 1 .. StackCapacity /\ \A i \in 1 .. n : i \in 1 .. StackCapacity
    BY <1>2, <1>6, VectorConstants
  <2>3. b \in [1 .. StackCapacity -> Cells] /\ b[j] = e /\ \A i \in 1 .. n : i # j => b[i] = a[i]
    BY <1>5, <2>1, <2>2 DEF Cells
  <2>4. Vector!Storage' = b
    BY <1>2, <1>6, <2>1 DEF Vector!Storage
  <2>5. \A i \in 1 .. n : b[i] \in Contents
    BY <1>4, <2>3
  <2>6. VectorInv'
    BY <1>1, <1>2, <1>6, <2>1, <2>3, <2>4, <2>5, VectorConstants DEF VectorInv
  <2>7. j \in DOMAIN SubSeq(a, 1, n) /\ SubSeq(b, 1, n) = [SubSeq(a, 1, n) EXCEPT ![j] = e]
    BY <1>2, <1>4, <2>3, CellSet
  <2> QED
    BY <1>1, <1>2, <1>3, <2>4, <2>6, <2>7 DEF VectorList
<1>7. CASE ~(n <= StackCapacity)
  <2>0. n > StackCapacity
    BY <1>7, VectorConstants
  <2>1. /\ a = heap_vec /\ heap_vec' = b /\ stack_vec' = stack_vec
        /\ a \in [1 .. c -> Cells]
    BY <1>1, <1>3, <1>5, <1>7, <2>0 DEF VectorInv, Vector!Set, Vector!Storage
  <2>2. j \in 1 .. c /\ \A i \in 1 .. n : i \in 1 .. c
    BY <1>1, <1>2
  <2>3. b \in [1 .. c -> Cells] /\ b[j] = e /\ \A i \in 1 .. n : i # j => b[i] = a[i]
    BY <1>5, <2>1, <2>2 DEF Cells
  <2>4. Vector!Storage' = b
    BY <1>2, <1>7, <2>1 DEF Vector!Storage
  <2>5. \A i \in 1 .. n : b[i] \in Contents
    BY <1>4, <2>3
  <2>6. VectorInv'
    BY <1>1, <1>2, <1>7, <2>1, <2>3, <2>4, <2>5, VectorConstants DEF VectorInv
  <2>7. j \in DOMAIN SubSeq(a, 1, n) /\ SubSeq(b, 1, n) = [SubSeq(a, 1, n) EXCEPT ![j] = e]
    BY <1>2, <1>4, <2>3, CellSet
  <2> QED
    BY <1>1, <1>2, <1>3, <2>4, <2>6, <2>7 DEF VectorList
<1> QED
  BY <1>6, <1>7

\* Every step of the program keeps the vector in order and its promise.
LEMMA NextVector ==
    ASSUME VectorInv, [Next]_allVars
    PROVE  VectorInv' /\ [Vector!Promise!Next]_VectorList
<1>1. CASE UNCHANGED vectorVars
  BY <1>1 DEF vectorVars, VectorInv, VectorList, Vector!Storage
<1>2. CASE Vector!Next
  <2>1. PICK e \in Contents : \/ Vector!EmplaceOnStack(e) \/ Vector!EmplaceOnHeap(e)
                              \/ \E i \in 1 .. MaxSize : Vector!Set(i, e)
    BY <1>2 DEF Vector!Next
  <2>2. ASSUME Vector!EmplaceOnStack(e) \/ Vector!EmplaceOnHeap(e)
        PROVE  VectorInv' /\ [Vector!Promise!Next]_VectorList
    <3>1. VectorInv' /\ VectorList' = Append(VectorList, e)
      BY <2>2, VectorOnStack, VectorOnHeap
    <3>2. Vector!Promise!PushBack
      BY <3>1 DEF Vector!Promise!PushBack, VectorList
    <3> QED
      BY <3>1, <3>2 DEF Vector!Promise!Next
  <2>3. ASSUME NEW i, Vector!Set(i, e)
        PROVE  VectorInv' /\ [Vector!Promise!Next]_VectorList
    <3>1. VectorInv' /\ i \in DOMAIN VectorList /\ VectorList' = [VectorList EXCEPT ![i] = e]
      BY <2>3, VectorSets
    <3>2. Vector!Promise!Set
      BY <3>1 DEF Vector!Promise!Set, VectorList
    <3> QED
      BY <3>1, <3>2 DEF Vector!Promise!Next
  <2> QED
    BY <2>1, <2>2, <2>3
<1> QED
  BY <1>1, <1>2, ContainerSteps

\* What VectorInv says of the types.
LEMMA VectorTyped == VectorInv => Vector!TypeOK
<1> SUFFICES ASSUME VectorInv PROVE Vector!TypeOK
  OBVIOUS
<1>1. heap_vec = <<>> \/ heap_vec \in [1 .. vec_capacity -> Contents \cup {Null}]
  BY VectorConstants DEF VectorInv, Cells
<1>2. vec_size \in 0 .. vec_capacity
  BY DEF VectorInv
<1> QED
  BY <1>1, <1>2 DEF VectorInv, Cells, Vector!TypeOK
-----------------------------------------------------------------------------
(* MiniSort *)

\* What the proofs use of the constants.
LEMMA SortConstants == ArraySize \in Nat /\ ArraySize > 0 /\ Numbers \subseteq Int /\ Numbers # {}
  BY RoutinesAssumption DEF ContainersAssumption, Sort!SortAssumption

\* b is a with two elements exchanged; how often v is in a.
Exchanged(a, b, x, y) ==
    /\ DOMAIN b = DOMAIN a /\ x \in DOMAIN a /\ y \in DOMAIN a
    /\ b[x] = a[y] /\ b[y] = a[x] /\ \A i \in DOMAIN a : i # x /\ i # y => b[i] = a[i]
Count(a, v) == Cardinality({i \in DOMAIN a : a[i] = v})

\* An exchange leaves every number as often as it was.
LEMMA ExchangeCounts ==
    ASSUME NEW a, NEW b, NEW x, NEW y, Exchanged(a, b, x, y), IsFiniteSet(DOMAIN a), NEW v
    PROVE  Count(b, v) = Count(a, v)
<1> DEFINE S == {i \in DOMAIN a : a[i] = v}
           T == {i \in DOMAIN b : b[i] = v}
           other(i) == IF i = x THEN y ELSE IF i = y THEN x ELSE i
           f == [i \in S |-> other(i)]
<1>1. IsFiniteSet(S)
  BY FS_Subset
<1>2. \A i \in DOMAIN a : other(i) \in DOMAIN a /\ b[other(i)] = a[i] /\ a[other(i)] = b[i]
  BY DEF Exchanged
<1>3. DOMAIN b = DOMAIN a
  BY DEF Exchanged
<1>4. f \in [S -> T]
  BY <1>2, <1>3
<1>5. \A i, j \in S : f[i] = f[j] => i = j
  OBVIOUS
<1>6. \A t \in T : \E s \in S : f[s] = t
  <2>1. ASSUME NEW t \in T PROVE \E s \in S : f[s] = t
    <3>1. other(t) \in S /\ other(other(t)) = t
      BY <1>2, <1>3
    <3> QED
      BY <3>1
  <2> QED
    BY <2>1
<1>7. f \in Bijection(S, T)
  BY <1>4, <1>5, <1>6 DEF Bijection, Injection, IsInjective, Surjection
<1>8. Cardinality(T) = Cardinality(S)
  BY <1>1, <1>7, FS_Bijection DEF ExistsBijection
<1> QED
  BY <1>8 DEF Count

\* The calls not finished are for nonempty ranges one after the other, of which i and j
\* are in one.
Ranges(p) ==
    /\ p \in Seq((0 .. ArraySize) \X (0 .. ArraySize))
    /\ \A a \in DOMAIN p : p[a][1] < p[a][2]
    /\ \A a, b \in DOMAIN p : a < b => p[a][2] <= p[b][1]
Covered(p, i, j) == \E a \in DOMAIN p : p[a][1] <= i /\ j < p[a][2]
SplitAt(p, m) == <<<<p[1][1], m>>, <<m, p[1][2]>>>> \o Tail(p)

\* What a range is.
LEMMA RangeBounds ==
    ASSUME NEW p, Ranges(p)
    PROVE  /\ Len(p) \in Nat /\ DOMAIN p = 1 .. Len(p)
           /\ \A a \in DOMAIN p : /\ p[a] \in (0 .. ArraySize) \X (0 .. ArraySize)
                                  /\ p[a][1] \in 0 .. ArraySize /\ p[a][2] \in 0 .. ArraySize
           /\ p # <<>> => 1 \in DOMAIN p
<1>1. Len(p) \in Nat /\ DOMAIN p = 1 .. Len(p) /\ (p # <<>> => Len(p) # 0)
  BY EmptySeq DEF Ranges
<1>2. \A a \in 1 .. Len(p) : p[a] \in (0 .. ArraySize) \X (0 .. ArraySize)
  BY DEF Ranges
<1> QED
  BY <1>1, <1>2

\* The first call returns.
LEMMA RangesTail ==
    ASSUME NEW p, Ranges(p), p # <<>>
    PROVE  /\ Ranges(Tail(p))
           /\ \A i, j : Covered(p, i, j) <=> (p[1][1] <= i /\ j < p[1][2]) \/ Covered(Tail(p), i, j)
<1> DEFINE R == (0 .. ArraySize) \X (0 .. ArraySize)
<1>1. PICK q : q = Tail(p)
  OBVIOUS
<1>2. PICK n \in Nat : n + 1 = Len(p) /\ p \in Seq(R)
  <2>1. p \in Seq(R)
    BY DEF Ranges
  <2>2. Len(p) \in Nat /\ Len(p) # 0
    BY <2>1, EmptySeq
  <2>3. Len(p) - 1 \in Nat /\ (Len(p) - 1) + 1 = Len(p)
    BY <2>2
  <2> QED
    BY <2>1, <2>3
<1>3. q \in Seq(R) /\ Len(q) = n /\ \A a \in 1 .. n : q[a] = p[a + 1]
  BY <1>1, <1>2, HeadTailProperties
<1>4. DOMAIN p = 1 .. n + 1 /\ DOMAIN q = 1 .. n
  BY <1>2, <1>3
<1>5. \A a \in 1 .. n : a + 1 \in 1 .. n + 1 /\ 1 < a + 1
  OBVIOUS
<1>6. \A a \in 1 .. n : q[a] = p[a + 1] /\ a + 1 \in DOMAIN p
  BY <1>3, <1>4, <1>5
<1>7. Ranges(q)
  <2>1. ASSUME NEW a \in 1 .. n, NEW b \in 1 .. n, a < b PROVE q[a][2] <= q[b][1]
    <3>1. a + 1 < b + 1
      BY <2>1
    <3> QED
      BY <1>6, <3>1 DEF Ranges
  <2>2. ASSUME NEW a \in 1 .. n PROVE q[a][1] < q[a][2]
    BY <1>6 DEF Ranges
  <2> QED
    BY <1>3, <1>4, <2>1, <2>2 DEF Ranges
<1>8. ASSUME NEW i, NEW j PROVE Covered(p, i, j) <=> (p[1][1] <= i /\ j < p[1][2]) \/ Covered(q, i, j)
  <2>1. ASSUME NEW a \in DOMAIN p, p[a][1] <= i /\ j < p[a][2], a # 1 PROVE Covered(q, i, j)
    <3>1. a - 1 \in 1 .. n /\ (a - 1) + 1 = a
      BY <1>4, <2>1
    <3> QED
      BY <1>4, <1>6, <2>1, <3>1 DEF Covered
  <2>2. ASSUME NEW a \in DOMAIN q, q[a][1] <= i /\ j < q[a][2] PROVE Covered(p, i, j)
    BY <1>4, <1>6, <2>2 DEF Covered
  <2>3. 1 \in DOMAIN p
    BY <1>4
  <2> QED
    BY <2>1, <2>2, <2>3 DEF Covered
<1> QED
  BY <1>1, <1>7, <1>8

\* The first call makes two of its range.
LEMMA RangesSplit ==
    ASSUME NEW p, Ranges(p), p # <<>>, NEW m \in Nat, p[1][1] < m, m < p[1][2]
    PROVE  /\ Ranges(SplitAt(p, m))
           /\ \A i, j : Covered(SplitAt(p, m), i, j) <=> \/ p[1][1] <= i /\ j < m
                                                         \/ m <= i /\ j < p[1][2]
                                                         \/ Covered(Tail(p), i, j)
<1> DEFINE R == (0 .. ArraySize) \X (0 .. ArraySize)
<1>1. PICK q : q = Tail(p)
  OBVIOUS
<1>2. PICK n \in Nat : n + 1 = Len(p) /\ p \in Seq(R)
  <2>1. p \in Seq(R)
    BY DEF Ranges
  <2>2. Len(p) \in Nat /\ Len(p) # 0
    BY <2>1, EmptySeq
  <2>3. Len(p) - 1 \in Nat /\ (Len(p) - 1) + 1 = Len(p)
    BY <2>2
  <2> QED
    BY <2>1, <2>3
<1>3. q \in Seq(R) /\ Len(q) = n /\ \A a \in 1 .. n : q[a] = p[a + 1]
  BY <1>1, <1>2, HeadTailProperties
<1>4. DOMAIN p = 1 .. n + 1 /\ DOMAIN q = 1 .. n
  BY <1>2, <1>3
<1>5. PICK b \in 0 .. ArraySize, e \in 0 .. ArraySize : p[1] = <<b, e>> /\ p[1][1] = b /\ p[1][2] = e
  <2>1. p[1] \in R
    BY <1>4, RangeBounds
  <2> QED
    BY <2>1
<1>6. PICK s : s = <<<<b, m>>, <<m, e>>>>
  OBVIOUS
<1>7. s \in Seq(R) /\ Len(s) = 2 /\ s[1] = <<b, m>> /\ s[2] = <<m, e>>
  <2>1. m \in 0 .. ArraySize
    BY <1>5, SortConstants
  <2>2. <<b, m>> \in R /\ <<m, e>> \in R
    BY <1>5, <2>1
  <2> QED
    BY <1>6, <2>2
<1>8. PICK t : t = s \o q
  OBVIOUS
<1>9. t = SplitAt(p, m)
  BY <1>1, <1>5, <1>6, <1>8 DEF SplitAt
<1>10. /\ t \in Seq(R) /\ DOMAIN t = 1 .. 2 + n /\ t[1] = <<b, m>> /\ t[2] = <<m, e>>
       /\ \A a \in 1 .. n : t[a + 2] = q[a]
  <2>1. /\ t \in Seq(R) /\ Len(t) = Len(s) + Len(q)
        /\ \A a \in 1 .. Len(s) + Len(q) : t[a] = IF a <= Len(s) THEN s[a] ELSE q[a - Len(s)]
    BY <1>3, <1>7, <1>8, ConcatProperties
  <2>2. Len(t) = 2 + n /\ \A a \in 1 .. 2 + n : t[a] = IF a <= 2 THEN s[a] ELSE q[a - 2]
    BY <1>3, <1>7, <2>1
  <2>3. 1 \in 1 .. 2 + n /\ 2 \in 1 .. 2 + n /\ 1 <= 2 /\ 2 <= 2
    OBVIOUS
  <2>4. ASSUME NEW a \in 1 .. n PROVE t[a + 2] = q[a]
    <3>1. a + 2 \in 1 .. 2 + n /\ ~(a + 2 <= 2) /\ a + 2 - 2 = a
      OBVIOUS
    <3> QED
      BY <2>2, <3>1
  <2>5. DOMAIN t = 1 .. 2 + n
    BY <2>1, <2>2
  <2>6. t[1] = s[1] /\ t[2] = s[2]
    BY <2>2, <2>3
  <2> QED
    BY <1>7, <2>1, <2>4, <2>5, <2>6
<1>11. \A a \in 1 .. 2 + n : a = 1 \/ a = 2 \/ \E c \in 1 .. n : a = c + 2
  <2>1. ASSUME NEW a \in 1 .. 2 + n, a # 1, a # 2 PROVE \E c \in 1 .. n : a = c + 2
    <3>1. a - 2 \in 1 .. n /\ a = (a - 2) + 2
      BY <2>1
    <3> QED
      BY <3>1
  <2> QED
    BY <2>1
<1>12. Ranges(q)
  BY <1>1, RangesTail
<1>13. \A a \in 1 .. n : e <= q[a][1] /\ q[a][1] < q[a][2]
  <2>1. ASSUME NEW a \in 1 .. n PROVE e <= q[a][1]
    <3>1. 1 \in DOMAIN p /\ a + 1 \in DOMAIN p /\ 1 < a + 1 /\ q[a] = p[a + 1]
      BY <1>3, <1>4
    <3> QED
      BY <1>5, <3>1 DEF Ranges
  <2> QED
    BY <1>4, <1>12, <2>1 DEF Ranges
<1>14. t[1][1] = b /\ t[1][2] = m /\ t[2][1] = m /\ t[2][2] = e /\ b < m /\ m < e
  BY <1>5, <1>10
<1>15. \A a \in 1 .. n : q[a][1] \in Int /\ q[a][2] \in Int
  BY <1>4, <1>12, RangeBounds
<1>16. \A a \in DOMAIN t : t[a][1] < t[a][2]
  <2>1. \A c \in 1 .. n : t[c + 2][1] < t[c + 2][2]
    BY <1>10, <1>13
  <2>2. t[1][1] < t[1][2] /\ t[2][1] < t[2][2]
    BY <1>14
  <2> QED
    BY <1>10, <1>11, <2>1, <2>2
<1>17. \A a, c \in DOMAIN t : a < c => t[a][2] <= t[c][1]
  <2>1. ASSUME NEW a \in 1 .. n, NEW c \in 1 .. n, a + 2 < c + 2 PROVE t[a + 2][2] <= t[c + 2][1]
    <3>1. a < c
      BY <2>1
    <3>2. a \in DOMAIN q /\ c \in DOMAIN q
      BY <1>4
    <3>3. q[a][2] <= q[c][1]
      BY <1>12, <3>1, <3>2 DEF Ranges
    <3> QED
      BY <1>10, <3>3
  <2>2. ASSUME NEW c \in 1 .. n PROVE t[1][2] <= t[c + 2][1] /\ t[2][2] <= t[c + 2][1]
    <3>1. m <= q[c][1] /\ e <= q[c][1]
      BY <1>5, <1>13, <1>14, <1>15
    <3> QED
      BY <1>10, <1>14, <3>1
  <2>3. t[1][2] <= t[2][1]
    BY <1>14
  <2>4. ASSUME NEW a \in DOMAIN t, NEW c \in DOMAIN t, a < c PROVE t[a][2] <= t[c][1]
    <3>1. a \in 1 .. 2 + n /\ c \in 1 .. 2 + n
      BY <1>10
    <3>2. CASE a = 1 /\ c = 2
      BY <2>3, <3>2
    <3>3. ASSUME a = 1 \/ a = 2, NEW d \in 1 .. n, c = d + 2 PROVE t[a][2] <= t[c][1]
      BY <2>2, <3>3
    <3>4. ASSUME NEW d \in 1 .. n, a = d + 2, NEW f \in 1 .. n, c = f + 2 PROVE t[a][2] <= t[c][1]
      BY <2>1, <2>4, <3>4
    <3>5. CASE c = 1 \/ (a = 2 /\ c = 2) \/ \E d \in 1 .. n : a = d + 2 /\ c = 2
      BY <2>4, <3>1, <3>5
    <3> QED
      BY <1>11, <3>1, <3>2, <3>3, <3>4, <3>5
  <2> QED
    BY <2>4
<1>18. Ranges(t)
  BY <1>10, <1>16, <1>17 DEF Ranges
<1>19. ASSUME NEW i, NEW j
       PROVE  Covered(t, i, j) <=> (b <= i /\ j < m) \/ (m <= i /\ j < e) \/ Covered(q, i, j)
  <2>1. (b <= i /\ j < m) \/ (m <= i /\ j < e) => Covered(t, i, j)
    <3>1. 1 \in DOMAIN t /\ 2 \in DOMAIN t
      BY <1>10
    <3> QED
      BY <1>14, <3>1 DEF Covered
  <2>2. ASSUME NEW a \in DOMAIN q, q[a][1] <= i /\ j < q[a][2] PROVE Covered(t, i, j)
    <3>0. a \in 1 .. n /\ a + 2 \in 1 .. 2 + n
      BY <1>4
    <3>1. a + 2 \in DOMAIN t /\ t[a + 2] = q[a]
      BY <1>10, <3>0
    <3> QED
      BY <2>2, <3>1 DEF Covered
  <2>3. ASSUME NEW a \in DOMAIN t, t[a][1] <= i /\ j < t[a][2], a # 1, a # 2 PROVE Covered(q, i, j)
    <3>1. PICK c \in 1 .. n : a = c + 2
      BY <1>10, <1>11, <2>3
    <3> QED
      BY <1>4, <1>10, <2>3, <3>1 DEF Covered
  <2>4. ASSUME NEW a \in DOMAIN t, t[a][1] <= i /\ j < t[a][2]
        PROVE  (b <= i /\ j < m) \/ (m <= i /\ j < e) \/ Covered(q, i, j)
    BY <1>14, <2>3, <2>4
  <2> QED
    BY <2>1, <2>2, <2>4 DEF Covered
<1> QED
  BY <1>1, <1>5, <1>9, <1>18, <1>19

\* Where a scan of an array stops that has an element to stop at.
LEMMA ScanUp ==
    ASSUME NEW a, NEW v \in Int, NEW l \in Int, -1 <= l, NEW w \in Int, l < w, w < ArraySize,
           \A i \in l + 1 .. w : a[i] \in Int, a[w] >= v,
           NEW r, r = CHOOSE m \in l + 1 .. ArraySize : /\ m = ArraySize \/ a[m] >= v
                                                       /\ \A i \in l + 1 .. m - 1 : a[i] < v
    PROVE  /\ r \in l + 1 .. w /\ a[r] >= v
           /\ \A i \in l + 1 .. r - 1 : a[i] < v
<1> DEFINE I == {i \in l + 1 .. w : a[i] >= v}
<1>1. PICK m \in I : \A i \in I : m <= i
  <2>1. I \subseteq Nat /\ I # {}
    OBVIOUS
  <2> QED
    BY <2>1, LeastNat
<1>2. m \in l + 1 .. ArraySize /\ a[m] >= v /\ \A i \in l + 1 .. m - 1 : a[i] < v
  <2>1. ASSUME NEW i \in l + 1 .. m - 1 PROVE a[i] < v
    <3>1. i \in l + 1 .. w /\ ~(m <= i)
      BY <1>1
    <3>2. ~(a[i] >= v) /\ a[i] \in Int
      BY <1>1, <3>1
    <3> QED
      BY <3>2
  <2> QED
    BY <1>1, <2>1, SortConstants
<1>3. /\ r \in l + 1 .. ArraySize /\ (r = ArraySize \/ a[r] >= v)
      /\ \A i \in l + 1 .. r - 1 : a[i] < v
  BY <1>2
<1>4. r <= w
  <2>1. SUFFICES ASSUME ~(r <= w) PROVE FALSE
    OBVIOUS
  <2>2. w \in l + 1 .. r - 1 /\ a[w] \in Int
    BY <1>3, <2>1, SortConstants
  <2> QED
    BY <1>3, <2>2
<1> QED
  BY <1>3, <1>4, SortConstants

LEMMA ScanDown ==
    ASSUME NEW a, NEW v \in Int, NEW l \in Int, l <= ArraySize, NEW w \in Int, 0 <= w, w < l,
           \A i \in w .. l - 1 : a[i] \in Int, a[w] <= v,
           NEW r, r = CHOOSE m \in -1 .. l - 1 : /\ m = -1 \/ a[m] <= v
                                                /\ \A i \in m + 1 .. l - 1 : a[i] > v
    PROVE  /\ r \in w .. l - 1 /\ a[r] <= v
           /\ \A i \in r + 1 .. l - 1 : a[i] > v
<1> DEFINE I == {l - i : i \in {i \in w .. l - 1 : a[i] <= v}}
<1>1. PICK k \in I : \A i \in I : k <= i
  <2>1. I \subseteq Nat /\ I # {}
    OBVIOUS
  <2> QED
    BY <2>1, LeastNat
<1>0. PICK m \in w .. l - 1 : k = l - m /\ a[m] <= v
  BY <1>1
<1>2. m \in -1 .. l - 1 /\ a[m] <= v /\ \A i \in m + 1 .. l - 1 : a[i] > v
  <2>1. ASSUME NEW i \in m + 1 .. l - 1 PROVE a[i] > v
    <3>1. i \in w .. l - 1 /\ ~(k <= l - i)
      BY <1>0
    <3>2. ~(a[i] <= v) /\ a[i] \in Int
      BY <1>1, <3>1
    <3> QED
      BY <3>2
  <2> QED
    BY <1>0, <2>1
<1>3. /\ r \in -1 .. l - 1 /\ (r = -1 \/ a[r] <= v)
      /\ \A i \in r + 1 .. l - 1 : a[i] > v
  BY <1>2
<1>4. r >= w
  <2>1. SUFFICES ASSUME ~(r >= w) PROVE FALSE
    OBVIOUS
  <2>2. w \in r + 1 .. l - 1 /\ a[w] \in Int
    BY <1>3, <2>1
  <2> QED
    BY <1>3, <2>2
<1> QED
  BY <1>3, <1>4

First == pending[1][1]
Past == pending[1][2]

\* The running call has just begun its loop, is between two rounds, or has divided its range.
Opened == left = First - 1 /\ right = Past /\ First + 1 < Past /\ pivot = arr[First]
Between ==
    /\ First <= left /\ left < right /\ right < Past
    /\ \A k \in First .. left : arr[k] <= pivot
    /\ \A k \in right .. Past - 1 : arr[k] >= pivot
Parted ==
    /\ First <= right /\ right <= left /\ left < Past /\ right + 1 < Past
    /\ \A k \in First .. right : arr[k] <= pivot
    /\ \A k \in right + 1 .. Past - 1 : arr[k] >= pivot

SortTyped ==
    /\ arr \in [0 .. ArraySize - 1 -> Numbers] /\ input \in [0 .. ArraySize - 1 -> Numbers]
    /\ pivot \in Numbers /\ left \in -1 .. ArraySize /\ right \in -1 .. ArraySize
    /\ Ranges(pending)
SortCounts == \A v \in Numbers : Count(arr, v) = Count(input, v)
SortOrdered ==
    \A i, j \in 0 .. ArraySize - 1 : i < j => arr[i] <= arr[j] \/ Covered(pending, i, j)

(***************************************************************************)
(* Two elements that no call has together are in order, and what the loop  *)
(* of the running call has passed lies on its side of the pivot, which     *)
(* also keeps the scans inside the range.                                  *)
(***************************************************************************)
SortInv ==
    /\ SortTyped /\ SortCounts /\ SortOrdered
    /\ Sort!Idle \/ (pending # <<>> /\ (Opened \/ Between \/ Parted))

\* At first one call has the whole array.
LEMMA InitSort == Init => SortInv
<1> SUFFICES ASSUME Init PROVE SortInv
  OBVIOUS
<1>1. /\ input \in [0 .. ArraySize - 1 -> Numbers] /\ arr = input /\ pending = <<<<0, ArraySize>>>>
      /\ left = ArraySize /\ right = -1 /\ pivot = CHOOSE v \in Numbers : TRUE
  BY DEF Init, ContainersInit, Sort!Init
<1>2. pivot \in Numbers /\ -1 \in -1 .. ArraySize /\ ArraySize \in -1 .. ArraySize
  BY <1>1, SortConstants
<1>3. PICK s : s = <<0, ArraySize>>
  OBVIOUS
<1>4. s \in (0 .. ArraySize) \X (0 .. ArraySize) /\ s[1] = 0 /\ s[2] = ArraySize
  BY <1>3, SortConstants
<1>5. pending \in Seq((0 .. ArraySize) \X (0 .. ArraySize)) /\ DOMAIN pending = {1} /\ pending[1] = s
  BY <1>1, <1>3, <1>4
<1>6. Ranges(pending)
  BY <1>4, <1>5, SortConstants DEF Ranges
<1>7. SortOrdered
  BY <1>4, <1>5, SortConstants DEF SortOrdered, Covered
<1> QED
  BY <1>1, <1>2, <1>6, <1>7 DEF SortInv, SortTyped, SortCounts, Sort!Idle

\* What the running call is about.
LEMMA RunningCall ==
    ASSUME SortTyped, pending # <<>>
    PROVE  First \in 0 .. ArraySize /\ Past \in 0 .. ArraySize /\ First < Past
           /\ \A k \in First .. Past - 1 : k \in 0 .. ArraySize - 1 /\ arr[k] \in Int
<1>1. 1 \in DOMAIN pending
  BY RangeBounds DEF SortTyped
<1>2. First \in 0 .. ArraySize /\ Past \in 0 .. ArraySize /\ First < Past
  BY <1>1, RangeBounds DEF SortTyped, First, Past, Ranges
<1>3. ASSUME NEW k \in First .. Past - 1 PROVE k \in 0 .. ArraySize - 1
  BY <1>2, SortConstants
<1> QED
  BY <1>2, <1>3, SortConstants DEF SortTyped

\* A call with one element returns.
LEMMA SortReturns == SortInv /\ Sort!Return => SortInv'
<1> SUFFICES ASSUME SortInv, Sort!Return PROVE SortInv'
  OBVIOUS
<1>1. /\ Sort!Idle /\ pending # <<>> /\ First >= Past - 1 /\ pending' = Tail(pending)
      /\ input' = input /\ arr' = arr /\ left' = left /\ right' = right /\ pivot' = pivot
  BY DEF Sort!Return, Sort!begin, Sort!end, First, Past
<1>2. SortTyped'
  BY <1>1, RangesTail DEF SortInv, SortTyped
<1>3. SortCounts'
  BY <1>1 DEF SortInv, SortCounts, Count
<1>4. ASSUME NEW i \in 0 .. ArraySize - 1, NEW j \in 0 .. ArraySize - 1, i < j
      PROVE  arr[i] <= arr[j] \/ Covered(Tail(pending), i, j)
  <2>1. arr[i] <= arr[j] \/ Covered(pending, i, j)
    BY <1>4 DEF SortInv, SortOrdered
  <2>2. ~(First <= i /\ j < Past)
    BY <1>1, <1>4, RunningCall DEF SortInv
  <2> QED
    BY <1>1, <2>1, <2>2, RangesTail DEF SortInv, SortTyped, First, Past
<1> QED
  BY <1>1, <1>2, <1>3, <1>4 DEF SortInv, SortOrdered, Sort!Idle

\* A call with more begins its loop.
LEMMA SortStarts == SortInv /\ Sort!Start => SortInv'
<1> SUFFICES ASSUME SortInv, Sort!Start PROVE SortInv'
  OBVIOUS
<1>1. /\ pending # <<>> /\ First < Past - 1 /\ pending' = pending /\ input' = input /\ arr' = arr
      /\ left' = First - 1 /\ right' = Past /\ pivot' = arr[First]
  BY DEF Sort!Start, Sort!begin, Sort!end, Sort!Pivot, First, Past
<1>2. First \in 0 .. ArraySize /\ Past \in 0 .. ArraySize /\ First + 1 < Past /\ First \in 0 .. ArraySize - 1
  BY <1>1, RunningCall, SortConstants DEF SortInv
<1>3. First' = First /\ Past' = Past
  BY <1>1 DEF First, Past
<1>4. SortTyped'
  BY <1>1, <1>2, SortConstants DEF SortInv, SortTyped
<1> QED
  BY <1>1, <1>2, <1>3, <1>4 DEF SortInv, SortCounts, Count, SortOrdered, Opened

\* Where the scans of a round stop.
LEMMA RoundScans ==
    ASSUME SortInv, ~Sort!Idle, left < right, NEW x, x = Sort!NextLeft, NEW y, y = Sort!NextRight
    PROVE  /\ x \in First .. Past - 1 /\ y \in First .. Past - 1 /\ (x < y \/ y + 1 < Past)
           /\ arr[x] >= pivot /\ arr[y] <= pivot
           /\ \A k \in First .. x - 1 : arr[k] <= pivot
           /\ \A k \in y + 1 .. Past - 1 : arr[k] >= pivot
<1>1. SortTyped /\ pending # <<>> /\ (Opened \/ Between)
  BY DEF SortInv, Parted, SortTyped
<1>2. PICK b \in 0 .. ArraySize, e \in 0 .. ArraySize : b = First /\ e = Past /\ b < e
  BY <1>1, RunningCall
<1>3. \A k \in b .. e - 1 : k \in 0 .. ArraySize - 1 /\ arr[k] \in Int
  BY <1>1, <1>2, RunningCall
<1>4. PICK l \in Int, r \in Int, v \in Int : l = left /\ r = right /\ v = pivot
  BY <1>1, SortConstants DEF SortTyped
<1>5. x = CHOOSE m \in l + 1 .. ArraySize : /\ m = ArraySize \/ arr[m] >= v
                                           /\ \A i \in l + 1 .. m - 1 : arr[i] < v
  BY <1>4 DEF Sort!NextLeft
<1>6. y = CHOOSE m \in -1 .. r - 1 : /\ m = -1 \/ arr[m] <= v
                                    /\ \A i \in m + 1 .. r - 1 : arr[i] > v
  BY <1>4 DEF Sort!NextRight
<1>7. CASE Opened
  <2>1. l = b - 1 /\ r = e /\ b + 1 < e /\ v = arr[b]
    BY <1>2, <1>4, <1>7 DEF Opened
  <2>2. l + 1 = b /\ -1 <= l /\ l < b /\ b < ArraySize /\ (\A i \in l + 1 .. b : arr[i] \in Int) /\ arr[b] >= v
    BY <1>2, <1>3, <2>1, SortConstants
  <2>3. x \in l + 1 .. b /\ arr[x] >= v /\ \A i \in l + 1 .. x - 1 : arr[i] < v
    BY <1>2, <1>5, <2>2, ScanUp
  <2>4. r <= ArraySize /\ 0 <= b /\ b < r /\ (\A i \in b .. r - 1 : arr[i] \in Int) /\ arr[b] <= v
    BY <1>2, <1>3, <2>1
  <2>5. y \in b .. r - 1 /\ arr[y] <= v /\ \A i \in y + 1 .. r - 1 : arr[i] > v
    BY <1>2, <1>6, <2>4, ScanDown
  <2>6. x = b
    BY <2>2, <2>3
  <2>7. x \in b .. e - 1 /\ y \in b .. e - 1 /\ (x < y \/ y + 1 < e)
    BY <1>2, <2>1, <2>5, <2>6
  <2>8. \A k \in b .. x - 1 : arr[k] <= v
    BY <2>6
  <2>9. \A k \in y + 1 .. e - 1 : arr[k] >= v
    BY <1>3, <2>1, <2>5, <2>7
  <2> QED
    BY <1>2, <1>4, <2>3, <2>5, <2>7, <2>8, <2>9
<1>8. CASE Between
  <2>1. /\ b <= l /\ l < r /\ r < e
        /\ \A k \in b .. l : arr[k] <= v
        /\ \A k \in r .. e - 1 : arr[k] >= v
    BY <1>2, <1>4, <1>8 DEF Between
  <2>2. -1 <= l /\ r < ArraySize /\ (\A i \in l + 1 .. r : arr[i] \in Int) /\ arr[r] >= v
    BY <1>2, <1>3, <2>1, SortConstants
  <2>3. x \in l + 1 .. r /\ arr[x] >= v /\ \A i \in l + 1 .. x - 1 : arr[i] < v
    BY <1>5, <2>1, <2>2, ScanUp
  <2>4. r <= ArraySize /\ 0 <= l /\ (\A i \in l .. r - 1 : arr[i] \in Int) /\ arr[l] <= v
    <3>1. r <= ArraySize /\ 0 <= l /\ l \in b .. l
      BY <1>2, <2>1, SortConstants
    <3>2. \A i \in l .. r - 1 : i \in b .. e - 1
      BY <2>1
    <3> QED
      BY <1>3, <2>1, <3>1, <3>2
  <2>5. y \in l .. r - 1 /\ arr[y] <= v /\ \A i \in y + 1 .. r - 1 : arr[i] > v
    BY <1>6, <2>1, <2>4, ScanDown
  <2>7. x \in b .. e - 1 /\ y \in b .. e - 1 /\ y + 1 < e
    BY <1>2, <2>1, <2>3, <2>5
  <2>8. ASSUME NEW k \in b .. x - 1 PROVE arr[k] <= v
    <3>1. k \in b .. l \/ k \in l + 1 .. x - 1
      BY <2>7
    <3>2. k \in b .. e - 1
      BY <2>7
    <3> QED
      BY <1>3, <2>1, <2>3, <3>1, <3>2
  <2>9. ASSUME NEW k \in y + 1 .. e - 1 PROVE arr[k] >= v
    <3>1. k \in y + 1 .. r - 1 \/ k \in r .. e - 1
      BY <2>7
    <3>2. k \in b .. e - 1
      BY <2>7
    <3> QED
      BY <1>3, <2>1, <2>5, <3>1, <3>2
  <2> QED
    BY <1>2, <1>4, <2>3, <2>5, <2>7, <2>8, <2>9
<1> QED
  BY <1>1, <1>7, <1>8

\* What an exchange within the range of the running call does to the order.
LEMMA ExchangeOrdered ==
    ASSUME SortTyped, SortOrdered, pending # <<>>, NEW x \in First .. Past - 1, NEW y \in First .. Past - 1,
           NEW t, Exchanged(arr, t, x, y),
           NEW i \in 0 .. ArraySize - 1, NEW j \in 0 .. ArraySize - 1, i < j
    PROVE  t[i] <= t[j] \/ Covered(pending, i, j)
<1>1. PICK b \in 0 .. ArraySize, e \in 0 .. ArraySize : b = First /\ e = Past /\ b < e
  BY RunningCall
<1>2. DOMAIN arr = 0 .. ArraySize - 1
  BY DEF SortTyped
<1>3. \A k \in 0 .. ArraySize - 1 : k \notin b .. e - 1 => t[k] = arr[k]
  BY <1>1, <1>2 DEF Exchanged
<1>4. \A k \in b .. e - 1 : \E o \in b .. e - 1 : t[k] = arr[o] /\ o \in 0 .. ArraySize - 1
  <2>1. ASSUME NEW k \in b .. e - 1 PROVE k \in 0 .. ArraySize - 1
    BY <1>1, SortConstants
  <2> QED
    BY <1>1, <1>2, <2>1 DEF Exchanged
<1>5. ASSUME NEW o, NEW k PROVE Covered(pending, o, k) <=> (b <= o /\ k < e) \/ Covered(Tail(pending), o, k)
  BY <1>1, RangesTail DEF SortTyped, First, Past
<1>6. CASE i \in b .. e - 1 /\ j \in b .. e - 1
  BY <1>5, <1>6
<1>7. CASE i \notin b .. e - 1 /\ j \notin b .. e - 1
  BY <1>3, <1>7 DEF SortOrdered
<1>8. \A a \in DOMAIN pending : /\ pending[a][1] \in Int /\ pending[a][2] \in Int
                                /\ a # 1 => e <= pending[a][1]
  <2>1. ASSUME NEW a \in DOMAIN pending, a # 1 PROVE e <= pending[a][1]
    <3>1. 1 \in DOMAIN pending /\ 1 < a
      BY <2>1, RangeBounds DEF SortTyped
    <3> QED
      BY <1>1, <3>1 DEF SortTyped, Ranges, Past
  <2> QED
    BY <2>1, RangeBounds DEF SortTyped
<1>9. CASE i \in b .. e - 1 /\ j \notin b .. e - 1
  <2>1. PICK o \in b .. e - 1 : t[i] = arr[o] /\ o \in 0 .. ArraySize - 1
    BY <1>4, <1>9
  <2>2. o < j /\ e <= j
    BY <1>9
  <2>3. ~Covered(pending, o, j)
    <3>1. SUFFICES ASSUME NEW a \in DOMAIN pending, pending[a][1] <= o, j < pending[a][2] PROVE FALSE
      BY DEF Covered
    <3>2. CASE a = 1
      BY <1>1, <2>2, <3>1, <3>2 DEF Past
    <3>3. CASE a # 1
      BY <1>8, <2>2, <3>1, <3>3
    <3> QED
      BY <3>2, <3>3
  <2>4. arr[o] <= arr[j]
    BY <2>1, <2>2, <2>3 DEF SortOrdered
  <2> QED
    BY <1>3, <1>9, <2>1, <2>4
<1>10. CASE i \notin b .. e - 1 /\ j \in b .. e - 1
  <2>1. PICK o \in b .. e - 1 : t[j] = arr[o] /\ o \in 0 .. ArraySize - 1
    BY <1>4, <1>10
  <2>2. i < o /\ i < b
    BY <1>10
  <2>3. ~Covered(pending, i, o)
    <3>1. SUFFICES ASSUME NEW a \in DOMAIN pending, pending[a][1] <= i, o < pending[a][2] PROVE FALSE
      BY DEF Covered
    <3>2. CASE a = 1
      BY <1>1, <2>2, <3>1, <3>2 DEF First
    <3>3. CASE a # 1
      BY <1>1, <1>8, <2>2, <3>1, <3>3
    <3> QED
      BY <3>2, <3>3
  <2>4. arr[i] <= arr[o]
    BY <2>1, <2>2, <2>3 DEF SortOrdered
  <2> QED
    BY <1>3, <1>10, <2>1, <2>4
<1> QED
  BY <1>6, <1>7, <1>9, <1>10

\* A round exchanges two elements, or ends the loop.
LEMMA SortRounds == SortInv /\ Sort!Round => SortInv'
<1> SUFFICES ASSUME SortInv, Sort!Round PROVE SortInv'
  OBVIOUS
<1>1. PICK x, y : x = Sort!NextLeft /\ y = Sort!NextRight
  OBVIOUS
<1>2. /\ ~Sort!Idle /\ left < right /\ left' = x /\ right' = y
      /\ arr' = IF x < y THEN [arr EXCEPT ![x] = arr[y], ![y] = arr[x]] ELSE arr
      /\ input' = input /\ pending' = pending /\ pivot' = pivot
  BY <1>1 DEF Sort!Round
<1>3. SortTyped /\ SortOrdered /\ SortCounts /\ pending # <<>>
  BY <1>2 DEF SortInv
<1>4. PICK b \in 0 .. ArraySize, e \in 0 .. ArraySize : b = First /\ e = Past /\ b < e
  BY <1>3, RunningCall
<1>5. \A k \in b .. e - 1 : k \in 0 .. ArraySize - 1 /\ arr[k] \in Int
  BY <1>3, <1>4, RunningCall
<1>6. /\ x \in b .. e - 1 /\ y \in b .. e - 1 /\ (x < y \/ y + 1 < e)
      /\ arr[x] >= pivot /\ arr[y] <= pivot
      /\ \A k \in b .. x - 1 : arr[k] <= pivot
      /\ \A k \in y + 1 .. e - 1 : arr[k] >= pivot
  BY <1>1, <1>2, <1>4, RoundScans
<1>7. First' = b /\ Past' = e
  BY <1>2, <1>4 DEF First, Past
<1>8. x \in -1 .. ArraySize /\ y \in -1 .. ArraySize
  BY <1>6, SortConstants
<1>9. CASE x < y
  <2>1. arr' \in [0 .. ArraySize - 1 -> Numbers] /\ Exchanged(arr, arr', x, y)
    <3>1. arr \in [0 .. ArraySize - 1 -> Numbers] /\ x \in 0 .. ArraySize - 1 /\ y \in 0 .. ArraySize - 1
      BY <1>3, <1>5, <1>6 DEF SortTyped
    <3>2. arr' = [arr EXCEPT ![x] = arr[y], ![y] = arr[x]] /\ x # y
      BY <1>2, <1>6, <1>9
    <3> QED
      BY <3>1, <3>2 DEF Exchanged
  <2>2. SortTyped'
    BY <1>2, <1>3, <1>8, <2>1 DEF SortTyped
  <2>3. SortCounts'
    <3>1. IsFiniteSet(DOMAIN arr)
      <4>1. 0 \in Int /\ ArraySize - 1 \in Int
        BY SortConstants
      <4>2. IsFiniteSet(0 .. ArraySize - 1)
        BY <4>1, FS_Interval
      <4> QED
        BY <1>3, <4>2 DEF SortTyped
    <3>2. \A v : Count(arr', v) = Count(arr, v)
      BY <2>1, <3>1, ExchangeCounts
    <3>3. \A v \in Numbers : Count(arr', v) = Count(input', v)
      BY <1>2, <1>3, <3>2 DEF SortCounts
    <3> QED
      BY <3>3 DEF SortCounts, Count
  <2>4. SortOrdered'
    <3>1. \A i, j \in 0 .. ArraySize - 1 : i < j => arr'[i] <= arr'[j] \/ Covered(pending, i, j)
      BY <1>3, <1>4, <1>6, <2>1, ExchangeOrdered
    <3> QED
      BY <1>2, <3>1 DEF SortOrdered
  <2>5. Between'
    <3>1. arr'[x] = arr[y] /\ arr'[y] = arr[x] /\ \A k \in b .. e - 1 : k # x /\ k # y => arr'[k] = arr[k]
      BY <1>3, <1>5, <2>1 DEF Exchanged, SortTyped
    <3>2. \A k \in b .. x : arr'[k] <= pivot
      <4>1. ASSUME NEW k \in b .. x, k # x PROVE k \in b .. x - 1 /\ k \in b .. e - 1 /\ k # y
        BY <1>6, <1>9, <4>1
      <4> QED
        BY <1>6, <3>1, <4>1
    <3>3. \A k \in y .. e - 1 : arr'[k] >= pivot
      <4>1. ASSUME NEW k \in y .. e - 1, k # y PROVE k \in y + 1 .. e - 1 /\ k \in b .. e - 1 /\ k # x
        BY <1>6, <1>9, <4>1
      <4> QED
        BY <1>6, <3>1, <4>1
    <3>4. b <= x /\ x < y /\ y < e
      BY <1>6, <1>9
    <3> QED
      BY <1>2, <1>7, <3>2, <3>3, <3>4 DEF Between
  <2> QED
    BY <1>2, <1>3, <2>2, <2>3, <2>4, <2>5 DEF SortInv
<1>10. CASE ~(x < y)
  <2>1. arr' = arr
    BY <1>2, <1>10
  <2>2. SortTyped' /\ SortCounts' /\ SortOrdered'
    <3>1. SortTyped'
      BY <1>2, <1>3, <1>8, <2>1 DEF SortTyped
    <3>2. SortCounts'
      BY <1>2, <1>3, <2>1 DEF SortCounts, Count
    <3>3. SortOrdered'
      BY <1>2, <1>3, <2>1 DEF SortOrdered
    <3> QED
      BY <3>1, <3>2, <3>3
  <2>3. Parted'
    <3>1. b <= y /\ y <= x /\ x < e /\ y + 1 < e
      BY <1>6, <1>10
    <3>2. \A k \in b .. y : arr[k] <= pivot
      <4>1. ASSUME NEW k \in b .. y PROVE k \in b .. x - 1 \/ k = y
        BY <3>1, <1>6
      <4> QED
        BY <1>6, <4>1
    <3> QED
      BY <1>2, <1>6, <1>7, <2>1, <3>1, <3>2 DEF Parted
  <2> QED
    BY <1>2, <1>3, <2>2, <2>3 DEF SortInv
<1> QED
  BY <1>9, <1>10

\* The call calls itself for the two parts.
LEMMA SortRecurses == SortInv /\ Sort!Recurse => SortInv'
<1> SUFFICES ASSUME SortInv, Sort!Recurse PROVE SortInv'
  OBVIOUS
<1>1. ~Sort!Idle /\ left >= right
  BY DEF Sort!Recurse
<1>2. SortTyped /\ SortOrdered /\ SortCounts /\ pending # <<>>
  BY <1>1 DEF SortInv
<1>3. PICK b \in 0 .. ArraySize, e \in 0 .. ArraySize : b = First /\ e = Past /\ b < e
  BY <1>2, RunningCall
<1>4. PICK r \in -1 .. ArraySize : r = right
  BY <1>2 DEF SortTyped
<1>5. /\ b <= r /\ r + 1 < e
      /\ \A k \in b .. r : arr[k] <= pivot
      /\ \A k \in r + 1 .. e - 1 : arr[k] >= pivot
  <2>1. ~Opened /\ ~Between
    <3>1. Opened => b - 1 >= e
      BY <1>1, <1>3 DEF Opened
    <3>2. Between => FALSE
      BY <1>1, <1>2 DEF Between, SortTyped
    <3> QED
      BY <1>3, <3>1, <3>2
  <2>2. Parted
    BY <1>1, <2>1 DEF SortInv
  <2> QED
    BY <1>3, <1>4, <2>2 DEF Parted
<1>6. PICK m \in Nat : m = r + 1 /\ b < m /\ m < e
  BY <1>3, <1>5
<1>7. /\ pending' = SplitAt(pending, m) /\ left' = ArraySize /\ right' = -1
      /\ input' = input /\ arr' = arr /\ pivot' = pivot
  BY <1>3, <1>4, <1>6 DEF Sort!Recurse, Sort!begin, Sort!end, SplitAt, First, Past
<1>8. Ranges(pending) /\ pending[1][1] < m /\ m < pending[1][2]
  BY <1>2, <1>3, <1>6 DEF SortTyped, First, Past
<1>9. SortTyped'
  <2>1. Ranges(pending')
    BY <1>2, <1>7, <1>8, RangesSplit
  <2>2. -1 \in -1 .. ArraySize /\ ArraySize \in -1 .. ArraySize
    BY SortConstants
  <2> QED
    BY <1>2, <1>7, <2>1, <2>2 DEF SortTyped
<1>10. ASSUME NEW i \in 0 .. ArraySize - 1, NEW j \in 0 .. ArraySize - 1, i < j
       PROVE  arr[i] <= arr[j] \/ Covered(pending', i, j)
  <2>1. Covered(pending', i, j) <=> \/ b <= i /\ j < m
                                    \/ m <= i /\ j < e
                                    \/ Covered(Tail(pending), i, j)
    BY <1>2, <1>3, <1>7, <1>8, RangesSplit DEF First, Past
  <2>2. Covered(pending, i, j) <=> (b <= i /\ j < e) \/ Covered(Tail(pending), i, j)
    BY <1>2, <1>3, <1>8, RangesTail DEF First, Past
  <2>3. arr[i] <= arr[j] \/ Covered(pending, i, j)
    BY <1>2, <1>10 DEF SortOrdered
  <2>4. ASSUME b <= i, j < e, ~(j < m), ~(m <= i) PROVE arr[i] <= arr[j]
    <3>1. i \in b .. r /\ j \in r + 1 .. e - 1
      BY <1>4, <1>6, <2>4
    <3>2. arr[i] <= pivot /\ arr[j] >= pivot
      BY <1>5, <3>1
    <3>3. arr[i] \in Int /\ arr[j] \in Int /\ pivot \in Int
      BY <1>2, SortConstants DEF SortTyped
    <3> QED
      BY <3>2, <3>3
  <2> QED
    BY <2>1, <2>2, <2>3, <2>4
<1> QED
  BY <1>2, <1>7, <1>9, <1>10 DEF SortInv, SortCounts, Count, SortOrdered, Sort!Idle

\* Every step of the program keeps the sort in order.
LEMMA NextSort == SortInv /\ [Next]_allVars => SortInv'
<1> SUFFICES ASSUME SortInv, [Next]_allVars PROVE SortInv'
  OBVIOUS
<1>1. CASE UNCHANGED sortVars
  BY <1>1 DEF sortVars, SortInv, SortTyped, SortCounts, Count, SortOrdered, Opened, Between, Parted,
              First, Past, Sort!Idle
<1> QED
  BY <1>1, ContainerSteps, SortReturns, SortStarts, SortRounds, SortRecurses DEF Sort!Next

\* What SortInv says of the array.
LEMMA SortSound == SortInv => Sort!SortedAround /\ Sort!TypeOK
<1> SUFFICES ASSUME SortInv PROVE Sort!SortedAround /\ Sort!TypeOK
  OBVIOUS
<1>1. SortTyped /\ SortOrdered /\ SortCounts
  BY DEF SortInv
<1>2. Sort!Idle \/ (left \in Sort!begin - 1 .. Sort!end - 1 /\ right \in Sort!begin .. Sort!end)
  <2>1. SUFFICES ASSUME ~Sort!Idle
                 PROVE left \in Sort!begin - 1 .. Sort!end - 1 /\ right \in Sort!begin .. Sort!end
    OBVIOUS
  <2>2. pending # <<>> /\ (Opened \/ Between \/ Parted)
    BY <2>1 DEF SortInv
  <2>3. PICK b \in Int, e \in Int : b = First /\ e = Past /\ b < e
    BY <1>1, <2>2, RunningCall
  <2>4. PICK l \in Int, r \in Int : l = left /\ r = right
    BY <1>1 DEF SortTyped
  <2>5. l \in b - 1 .. e - 1 /\ r \in b .. e
    <3>1. CASE Opened
      BY <2>3, <2>4, <3>1 DEF Opened
    <3>2. CASE Between
      BY <2>3, <2>4, <3>2 DEF Between
    <3>3. CASE Parted
      BY <2>3, <2>4, <3>3 DEF Parted
    <3> QED
      BY <2>2, <3>1, <3>2, <3>3
  <2> QED
    BY <2>3, <2>4, <2>5 DEF Sort!begin, Sort!end, First, Past
<1>3. \A r \in Sort!ToSet(pending) : r[1] < r[2] /\ r \in (0 .. ArraySize) \X (0 .. ArraySize)
  BY <1>1, RangeBounds DEF SortTyped, Ranges, Sort!ToSet
<1>4. \A v \in Numbers : Sort!Cardinality({i \in DOMAIN arr : arr[i] = v})
                           = Sort!Cardinality({i \in DOMAIN input : input[i] = v})
  BY <1>1 DEF SortCounts, Count, Cardinality, Sort!Cardinality
<1>5. ASSUME NEW i \in DOMAIN arr, NEW j \in DOMAIN arr, i < j, ~Sort!Unfinished(i, j)
      PROVE  arr[i] <= arr[j]
  <2>1. ~Covered(pending, i, j)
    <3>1. SUFFICES ASSUME NEW a \in DOMAIN pending, pending[a][1] <= i, j < pending[a][2]
                   PROVE  Sort!Unfinished(i, j)
      BY <1>5 DEF Covered
    <3>2. i >= pending[a][1] /\ pending[a] \in Sort!ToSet(pending)
      BY <3>1 DEF Sort!ToSet
    <3> QED
      BY <3>1, <3>2 DEF Sort!Unfinished
  <2> QED
    BY <1>1, <1>5, <2>1 DEF SortTyped, SortOrdered
<1> QED
  BY <1>1, <1>2, <1>3, <1>4, <1>5 DEF Sort!SortedAround, Sort!TypeOK, SortTyped
-----------------------------------------------------------------------------
(* LinkedList *)

\* What the proofs use of the constants.
LEMMA ListConstants == ListNodes # {} /\ Null \notin ListNodes
  BY RoutinesAssumption DEF ContainersAssumption, List!LinkedListAssumption

\* f[0] to f[m] are a ring through its sentinel h, in both directions.
IsRing(f, m, h, elems, nexts, prevs) ==
    /\ m \in Nat /\ f \in [0 .. m -> ListNodes] /\ f[0] = h
    /\ \A i, j \in 0 .. m : f[i] = f[j] => i = j
    /\ \A i \in 0 .. m : nexts[f[i]] = IF i = m THEN f[0] ELSE f[i + 1]
    /\ \A i \in 0 .. m : prevs[f[i]] = IF i = 0 THEN f[m] ELSE f[i - 1]
    /\ \A i \in 1 .. m : elems[f[i]] \in Contents
On(f, m) == {f[i] : i \in 0 .. m}

ListTyped ==
    /\ head \in ListNodes \cup {Null} /\ live \subseteq ListNodes
    /\ elem \in [ListNodes -> Contents \cup {Null}]
    /\ next \in [ListNodes -> ListNodes \cup {Null}] /\ prev \in [ListNodes -> ListNodes \cup {Null}]

\* The nodes that exist are the ring f[0] to f[m].
Rings(f, m) == IsRing(f, m, head, elem, next, prev) /\ live = On(f, m)

(***************************************************************************)
(* Until the list is destroyed the nodes that exist are one ring.          *)
(***************************************************************************)
ListInv == ListTyped /\ (head # Null => \E m, f : Rings(f, m))

\* What the list holds is what the ring says.
RingHolds ==
    \A m, f : Rings(f, m) => /\ IsFiniteSet(live) /\ Cardinality(live) = m + 1
                             /\ DOMAIN List!Walk = 0 .. m /\ \A k \in 0 .. m : List!Walk[k] = f[k]
                             /\ List!content = [k \in 1 .. m |-> elem[f[k]]]

LEMMA RingSays == RingHolds
<1> SUFFICES ASSUME NEW m, NEW f, Rings(f, m)
             PROVE  /\ IsFiniteSet(live) /\ Cardinality(live) = m + 1
                    /\ DOMAIN List!Walk = 0 .. m /\ \A k \in 0 .. m : List!Walk[k] = f[k]
                    /\ List!content = [k \in 1 .. m |-> elem[f[k]]]
  BY DEF RingHolds
<1>1. /\ m \in Nat /\ f \in [0 .. m -> ListNodes] /\ f[0] = head
      /\ \A i, j \in 0 .. m : f[i] = f[j] => i = j
      /\ \A i \in 0 .. m : next[f[i]] = IF i = m THEN f[0] ELSE f[i + 1]
      /\ live = {f[i] : i \in 0 .. m}
  BY DEF Rings, IsRing, On
<1>2. IsFiniteSet(live) /\ Cardinality(live) = m + 1
  <2>1. IsFiniteSet(0 .. m) /\ Cardinality(0 .. m) = m + 1
    <3>1. 0 \in Int /\ m \in Int
      BY <1>1
    <3>2. IsFiniteSet(0 .. m) /\ Cardinality(0 .. m) = IF 0 > m THEN 0 ELSE m - 0 + 1
      BY <3>1, FS_Interval
    <3> QED
      BY <1>1, <3>2
  <2>2. f \in [0 .. m -> live]
    BY <1>1
  <2>3. f \in Bijection(0 .. m, live)
    BY <1>1, <2>2 DEF Bijection, Injection, IsInjective, Surjection
  <2>4. IsFiniteSet(live) /\ Cardinality(live) = Cardinality(0 .. m)
    BY <2>1, <2>3, FS_Bijection DEF ExistsBijection
  <2> QED
    BY <2>1, <2>4
<1>3. List!Cardinality(live) = m + 1
  BY <1>2 DEF Cardinality, List!Cardinality
<1> DEFINE F(g) == [k \in 0 .. m |-> IF k = 0 THEN head ELSE next[g[k - 1]]]
<1>4. List!Cardinality(live) - 1 = m
  BY <1>1, <1>3
<1>5. f = F(f)
  <2>1. ASSUME NEW k \in 0 .. m PROVE f[k] = F(f)[k]
    <3>1. CASE k = 0
      BY <1>1, <3>1
    <3>2. CASE k # 0
      <4>1. k - 1 \in 0 .. m /\ k - 1 # m /\ (k - 1) + 1 = k
        BY <1>1, <3>2
      <4>2. next[f[k - 1]] = f[(k - 1) + 1]
        BY <1>1, <4>1
      <4> QED
        BY <3>2, <4>1, <4>2
    <3> QED
      BY <3>1, <3>2
  <2> QED
    BY <1>1, <2>1
<1>6. List!Walk = F(List!Walk)
  <2>1. List!Walk = CHOOSE h : h = F(h)
    BY <1>4 DEF List!Walk
  <2> HIDE DEF F
  <2> QED
    BY <1>5, <2>1
<1>7. \A k \in 0 .. m : List!Walk[k] = f[k]
  <2> DEFINE Bad == {k \in 0 .. m : List!Walk[k] # f[k]}
  <2>1. SUFFICES ASSUME Bad # {} PROVE FALSE
    OBVIOUS
  <2>2. PICK k \in Bad : \A n \in Bad : k <= n
    <3>1. Bad \subseteq Nat
      BY <1>1
    <3> HIDE DEF Bad
    <3> QED
      BY <2>1, <3>1, LeastNat
  <2>3. k # 0 => k - 1 \in 0 .. m /\ List!Walk[k - 1] = f[k - 1]
    <3>1. k # 0 => k - 1 \in 0 .. m /\ ~(k <= k - 1)
      BY <1>1, <2>2
    <3> QED
      BY <2>2, <3>1
  <2>4. List!Walk[k] = F(List!Walk)[k] /\ f[k] = F(f)[k]
    BY <1>5, <1>6
  <2> QED
    BY <2>2, <2>3, <2>4
<1>8. List!content = [k \in 1 .. m |-> elem[f[k]]]
  <2>1. head # Null
    BY <1>1, ListConstants
  <2>2. \A k \in 1 .. m : List!Walk[k] = f[k]
    BY <1>7
  <2> QED
    BY <1>4, <2>1, <2>2 DEF List!content
<1> QED
  BY <1>2, <1>6, <1>7, <1>8

LEMMA RingSaysNext == RingHolds'
  BY RingSays, PTL

\* When the members change to a ring and what leads to nothing else, the ring is what stays.
LEMMA Relinked ==
    ASSUME head' = head, NEW elems, NEW nexts, NEW prevs, NEW nodes, nodes \subseteq ListNodes,
           elems \in [ListNodes -> Contents \cup {Null}],
           nexts \in [ListNodes -> ListNodes \cup {Null}], prevs \in [ListNodes -> ListNodes \cup {Null}],
           NEW g, NEW l, IsRing(g, l, head, elems, nexts, prevs), On(g, l) \subseteq nodes,
           \A x \in nodes : nexts[x] \in On(g, l),
           List!Relink(elems, nexts, prevs, nodes)
    PROVE  ListInv' /\ List!content' = [k \in 1 .. l |-> elems[g[k]]]
<1>1. /\ l \in Nat /\ g \in [0 .. l -> ListNodes] /\ g[0] = head
      /\ \A i \in 0 .. l : nexts[g[i]] = IF i = l THEN g[0] ELSE g[i + 1]
  BY DEF IsRing
<1> DEFINE owned == {n \in nodes : n = head' \/ \E x \in nodes : nexts[x] = n}
<1>2. /\ live' = owned
      /\ elem' = [n \in ListNodes |-> IF n \in owned THEN elems[n] ELSE Null]
      /\ next' = [n \in ListNodes |-> IF n \in owned THEN nexts[n] ELSE Null]
      /\ prev' = [n \in ListNodes |-> IF n \in owned THEN prevs[n] ELSE Null]
  BY DEF List!Relink
<1>3. On(g, l) \subseteq owned
  <2>1. ASSUME NEW i \in 0 .. l PROVE g[i] \in owned
    <3>1. g[i] \in nodes
      BY DEF On
    <3>2. CASE i = 0
      BY <1>1, <3>1, <3>2
    <3>3. CASE i # 0
      <4>1. i - 1 \in 0 .. l /\ i - 1 # l /\ (i - 1) + 1 = i
        BY <1>1, <3>3
      <4>2. nexts[g[i - 1]] = g[i] /\ g[i - 1] \in nodes
        BY <1>1, <4>1 DEF On
      <4> QED
        BY <3>1, <4>2
    <3> QED
      BY <3>2, <3>3
  <2> QED
    BY <2>1 DEF On
<1>4. owned \subseteq On(g, l)
  <2>1. 0 \in 0 .. l
    BY <1>1
  <2>2. head' \in On(g, l)
    BY <1>1, <2>1 DEF On
  <2> QED
    BY <2>2
<1>5. owned = On(g, l)
  BY <1>3, <1>4
<1> HIDE DEF owned
<1>6. \A i \in 0 .. l : /\ g[i] \in ListNodes /\ elem'[g[i]] = elems[g[i]]
                        /\ next'[g[i]] = nexts[g[i]] /\ prev'[g[i]] = prevs[g[i]]
  BY <1>1, <1>2, <1>5 DEF On
<1>7. \A i \in 1 .. l : i \in 0 .. l
  BY <1>1
<1>8. IsRing(g, l, head', elem', next', prev')
  BY <1>6, <1>7 DEF IsRing
<1>9. Rings(g, l)'
  BY <1>2, <1>5, <1>8 DEF Rings, On
<1>10. ListTyped'
  <2>1. live' \subseteq ListNodes
    BY <1>1, <1>2, <1>5 DEF On
  <2>2. head' \in ListNodes
    <3>1. 0 \in 0 .. l
      BY <1>1
    <3> QED
      BY <1>1, <3>1
  <2> QED
    BY <1>2, <2>1, <2>2 DEF ListTyped
<1>11. List!content' = [k \in 1 .. l |-> elem'[g[k]]]
  BY <1>9, RingSaysNext DEF RingHolds
<1>12. List!content' = [k \in 1 .. l |-> elems[g[k]]]
  BY <1>6, <1>7, <1>11
<1> QED
  BY <1>9, <1>10, <1>12 DEF ListInv

\* The list is its sentinel at first.
LEMMA InitList == Init => ListInv /\ List!Promise!Init
<1> SUFFICES ASSUME Init PROVE ListInv /\ List!Promise!Init
  OBVIOUS
<1>1. /\ head = CHOOSE n \in ListNodes : TRUE
      /\ live = {head} /\ elem = [n \in ListNodes |-> Null]
      /\ next = [n \in ListNodes |-> IF n = head THEN head ELSE Null] /\ prev = next
  BY DEF Init, ContainersInit, List!Init
<1>2. head \in ListNodes
  BY <1>1, ListConstants
<1>3. ListTyped
  BY <1>1, <1>2 DEF ListTyped
<1>4. PICK f : f = [i \in 0 .. 0 |-> head]
  OBVIOUS
<1>5. 0 .. 0 = {0} /\ 1 .. 0 = {}
  OBVIOUS
<1>6. Rings(f, 0)
  BY <1>1, <1>2, <1>4, <1>5 DEF Rings, IsRing, On
<1>7. List!content = [k \in 1 .. 0 |-> elem[f[k]]]
  BY <1>6, RingSays DEF RingHolds
<1>8. List!content = <<>>
  BY <1>5, <1>7
<1> QED
  BY <1>3, <1>6, <1>8 DEF ListInv, List!Promise!Init

\* What the members of the sentinel say of a ring.
LEMMA RingEnds ==
    ASSUME NEW m, NEW f, Rings(f, m)
    PROVE  /\ m \in Nat /\ f[0] = head /\ head \in ListNodes /\ head # Null
           /\ \A i \in 0 .. m : f[i] \in ListNodes /\ f[i] \in live
           /\ List!Lock(prev[head]) = f[m] /\ next[head] = f[IF m = 0 THEN 0 ELSE 1]
           /\ List!empty <=> m = 0
           /\ m # 0 => /\ List!Lock(prev[f[m]]) = f[m - 1]
                       /\ next[f[1]] = f[IF m = 1 THEN 0 ELSE 2]
<1>1. /\ m \in Nat /\ f \in [0 .. m -> ListNodes] /\ f[0] = head
      /\ \A i, j \in 0 .. m : f[i] = f[j] => i = j
      /\ \A i \in 0 .. m : next[f[i]] = IF i = m THEN f[0] ELSE f[i + 1]
      /\ \A i \in 0 .. m : prev[f[i]] = IF i = 0 THEN f[m] ELSE f[i - 1]
      /\ live = {f[i] : i \in 0 .. m}
  BY DEF Rings, IsRing, On
<1>2. 0 \in 0 .. m /\ m \in 0 .. m /\ (m # 0 => 1 \in 0 .. m /\ m - 1 \in 0 .. m) /\ 0 + 1 = 1 /\ 1 + 1 = 2
  BY <1>1
<1>3. \A i \in 0 .. m : f[i] \in ListNodes /\ f[i] \in live
  BY <1>1
<1>4. prev[head] = f[m] /\ List!Lock(prev[head]) = f[m]
  BY <1>1, <1>2, <1>3 DEF List!Lock
<1>5. next[head] = f[IF m = 0 THEN 0 ELSE 1]
  BY <1>1, <1>2
<1>6. List!empty <=> m = 0
  BY <1>1, <1>2, <1>4 DEF List!empty
<1>7. m # 0 => List!Lock(prev[f[m]]) = f[m - 1] /\ next[f[1]] = f[IF m = 1 THEN 0 ELSE 2]
  BY <1>1, <1>2, <1>3 DEF List!Lock
<1> QED
  BY <1>1, <1>2, <1>3, <1>4, <1>5, <1>6, <1>7, ListConstants

\* What the list holds is a sequence.
LEMMA RingContent ==
    ASSUME NEW m, NEW f, Rings(f, m)
    PROVE  /\ List!content \in Seq(Contents) /\ Len(List!content) = m
           /\ \A k \in 1 .. m : List!content[k] = elem[f[k]]
<1>1. List!content = [k \in 1 .. m |-> elem[f[k]]]
  BY RingSays DEF RingHolds
<1>2. m \in Nat /\ \A k \in 1 .. m : elem[f[k]] \in Contents
  BY DEF Rings, IsRing
<1> QED
  BY <1>1, <1>2

\* push_back puts a node between the last one and the sentinel.
LEMMA ListPushBack ==
    ASSUME ListInv, NEW n \in ListNodes, NEW e \in Contents, List!push_back(n, e)
    PROVE  ListInv' /\ List!content' = Append(List!content, e)
<1>1. PICK m, f : Rings(f, m)
  BY DEF ListInv, List!push_back
<1>2. /\ m \in Nat /\ f \in [0 .. m -> ListNodes] /\ f[0] = head
      /\ \A i, j \in 0 .. m : f[i] = f[j] => i = j
      /\ \A i \in 0 .. m : next[f[i]] = IF i = m THEN f[0] ELSE f[i + 1]
      /\ \A i \in 0 .. m : prev[f[i]] = IF i = 0 THEN f[m] ELSE f[i - 1]
      /\ \A i \in 1 .. m : elem[f[i]] \in Contents
      /\ live = {f[i] : i \in 0 .. m}
  BY <1>1 DEF Rings, IsRing, On
<1>3. List!Lock(prev[head]) = f[m] /\ head \in ListNodes /\ \A i \in 0 .. m : f[i] \in ListNodes /\ f[i] # n
  BY <1>1, RingEnds DEF List!push_back, List!NewNode
<1>4. PICK els, nxs, prs : /\ els = [elem EXCEPT ![n] = e]
                           /\ nxs = [next EXCEPT ![f[m]] = n, ![n] = head]
                           /\ prs = [prev EXCEPT ![n] = f[m], ![head] = n]
  OBVIOUS
<1>5. head' = head /\ List!Relink(els, nxs, prs, live \cup {n})
  BY <1>3, <1>4 DEF List!push_back
<1>6. m \in 0 .. m /\ 0 \in 0 .. m
  BY <1>2
<1>7. /\ els \in [ListNodes -> Contents \cup {Null}]
      /\ nxs \in [ListNodes -> ListNodes \cup {Null}] /\ prs \in [ListNodes -> ListNodes \cup {Null}]
      /\ live \cup {n} \subseteq ListNodes
  BY <1>3, <1>4, <1>6 DEF ListInv, ListTyped
<1>8. PICK g : g = [i \in 0 .. m + 1 |-> IF i <= m THEN f[i] ELSE n]
  OBVIOUS
<1>9. \A i \in 0 .. m + 1 : (i \in 0 .. m /\ i <= m) \/ (i = m + 1 /\ ~(i <= m))
  BY <1>2
<1>10. g \in [0 .. m + 1 -> ListNodes] /\ (\A i \in 0 .. m : g[i] = f[i]) /\ g[m + 1] = n
  <2>1. (\A i \in 0 .. m : i \in 0 .. m + 1 /\ i <= m) /\ m + 1 \in 0 .. m + 1 /\ ~(m + 1 <= m)
    BY <1>2
  <2>2. \A i \in 0 .. m + 1 : (IF i <= m THEN f[i] ELSE n) \in ListNodes
    BY <1>3, <1>9
  <2> QED
    BY <1>8, <2>1, <2>2
<1>11. /\ \A x \in ListNodes : els[x] = IF x = n THEN e ELSE elem[x]
       /\ \A x \in ListNodes : nxs[x] = IF x = n THEN head ELSE IF x = f[m] THEN n ELSE next[x]
       /\ \A x \in ListNodes : prs[x] = IF x = head THEN n ELSE IF x = n THEN f[m] ELSE prev[x]
  BY <1>4, <1>2, <1>3, <1>6 DEF ListInv, ListTyped
<1>12. IsRing(g, m + 1, head, els, nxs, prs)
  <2>1. \A i, j \in 0 .. m + 1 : g[i] = g[j] => i = j
    BY <1>2, <1>3, <1>9, <1>10
  <2>2. ASSUME NEW i \in 0 .. m + 1 PROVE nxs[g[i]] = IF i = m + 1 THEN g[0] ELSE g[i + 1]
    <3>1. CASE i = m + 1
      BY <1>2, <1>6, <1>10, <1>11, <3>1
    <3>2. CASE i = m
      <4>1. m # m + 1
        BY <1>2
      <4> QED
        BY <1>3, <1>6, <1>10, <1>11, <3>2, <4>1
    <3>3. CASE i \in 0 .. m /\ i # m
      <4>1. i + 1 \in 0 .. m /\ i # m + 1
        BY <1>2, <3>3
      <4>2. g[i] = f[i] /\ f[i] # n /\ f[i] # f[m] /\ f[i] \in ListNodes
        BY <1>2, <1>3, <1>6, <1>10, <3>3
      <4> QED
        BY <1>2, <1>10, <1>11, <3>3, <4>1, <4>2
    <3> QED
      BY <1>9, <3>1, <3>2, <3>3
  <2>3. ASSUME NEW i \in 0 .. m + 1 PROVE prs[g[i]] = IF i = 0 THEN g[m + 1] ELSE g[i - 1]
    <3>1. CASE i = m + 1
      <4>1. m + 1 # 0 /\ m + 1 - 1 = m
        BY <1>2
      <4>2. n # head
        BY <1>2, <1>3, <1>6
      <4> QED
        BY <1>6, <1>10, <1>11, <3>1, <4>1, <4>2
    <3>2. CASE i = 0
      BY <1>2, <1>3, <1>6, <1>10, <1>11, <3>2
    <3>3. CASE i \in 0 .. m /\ i # 0
      <4>1. i - 1 \in 0 .. m
        BY <1>2, <3>3
      <4>2. g[i] = f[i] /\ f[i] # n /\ f[i] # head /\ f[i] \in ListNodes
        BY <1>2, <1>3, <1>6, <1>10, <3>3
      <4> QED
        BY <1>2, <1>10, <1>11, <3>3, <4>1, <4>2
    <3> QED
      BY <1>9, <3>1, <3>2, <3>3
  <2>4. ASSUME NEW i \in 1 .. m + 1 PROVE els[g[i]] \in Contents
    <3>1. (i \in 1 .. m /\ i \in 0 .. m) \/ i = m + 1
      BY <1>2
    <3> QED
      BY <1>2, <1>3, <1>10, <1>11, <3>1
  <2> QED
    BY <1>2, <1>6, <1>10, <2>1, <2>2, <2>3, <2>4 DEF IsRing
<1>13. On(g, m + 1) = live \cup {n}
  <2>1. \A i \in 0 .. m + 1 : g[i] \in live \cup {n}
    BY <1>2, <1>9, <1>10
  <2>2. \A i \in 0 .. m : f[i] \in On(g, m + 1)
    <3>1. \A i \in 0 .. m : i \in 0 .. m + 1
      BY <1>2
    <3> QED
      BY <1>10, <3>1 DEF On
  <2>3. n \in On(g, m + 1)
    <3>1. m + 1 \in 0 .. m + 1
      BY <1>2
    <3> QED
      BY <1>10, <3>1 DEF On
  <2> QED
    BY <1>2, <2>1, <2>2, <2>3 DEF On
<1>14. \A x \in live \cup {n} : nxs[x] \in On(g, m + 1)
  <2>1. ASSUME NEW i \in 0 .. m + 1 PROVE nxs[g[i]] \in On(g, m + 1)
    <3>1. 0 \in 0 .. m + 1 /\ (i # m + 1 => i + 1 \in 0 .. m + 1)
      BY <1>2
    <3> QED
      BY <1>12, <3>1 DEF IsRing, On
  <2> QED
    BY <1>13, <2>1 DEF On
<1>15. ListInv' /\ List!content' = [k \in 1 .. m + 1 |-> els[g[k]]]
  BY <1>5, <1>7, <1>12, <1>13, <1>14, Relinked
<1>16. List!content' = Append(List!content, e)
  <2>1. List!content \in Seq(Contents) /\ Len(List!content) = m /\ \A k \in 1 .. m : List!content[k] = elem[f[k]]
    BY <1>1, RingContent
  <2>2. PICK t : t = List!content'
    OBVIOUS
  <2>3. t \in Seq(Contents) /\ Len(t) = m + 1 /\ \A k \in 1 .. m + 1 : t[k] = els[g[k]]
    <3>1. m + 1 \in Nat /\ \A k \in 1 .. m + 1 : els[g[k]] \in Contents
      BY <1>2, <1>12 DEF IsRing
    <3> QED
      BY <1>15, <2>2, <3>1
  <2>4. PICK s, u : s = List!content /\ u = Append(s, e)
    OBVIOUS
  <2>5. u \in Seq(Contents) /\ Len(u) = m + 1 /\ (\A k \in 1 .. m : u[k] = s[k]) /\ u[m + 1] = e
    BY <2>1, <2>4, AppendProperties
  <2>6. ASSUME NEW k \in 1 .. m + 1 PROVE t[k] = u[k]
    <3>1. CASE k \in 1 .. m
      <4>1. k \in 0 .. m /\ k \in 1 .. m + 1
        BY <1>2, <3>1
      <4>2. g[k] = f[k] /\ f[k] # n /\ f[k] \in ListNodes
        BY <1>3, <1>10, <4>1
      <4>3. t[k] = elem[f[k]]
        BY <1>11, <2>3, <4>1, <4>2
      <4>4. u[k] = elem[f[k]]
        BY <2>1, <2>4, <2>5, <3>1
      <4> QED
        BY <4>3, <4>4
    <3>2. CASE k = m + 1
      BY <1>10, <1>11, <2>3, <2>5, <3>2
    <3> QED
      BY <1>2, <3>1, <3>2
  <2>7. t = u
    BY <2>3, <2>5, <2>6, SeqEqual
  <2> QED
    BY <2>2, <2>4, <2>7
<1> QED
  BY <1>15, <1>16

\* pop_back takes the last node out.
LEMMA ListPopBack ==
    ASSUME ListInv, List!pop_back
    PROVE  /\ ListInv' /\ List!content # <<>>
           /\ List!content' = SubSeq(List!content, 1, Len(List!content) - 1)
<1>1. PICK m, f : Rings(f, m)
  BY DEF ListInv, List!pop_back
<1>2. /\ m \in Nat /\ f \in [0 .. m -> ListNodes] /\ f[0] = head
      /\ \A i, j \in 0 .. m : f[i] = f[j] => i = j
      /\ \A i \in 0 .. m : next[f[i]] = IF i = m THEN f[0] ELSE f[i + 1]
      /\ \A i \in 0 .. m : prev[f[i]] = IF i = 0 THEN f[m] ELSE f[i - 1]
      /\ \A i \in 1 .. m : elem[f[i]] \in Contents
      /\ live = {f[i] : i \in 0 .. m}
  BY <1>1 DEF Rings, IsRing, On
<1>3. m # 0 /\ \A i \in 0 .. m : f[i] \in ListNodes
  BY <1>1, RingEnds DEF List!pop_back
<1>0. PICK l \in Nat : m = l + 1 /\ m - 1 = l
  <2>1. m - 1 \in Nat /\ m = (m - 1) + 1
    BY <1>2, <1>3
  <2> QED
    BY <2>1
<1>4. PICK nxs, prs : /\ nxs = [next EXCEPT ![f[l]] = head]
                      /\ prs = [prev EXCEPT ![head] = f[l]]
  OBVIOUS
<1>5. head' = head /\ List!Relink(elem, nxs, prs, live)
  <2>1. List!Lock(prev[List!Lock(prev[head])]) = f[l]
    BY <1>0, <1>1, <1>3, RingEnds
  <2> QED
    BY <1>4, <2>1 DEF List!pop_back
<1>6. l \in 0 .. m /\ m \in 0 .. m /\ 0 \in 0 .. m /\ l # m /\ \A i \in 0 .. l : i \in 0 .. m /\ i # m
  BY <1>0
<1>7. /\ elem \in [ListNodes -> Contents \cup {Null}]
      /\ nxs \in [ListNodes -> ListNodes \cup {Null}] /\ prs \in [ListNodes -> ListNodes \cup {Null}]
      /\ live \subseteq ListNodes
  BY <1>3, <1>4, <1>6, <1>2 DEF ListInv, ListTyped
<1>8. PICK g : g = [i \in 0 .. l |-> f[i]]
  OBVIOUS
<1>10. g \in [0 .. l -> ListNodes] /\ (\A i \in 0 .. l : g[i] = f[i])
  BY <1>3, <1>6, <1>8
<1>11. /\ \A x \in ListNodes : nxs[x] = IF x = f[l] THEN head ELSE next[x]
       /\ \A x \in ListNodes : prs[x] = IF x = head THEN f[l] ELSE prev[x]
  BY <1>4 DEF ListInv, ListTyped
<1>12. IsRing(g, l, head, elem, nxs, prs)
  <2>0. 0 \in 0 .. l /\ l \in 0 .. l
    BY <1>0
  <2>1. \A i, j \in 0 .. l : g[i] = g[j] => i = j
    BY <1>2, <1>6, <1>10
  <2>2. ASSUME NEW i \in 0 .. l PROVE nxs[g[i]] = IF i = l THEN g[0] ELSE g[i + 1]
    <3>1. CASE i = l
      BY <1>2, <1>3, <1>6, <1>10, <1>11, <2>0, <3>1
    <3>2. CASE i # l
      <4>1. i + 1 \in 0 .. l
        BY <1>0, <3>2
      <4>2. f[i] # f[l]
        BY <1>2, <1>6, <3>2
      <4> QED
        BY <1>2, <1>3, <1>6, <1>10, <1>11, <3>2, <4>1, <4>2
    <3> QED
      BY <3>1, <3>2
  <2>3. ASSUME NEW i \in 0 .. l PROVE prs[g[i]] = IF i = 0 THEN g[l] ELSE g[i - 1]
    <3>1. CASE i = 0
      BY <1>2, <1>3, <1>6, <1>10, <1>11, <2>0, <3>1
    <3>2. CASE i # 0
      <4>1. i - 1 \in 0 .. l
        BY <1>0, <3>2
      <4>2. i \in 0 .. m /\ f[i] # head /\ f[i] \in ListNodes
        BY <1>2, <1>3, <1>6, <3>2
      <4>3. prs[f[i]] = prev[f[i]] /\ prev[f[i]] = f[i - 1]
        BY <1>2, <1>11, <3>2, <4>2
      <4> QED
        BY <1>10, <3>2, <4>1, <4>3
    <3> QED
      BY <3>1, <3>2
  <2>4. ASSUME NEW i \in 1 .. l PROVE elem[g[i]] \in Contents
    <3>1. i \in 1 .. m /\ i \in 0 .. l
      BY <1>0
    <3> QED
      BY <1>2, <1>10, <3>1
  <2> QED
    BY <1>2, <1>10, <2>0, <2>1, <2>2, <2>3, <2>4 DEF IsRing
<1>13. On(g, l) \subseteq live
  BY <1>2, <1>6, <1>10 DEF On
<1>14. \A x \in live : nxs[x] \in On(g, l)
  <2>1. ASSUME NEW i \in 0 .. l PROVE nxs[g[i]] \in On(g, l)
    <3>1. 0 \in 0 .. l /\ (i # l => i + 1 \in 0 .. l)
      BY <1>0
    <3> QED
      BY <1>12, <3>1 DEF IsRing, On
  <2>2. nxs[f[m]] = head /\ head \in On(g, l)
    <3>1. 0 \in 0 .. l
      BY <1>0
    <3> QED
      BY <1>2, <1>3, <1>6, <1>10, <1>11, <3>1 DEF On
  <2>3. \A i \in 0 .. m : i \in 0 .. l \/ i = m
    BY <1>0
  <2>4. ASSUME NEW i \in 0 .. m PROVE nxs[f[i]] \in On(g, l)
    BY <1>10, <2>1, <2>2, <2>3
  <2> QED
    BY <1>2, <2>4
<1>15. ListInv' /\ List!content' = [k \in 1 .. l |-> elem[g[k]]]
  BY <1>5, <1>7, <1>12, <1>13, <1>14, Relinked
<1>16. PICK s : s = List!content
  OBVIOUS
<1>17. s \in Seq(Contents) /\ Len(s) = m /\ \A k \in 1 .. m : s[k] = elem[f[k]]
  BY <1>1, <1>16, RingContent
<1>18. \A k \in 1 .. l : k \in 1 .. m /\ k \in 0 .. l /\ s[k] = elem[f[k]] /\ s[k] \in Contents
  BY <1>0, <1>2, <1>17
<1>19. List!content' = SubSeq(s, 1, l)
  <2>1. PICK t, u : t = List!content' /\ u = SubSeq(s, 1, l)
    OBVIOUS
  <2>2. t \in Seq(Contents) /\ Len(t) = l /\ \A k \in 1 .. l : t[k] = s[k]
    <3>1. \A k \in 1 .. l : elem[g[k]] = s[k] /\ s[k] \in Contents
      BY <1>10, <1>18
    <3> QED
      BY <1>15, <2>1, <3>1
  <2>3. u \in Seq(Contents) /\ Len(u) = l /\ \A k \in 1 .. l : u[k] = s[k]
    BY <1>18, <2>1, FirstCells
  <2>4. t = u
    BY <2>2, <2>3, SeqEqual
  <2> QED
    BY <2>1, <2>4
<1>20. s # <<>>
  BY <1>3, <1>17
<1> QED
  BY <1>0, <1>15, <1>16, <1>17, <1>19, <1>20

\* push_front puts a node between the sentinel and the first one.
LEMMA ListPushFront ==
    ASSUME ListInv, NEW n \in ListNodes, NEW e \in Contents, List!push_front(n, e)
    PROVE  ListInv' /\ List!content' = <<e>> \o List!content
<1>1. PICK m, f : Rings(f, m)
  BY DEF ListInv, List!push_front
<1>2. /\ m \in Nat /\ f \in [0 .. m -> ListNodes] /\ f[0] = head
      /\ \A i, j \in 0 .. m : f[i] = f[j] => i = j
      /\ \A i \in 0 .. m : next[f[i]] = IF i = m THEN f[0] ELSE f[i + 1]
      /\ \A i \in 0 .. m : prev[f[i]] = IF i = 0 THEN f[m] ELSE f[i - 1]
      /\ \A i \in 1 .. m : elem[f[i]] \in Contents
      /\ live = {f[i] : i \in 0 .. m}
  BY <1>1 DEF Rings, IsRing, On
<1>3. head \in ListNodes /\ \A i \in 0 .. m : f[i] \in ListNodes /\ f[i] # n
  BY <1>1, RingEnds DEF List!push_front, List!NewNode
<1>0. PICK o : o = next[head] /\ o = f[IF m = 0 THEN 0 ELSE 1]
  BY <1>1, RingEnds
<1>4. PICK els, nxs, prs : /\ els = [elem EXCEPT ![n] = e]
                           /\ nxs = [next EXCEPT ![head] = n, ![n] = o]
                           /\ prs = [prev EXCEPT ![n] = head, ![o] = n]
  OBVIOUS
<1>5. head' = head /\ List!Relink(els, nxs, prs, live \cup {n})
  BY <1>0, <1>4 DEF List!push_front, List!FrontLinked
<1>6. /\ m \in 0 .. m /\ 0 \in 0 .. m /\ (m # 0 => 1 \in 0 .. m)
      /\ o \in ListNodes /\ o # n /\ head # n
  BY <1>0, <1>2, <1>3
<1>7. /\ els \in [ListNodes -> Contents \cup {Null}]
      /\ nxs \in [ListNodes -> ListNodes \cup {Null}] /\ prs \in [ListNodes -> ListNodes \cup {Null}]
      /\ live \cup {n} \subseteq ListNodes
  BY <1>3, <1>4, <1>6 DEF ListInv, ListTyped
<1>8. PICK g : g = [i \in 0 .. m + 1 |-> IF i = 0 THEN head ELSE IF i = 1 THEN n ELSE f[i - 1]]
  OBVIOUS
<1>9. \A i \in 0 .. m + 1 : i = 0 \/ i = 1 \/ (i # 0 /\ i # 1 /\ i - 1 \in 1 .. m /\ i - 1 \in 0 .. m)
  BY <1>2
<1>10. /\ g \in [0 .. m + 1 -> ListNodes] /\ g[0] = head /\ g[1] = n
       /\ \A i \in 0 .. m + 1 : i # 0 /\ i # 1 => g[i] = f[i - 1]
  <2>1. 0 \in 0 .. m + 1 /\ 1 \in 0 .. m + 1 /\ 1 # 0
    BY <1>2
  <2>2. \A i \in 0 .. m + 1 :
           (IF i = 0 THEN head ELSE IF i = 1 THEN n ELSE f[i - 1]) \in ListNodes
    BY <1>3, <1>9
  <2> QED
    BY <1>8, <2>1, <2>2
<1>11. /\ \A x \in ListNodes : els[x] = IF x = n THEN e ELSE elem[x]
       /\ \A x \in ListNodes : nxs[x] = IF x = n THEN o ELSE IF x = head THEN n ELSE next[x]
       /\ \A x \in ListNodes : prs[x] = IF x = o THEN n ELSE IF x = n THEN head ELSE prev[x]
  BY <1>4, <1>3, <1>6 DEF ListInv, ListTyped
<1>12. IsRing(g, m + 1, head, els, nxs, prs)
  <2>1. ASSUME NEW i \in 0 .. m + 1, NEW j \in 0 .. m + 1, g[i] = g[j] PROVE i = j
    <3>1. \A k \in 0 .. m + 1 : k # 0 /\ k # 1 => g[k] # head /\ g[k] # n
      <4>1. ASSUME NEW k \in 0 .. m + 1, k # 0, k # 1 PROVE g[k] # head /\ g[k] # n
        <5>1. k - 1 \in 0 .. m /\ k - 1 # 0 /\ g[k] = f[k - 1]
          BY <1>9, <1>10, <4>1
        <5> QED
          BY <1>2, <1>3, <1>6, <5>1
      <4> QED
        BY <4>1
    <3>2. CASE i \in {0, 1} \/ j \in {0, 1}
      BY <1>6, <1>10, <2>1, <3>1, <3>2
    <3>3. CASE ~(i \in {0, 1} \/ j \in {0, 1})
      <4>1. i - 1 \in 0 .. m /\ j - 1 \in 0 .. m /\ f[i - 1] = f[j - 1]
        BY <1>9, <1>10, <2>1, <3>3
      <4>2. i - 1 = j - 1
        BY <1>2, <4>1
      <4> QED
        BY <4>2
    <3> QED
      BY <3>2, <3>3
  <2>2. ASSUME NEW i \in 0 .. m + 1 PROVE nxs[g[i]] = IF i = m + 1 THEN g[0] ELSE g[i + 1]
    <3>1. CASE i = 0
      <4>1. 0 # m + 1 /\ 0 + 1 = 1
        BY <1>2
      <4> QED
        BY <1>3, <1>6, <1>10, <1>11, <3>1, <4>1
    <3>2. CASE i = 1
      <4>1. nxs[g[1]] = o
        BY <1>10, <1>11
      <4>2. CASE m = 0
        <5>1. 1 = m + 1 /\ o = head
          BY <1>0, <1>2, <4>2
        <5> QED
          BY <1>10, <3>2, <4>1, <5>1
      <4>3. CASE m # 0
        <5>1. 1 # m + 1 /\ 1 + 1 = 2 /\ 2 \in 0 .. m + 1 /\ 2 # 0 /\ 2 # 1 /\ 2 - 1 = 1
          BY <1>2, <4>3
        <5>2. g[2] = f[1] /\ o = f[1]
          BY <1>0, <1>10, <4>3, <5>1
        <5> QED
          BY <3>2, <4>1, <5>1, <5>2
      <4> QED
        BY <4>2, <4>3
    <3>3. CASE i # 0 /\ i # 1
      <4>1. /\ i - 1 \in 0 .. m /\ g[i] = f[i - 1] /\ f[i - 1] # head /\ f[i - 1] # n
            /\ f[i - 1] \in ListNodes
        <5>1. i - 1 \in 0 .. m /\ i - 1 # 0 /\ g[i] = f[i - 1]
          BY <1>9, <1>10, <3>3
        <5> QED
          BY <1>2, <1>3, <1>6, <5>1
      <4>2. nxs[g[i]] = next[f[i - 1]]
        BY <1>11, <4>1
      <4>3. CASE i = m + 1
        <5>1. i - 1 = m
          BY <1>2, <4>3
        <5> QED
          BY <1>2, <1>10, <4>1, <4>2, <4>3, <5>1
      <4>4. CASE i # m + 1
        <5>1. i - 1 # m /\ i + 1 \in 0 .. m + 1 /\ i + 1 # 0 /\ i + 1 # 1 /\ (i - 1) + 1 = i /\ (i + 1) - 1 = i
          BY <1>2, <3>3, <4>4
        <5>2. g[i + 1] = f[i] /\ next[f[i - 1]] = f[i]
          BY <1>2, <1>10, <4>1, <5>1
        <5> QED
          BY <4>2, <4>4, <5>2
      <4> QED
        BY <4>3, <4>4
    <3> QED
      BY <3>1, <3>2, <3>3
  <2>3. ASSUME NEW i \in 0 .. m + 1 PROVE prs[g[i]] = IF i = 0 THEN g[m + 1] ELSE g[i - 1]
    <3>1. CASE i = 0
      <4>1. CASE m = 0
        <5>1. o = head /\ m + 1 = 1
          BY <1>0, <1>2, <4>1
        <5> QED
          BY <1>3, <1>10, <1>11, <3>1, <5>1
      <4>2. CASE m # 0
        <5>1. head # o
          BY <1>0, <1>2, <1>6, <4>2
        <5>2. m + 1 \in 0 .. m + 1 /\ m + 1 # 0 /\ m + 1 # 1 /\ m + 1 - 1 = m
          BY <1>2, <4>2
        <5>3. g[m + 1] = f[m]
          <6>1. PICK j \in 0 .. m + 1 : j = m + 1 /\ j # 0 /\ j # 1 /\ j - 1 = m
            BY <1>2, <5>2
          <6>2. g[j] = f[j - 1]
            BY <1>10, <6>1
          <6> QED
            BY <6>1, <6>2
        <5>4. prs[head] = prev[head] /\ prev[head] = f[m]
          BY <1>2, <1>3, <1>6, <1>11, <5>1
        <5> QED
          BY <1>10, <3>1, <5>3, <5>4
      <4> QED
        BY <4>1, <4>2
    <3>2. CASE i = 1
      <4>1. prs[n] = head /\ 1 - 1 = 0 /\ 1 # 0
        BY <1>6, <1>11
      <4> QED
        BY <1>10, <3>2, <4>1
    <3>3. CASE i # 0 /\ i # 1
      <4>1. /\ i - 1 \in 0 .. m /\ i - 1 # 0 /\ g[i] = f[i - 1] /\ f[i - 1] # n
            /\ f[i - 1] \in ListNodes /\ i - 1 \in 0 .. m + 1
        <5>1. i - 1 \in 0 .. m /\ g[i] = f[i - 1]
          BY <1>9, <1>10, <3>3
        <5>2. i - 1 # 0 /\ i - 1 \in 0 .. m + 1
          BY <1>2, <3>3, <5>1
        <5> QED
          BY <1>3, <5>1, <5>2
      <4>2. CASE i = 2
        <5>1. i - 1 = 1 /\ m # 0
          BY <1>2, <4>2
        <5>2. f[i - 1] = o
          BY <1>0, <5>1
        <5> QED
          BY <1>10, <1>11, <3>3, <4>1, <5>1, <5>2
      <4>3. CASE i # 2
        <5>1. i - 1 # 0 /\ i - 1 # 1 /\ m # 0
          BY <1>2, <3>3, <4>3
        <5>2. f[i - 1] # o
          BY <1>0, <1>2, <1>6, <4>1, <5>1
        <5>3. prs[f[i - 1]] = prev[f[i - 1]] /\ prev[f[i - 1]] = f[(i - 1) - 1]
          BY <1>2, <1>11, <4>1, <5>2
        <5>4. g[i - 1] = f[(i - 1) - 1]
          BY <1>10, <4>1, <5>1
        <5> QED
          BY <3>3, <4>1, <5>3, <5>4
      <4> QED
        BY <4>2, <4>3
    <3> QED
      BY <3>1, <3>2, <3>3
  <2>4. ASSUME NEW i \in 1 .. m + 1 PROVE els[g[i]] \in Contents
    <3>1. CASE i = 1
      <4>1. g[1] = n /\ els[n] \in Contents
        BY <1>10, <1>11
      <4> QED
        BY <3>1, <4>1
    <3>2. CASE i # 1
      <4>1. i # 0 /\ i \in 0 .. m + 1 /\ i - 1 \in 1 .. m /\ i - 1 \in 0 .. m
        BY <1>2, <3>2
      <4>2. g[i] = f[i - 1] /\ f[i - 1] # n /\ f[i - 1] \in ListNodes
        BY <1>3, <1>10, <3>2, <4>1
      <4>3. elem[f[i - 1]] \in Contents
        BY <1>2, <4>1
      <4> QED
        BY <1>11, <4>2, <4>3
    <3> QED
      BY <3>1, <3>2
  <2> QED
    BY <1>2, <1>10, <2>1, <2>2, <2>3, <2>4 DEF IsRing
<1>13. On(g, m + 1) = live \cup {n}
  <2>1. ASSUME NEW i \in 0 .. m + 1 PROVE g[i] \in live \cup {n}
    BY <1>2, <1>6, <1>9, <1>10
  <2>2. ASSUME NEW i \in 0 .. m PROVE f[i] \in On(g, m + 1)
    <3>1. CASE i = 0
      <4>1. 0 \in 0 .. m + 1
        BY <1>2
      <4> QED
        BY <1>2, <1>10, <3>1, <4>1 DEF On
    <3>2. CASE i # 0
      <4>1. i + 1 \in 0 .. m + 1 /\ i + 1 # 0 /\ i + 1 # 1 /\ (i + 1) - 1 = i
        BY <1>2, <3>2
      <4>2. g[i + 1] = f[i]
        BY <1>10, <4>1
      <4> QED
        BY <4>1, <4>2 DEF On
    <3> QED
      BY <3>1, <3>2
  <2>3. n \in On(g, m + 1)
    <3>1. 1 \in 0 .. m + 1
      BY <1>2
    <3> QED
      BY <1>10, <3>1 DEF On
  <2> QED
    BY <1>2, <2>1, <2>2, <2>3 DEF On
<1>14. \A x \in live \cup {n} : nxs[x] \in On(g, m + 1)
  <2>1. ASSUME NEW i \in 0 .. m + 1 PROVE nxs[g[i]] \in On(g, m + 1)
    <3>1. 0 \in 0 .. m + 1 /\ (i # m + 1 => i + 1 \in 0 .. m + 1)
      BY <1>2
    <3> QED
      BY <1>12, <3>1 DEF IsRing, On
  <2> QED
    BY <1>13, <2>1 DEF On
<1>15. ListInv' /\ List!content' = [k \in 1 .. m + 1 |-> els[g[k]]]
  BY <1>5, <1>7, <1>12, <1>13, <1>14, Relinked
<1>16. List!content' = <<e>> \o List!content
  <2>1. PICK s : s = List!content
    OBVIOUS
  <2>2. s \in Seq(Contents) /\ Len(s) = m /\ \A k \in 1 .. m : s[k] = elem[f[k]]
    BY <1>1, <2>1, RingContent
  <2>3. PICK t : t = List!content'
    OBVIOUS
  <2>4. t \in Seq(Contents) /\ Len(t) = m + 1 /\ \A k \in 1 .. m + 1 : t[k] = els[g[k]]
    <3>1. m + 1 \in Nat /\ \A k \in 1 .. m + 1 : els[g[k]] \in Contents
      BY <1>2, <1>12 DEF IsRing
    <3> QED
      BY <1>15, <2>3, <3>1
  <2>5. PICK q, u : q = <<e>> /\ u = q \o s
    OBVIOUS
  <2>6. q \in Seq(Contents) /\ Len(q) = 1 /\ q[1] = e
    BY <2>5
  <2>7. /\ u \in Seq(Contents) /\ Len(u) = Len(q) + Len(s)
        /\ \A k \in 1 .. Len(q) + Len(s) : u[k] = IF k <= Len(q) THEN q[k] ELSE s[k - Len(q)]
    BY <2>2, <2>5, <2>6, ConcatProperties
  <2>8. Len(u) = m + 1 /\ \A k \in 1 .. m + 1 : u[k] = IF k <= 1 THEN q[k] ELSE s[k - 1]
    <3>1. 1 + m = m + 1
      BY <1>2
    <3> QED
      BY <2>2, <2>6, <2>7, <3>1
  <2>9. ASSUME NEW k \in 1 .. m + 1 PROVE t[k] = u[k]
    <3>1. CASE k = 1
      BY <1>10, <1>11, <2>4, <2>6, <2>8, <3>1
    <3>2. CASE k # 1
      <4>1. k - 1 \in 1 .. m /\ k - 1 \in 0 .. m /\ k \in 0 .. m + 1 /\ k # 0 /\ ~(k <= 1)
        BY <1>2, <3>2
      <4>2. t[k] = els[f[k - 1]]
        BY <1>10, <2>4, <3>2, <4>1
      <4>3. els[f[k - 1]] = elem[f[k - 1]]
        BY <1>3, <1>11, <4>1
      <4>4. u[k] = s[k - 1] /\ s[k - 1] = elem[f[k - 1]]
        BY <2>2, <2>8, <4>1
      <4> QED
        BY <4>2, <4>3, <4>4
    <3> QED
      BY <3>1, <3>2
  <2>10. t = u
    BY <2>4, <2>7, <2>8, <2>9, SeqEqual
  <2> QED
    BY <2>1, <2>3, <2>5, <2>10
<1> QED
  BY <1>15, <1>16

\* pop_front takes the first node out.
LEMMA ListPopFront ==
    ASSUME ListInv, List!pop_front
    PROVE  ListInv' /\ List!content # <<>> /\ List!content' = Tail(List!content)
<1>1. PICK m, f : Rings(f, m)
  BY DEF ListInv, List!pop_front
<1>2. /\ m \in Nat /\ f \in [0 .. m -> ListNodes] /\ f[0] = head
      /\ \A i, j \in 0 .. m : f[i] = f[j] => i = j
      /\ \A i \in 0 .. m : next[f[i]] = IF i = m THEN f[0] ELSE f[i + 1]
      /\ \A i \in 0 .. m : prev[f[i]] = IF i = 0 THEN f[m] ELSE f[i - 1]
      /\ \A i \in 1 .. m : elem[f[i]] \in Contents
      /\ live = {f[i] : i \in 0 .. m}
  BY <1>1 DEF Rings, IsRing, On
<1>3. m # 0 /\ \A i \in 0 .. m : f[i] \in ListNodes
  BY <1>1, RingEnds DEF List!pop_front
<1>0. PICK l \in Nat : m = l + 1 /\ m - 1 = l
  <2>1. m - 1 \in Nat /\ m = (m - 1) + 1
    BY <1>2, <1>3
  <2> QED
    BY <2>1
<1>4. PICK o : o = next[next[head]] /\ o = f[IF m = 1 THEN 0 ELSE 2]
  <2>1. next[head] = f[1] /\ next[f[1]] = f[IF m = 1 THEN 0 ELSE 2]
    BY <1>1, <1>3, RingEnds
  <2> QED
    BY <2>1
<1>5. PICK nxs, prs : nxs = [next EXCEPT ![head] = o] /\ prs = [prev EXCEPT ![o] = head]
  OBVIOUS
<1>6. head' = head /\ List!Relink(elem, nxs, prs, live)
  BY <1>4, <1>5 DEF List!pop_front
<1>7. /\ 1 \in 0 .. m /\ m \in 0 .. m /\ 0 \in 0 .. m /\ 0 \in 0 .. l /\ l \in 0 .. l /\ (m # 1 => 2 \in 0 .. m)
      /\ \A i \in 0 .. l : i # 0 => i + 1 \in 0 .. m /\ i + 1 # 0 /\ i + 1 # 1
  BY <1>0
<1>8. o \in ListNodes
  BY <1>3, <1>4, <1>7
<1>9. /\ elem \in [ListNodes -> Contents \cup {Null}]
      /\ nxs \in [ListNodes -> ListNodes \cup {Null}] /\ prs \in [ListNodes -> ListNodes \cup {Null}]
      /\ live \subseteq ListNodes /\ head \in ListNodes
  BY <1>1, <1>5, <1>8, RingEnds DEF ListInv, ListTyped
<1>10. PICK g : g = [i \in 0 .. l |-> IF i = 0 THEN head ELSE f[i + 1]]
  OBVIOUS
<1>11. g \in [0 .. l -> ListNodes] /\ g[0] = head /\ \A i \in 0 .. l : i # 0 => g[i] = f[i + 1]
  <2>1. \A i \in 0 .. l : (IF i = 0 THEN head ELSE f[i + 1]) \in ListNodes
    BY <1>3, <1>7, <1>9
  <2> QED
    BY <1>7, <1>10, <2>1
<1>12. /\ \A x \in ListNodes : nxs[x] = IF x = head THEN o ELSE next[x]
       /\ \A x \in ListNodes : prs[x] = IF x = o THEN head ELSE prev[x]
  BY <1>5 DEF ListInv, ListTyped
<1>13. IsRing(g, l, head, elem, nxs, prs)
  <2>1. ASSUME NEW i \in 0 .. l, NEW j \in 0 .. l, g[i] = g[j] PROVE i = j
    <3>1. \A k \in 0 .. l : k # 0 => g[k] # head
      BY <1>2, <1>7, <1>11
    <3>2. CASE i = 0 \/ j = 0
      BY <1>11, <2>1, <3>1, <3>2
    <3>3. CASE i # 0 /\ j # 0
      <4>2. i + 1 \in 0 .. m /\ j + 1 \in 0 .. m /\ f[i + 1] = f[j + 1]
        BY <1>7, <1>11, <2>1, <3>3
      <4>1. i + 1 = j + 1
        BY <1>2, <4>2
      <4> QED
        BY <4>1
    <3> QED
      BY <3>2, <3>3
  <2>2. ASSUME NEW i \in 0 .. l PROVE nxs[g[i]] = IF i = l THEN g[0] ELSE g[i + 1]
    <3>1. CASE i = 0
      <4>1. nxs[g[i]] = o
        BY <1>9, <1>11, <1>12, <3>1
      <4>2. CASE l = 0
        <5>1. m = 1
          BY <1>0, <4>2
        <5> QED
          BY <1>2, <1>4, <1>11, <3>1, <4>1, <4>2, <5>1
      <4>3. CASE l # 0
        <5>1. m # 1 /\ 1 \in 0 .. l /\ 0 + 1 = 1 /\ 1 + 1 = 2 /\ 1 # 0
          BY <1>0, <4>3
        <5>2. g[1] = f[2]
          BY <1>11, <5>1
        <5> QED
          BY <1>4, <3>1, <4>1, <4>3, <5>1, <5>2
      <4> QED
        BY <4>2, <4>3
    <3>2. CASE i # 0
      <4>1. i + 1 \in 0 .. m /\ i + 1 # 0 /\ g[i] = f[i + 1] /\ f[i + 1] # head /\ f[i + 1] \in ListNodes
        BY <1>2, <1>3, <1>7, <1>11, <3>2
      <4>2. nxs[g[i]] = next[f[i + 1]]
        BY <1>12, <4>1
      <4>3. CASE i = l
        <5>1. i + 1 = m
          BY <1>0, <4>3
        <5> QED
          BY <1>2, <1>11, <4>1, <4>2, <4>3, <5>1
      <4>4. CASE i # l
        <5>1. i + 1 # m /\ i + 1 \in 0 .. l
          BY <1>0, <4>4
        <5>2. next[f[i + 1]] = f[(i + 1) + 1] /\ g[i + 1] = f[(i + 1) + 1]
          BY <1>2, <1>11, <4>1, <5>1
        <5> QED
          BY <4>2, <4>4, <5>2
      <4> QED
        BY <4>3, <4>4
    <3> QED
      BY <3>1, <3>2
  <2>3. ASSUME NEW i \in 0 .. l PROVE prs[g[i]] = IF i = 0 THEN g[l] ELSE g[i - 1]
    <3>1. CASE i = 0
      <4>1. CASE l = 0
        <5>1. o = head
          BY <1>0, <1>2, <1>4, <4>1
        <5> QED
          BY <1>9, <1>11, <1>12, <3>1, <4>1, <5>1
      <4>2. CASE l # 0
        <5>1. head # o
          BY <1>0, <1>2, <1>4, <1>7, <4>2
        <5>2. g[l] = f[m]
          BY <1>0, <1>7, <1>11, <4>2
        <5>3. prs[head] = prev[head] /\ prev[head] = f[m]
          BY <1>2, <1>7, <1>9, <1>12, <5>1
        <5> QED
          BY <1>11, <3>1, <5>2, <5>3
      <4> QED
        BY <4>1, <4>2
    <3>2. CASE i # 0
      <4>1. i + 1 \in 0 .. m /\ i + 1 # 0 /\ g[i] = f[i + 1] /\ f[i + 1] \in ListNodes /\ (i + 1) - 1 = i
        BY <1>2, <1>3, <1>7, <1>11, <3>2
      <4>2. CASE i = 1
        <5>1. m # 1 /\ i + 1 = 2 /\ 1 - 1 = 0
          BY <1>0, <4>2
        <5>2. f[i + 1] = o
          BY <1>4, <5>1
        <5> QED
          BY <1>11, <1>12, <3>2, <4>1, <4>2, <5>1, <5>2
      <4>3. CASE i # 1
        <5>1. i + 1 # 2 /\ i - 1 \in 0 .. l /\ i - 1 # 0 /\ (i - 1) + 1 = i /\ m # 1
          BY <1>0, <3>2, <4>3
        <5>2. f[i + 1] # o
          BY <1>2, <1>4, <1>7, <4>1, <5>1
        <5>3. prs[f[i + 1]] = prev[f[i + 1]] /\ prev[f[i + 1]] = f[i]
          BY <1>2, <1>12, <4>1, <5>2
        <5>4. g[i - 1] = f[i]
          BY <1>11, <5>1
        <5> QED
          BY <3>2, <4>1, <5>3, <5>4
      <4> QED
        BY <4>2, <4>3
    <3> QED
      BY <3>1, <3>2
  <2>4. ASSUME NEW i \in 1 .. l PROVE elem[g[i]] \in Contents
    <3>1. i \in 0 .. l /\ i # 0 /\ i + 1 \in 1 .. m
      BY <1>0
    <3> QED
      BY <1>2, <1>11, <3>1
  <2> QED
    BY <1>2, <1>11, <2>1, <2>2, <2>3, <2>4 DEF IsRing
<1>14. On(g, l) \subseteq live
  <2>1. ASSUME NEW i \in 0 .. l PROVE g[i] \in live
    BY <1>2, <1>7, <1>11
  <2> QED
    BY <2>1 DEF On
<1>15. \A x \in live : nxs[x] \in On(g, l)
  <2>1. ASSUME NEW i \in 0 .. l PROVE nxs[g[i]] \in On(g, l)
    <3>1. 0 \in 0 .. l /\ (i # l => i + 1 \in 0 .. l)
      BY <1>0
    <3> QED
      BY <1>13, <3>1 DEF IsRing, On
  <2>2. nxs[f[1]] = nxs[g[0]]
    <3>1. f[1] # head /\ f[1] \in ListNodes
      BY <1>2, <1>3, <1>7
    <3>2. next[f[1]] = o
      BY <1>1, <1>3, <1>4, RingEnds
    <3> QED
      BY <1>9, <1>11, <1>12, <3>1, <3>2
  <2>3. ASSUME NEW i \in 0 .. m PROVE nxs[f[i]] \in On(g, l)
    <3>1. CASE i = 0
      BY <1>2, <1>7, <1>11, <2>1, <3>1
    <3>2. CASE i = 1
      BY <1>7, <2>1, <2>2, <3>2
    <3>3. CASE i # 0 /\ i # 1
      <4>1. i - 1 \in 0 .. l /\ i - 1 # 0 /\ (i - 1) + 1 = i
        BY <1>0, <3>3
      <4>2. g[i - 1] = f[i]
        BY <1>11, <4>1
      <4> QED
        BY <2>1, <4>1, <4>2
    <3> QED
      BY <3>1, <3>2, <3>3
  <2> QED
    BY <1>2, <2>3
<1>16. ListInv' /\ List!content' = [k \in 1 .. l |-> elem[g[k]]]
  BY <1>6, <1>9, <1>13, <1>14, <1>15, Relinked
<1>17. PICK s : s = List!content
  OBVIOUS
<1>18. s \in Seq(Contents) /\ Len(s) = m /\ \A k \in 1 .. m : s[k] = elem[f[k]]
  BY <1>1, <1>17, RingContent
<1>19. s # <<>>
  BY <1>3, <1>18
<1>20. List!content' = Tail(s)
  <2>1. PICK t, u : t = List!content' /\ u = Tail(s)
    OBVIOUS
  <2>2. t \in Seq(Contents) /\ Len(t) = l /\ \A k \in 1 .. l : t[k] = elem[g[k]]
    <3>1. l \in Nat /\ \A k \in 1 .. l : elem[g[k]] \in Contents
      BY <1>13 DEF IsRing
    <3> QED
      BY <1>16, <2>1, <3>1
  <2>3. u \in Seq(Contents) /\ Len(u) = l /\ \A k \in 1 .. l : u[k] = s[k + 1]
    <3>1. u \in Seq(Contents) /\ Len(u) = Len(s) - 1 /\ \A k \in 1 .. Len(u) : u[k] = s[k + 1]
      BY <1>18, <1>19, <2>1, HeadTailProperties
    <3>2. Len(s) - 1 = l
      BY <1>0, <1>18
    <3> QED
      BY <3>1, <3>2
  <2>4. ASSUME NEW k \in 1 .. l PROVE t[k] = u[k]
    <3>1. k \in 0 .. l /\ k # 0 /\ k + 1 \in 1 .. m
      BY <1>0
    <3> QED
      BY <1>11, <1>18, <2>2, <2>3, <3>1
  <2>5. t = u
    BY <2>2, <2>3, <2>4, SeqEqual
  <2> QED
    BY <2>1, <2>5
<1> QED
  BY <1>16, <1>17, <1>19, <1>20

\* The destructor leaves the ring alone and lets go of it.
LEMMA ListDestroys ==
    ASSUME ListInv, List!Destroy
    PROVE  ListInv' /\ List!content' = <<>>
<1>1. head' = Null
  BY DEF List!Destroy
<1>2. ListTyped'
  BY <1>1 DEF List!Destroy, List!Relink, ListInv, ListTyped
<1> QED
  BY <1>1, <1>2 DEF ListInv, List!content

\* Every step of the program keeps the list in order and its promise.
LEMMA NextList ==
    ASSUME ListInv, [Next]_allVars
    PROVE  ListInv' /\ [List!Promise!Next]_(List!content)
<1>1. CASE UNCHANGED listVars
  <2>1. head' = head /\ live' = live /\ elem' = elem /\ next' = next /\ prev' = prev
    BY <1>1 DEF listVars
  <2>2. ListInv'
    BY <2>1 DEF ListInv, ListTyped, Rings
  <2>3. List!content' = List!content
    BY <2>1 DEF List!content, List!Walk, List!Cardinality
  <2> QED
    BY <2>2, <2>3
<1>2. CASE List!Next
  <2>1. ASSUME NEW n \in ListNodes, NEW e \in Contents, List!push_back(n, e)
        PROVE  ListInv' /\ List!Promise!Next
    <3>1. ListInv' /\ List!content' = Append(List!content, e)
      BY <2>1, ListPushBack
    <3> QED
      BY <3>1 DEF List!Promise!Next, List!Promise!PushBack
  <2>2. ASSUME NEW n \in ListNodes, NEW e \in Contents, List!push_front(n, e)
        PROVE  ListInv' /\ List!Promise!Next
    <3>1. ListInv' /\ List!content' = <<e>> \o List!content
      BY <2>2, ListPushFront
    <3> QED
      BY <3>1 DEF List!Promise!Next, List!Promise!PushFront
  <2>3. CASE List!pop_back
    BY <2>3, ListPopBack DEF List!Promise!Next, List!Promise!PopBack
  <2>4. CASE List!pop_front
    BY <2>4, ListPopFront DEF List!Promise!Next, List!Promise!PopFront
  <2>5. CASE List!Destroy
    BY <2>5, ListDestroys DEF List!Promise!Next, List!Promise!Discard
  <2> QED
    BY <1>2, <2>1, <2>2, <2>3, <2>4, <2>5 DEF List!Next
<1> QED
  BY <1>1, <1>2, ContainerSteps

\* What ListInv says of the members.
LEMMA ListSound == ListInv => List!RingsAgree /\ List!TypeOK
<1> SUFFICES ASSUME ListInv PROVE List!RingsAgree /\ List!TypeOK
  OBVIOUS
<1>1. List!TypeOK
  BY DEF ListInv, ListTyped, List!TypeOK
<1>2. ASSUME head # Null
      PROVE  /\ \A n \in live : next[n] \in live /\ prev[next[n]] = n
             /\ live = {List!Walk[k] : k \in 0 .. List!Cardinality(live) - 1}
  <2>1. PICK m, f : Rings(f, m)
    BY <1>2 DEF ListInv
  <2>2. /\ m \in Nat /\ live = {f[i] : i \in 0 .. m}
        /\ \A i \in 0 .. m : next[f[i]] = IF i = m THEN f[0] ELSE f[i + 1]
        /\ \A i \in 0 .. m : prev[f[i]] = IF i = 0 THEN f[m] ELSE f[i - 1]
    BY <2>1 DEF Rings, IsRing, On
  <2>3. ASSUME NEW i \in 0 .. m PROVE next[f[i]] \in live /\ prev[next[f[i]]] = f[i]
    <3>1. CASE i = m
      <4>1. 0 \in 0 .. m
        BY <2>2
      <4> QED
        BY <2>2, <3>1, <4>1
    <3>2. CASE i # m
      <4>1. i + 1 \in 0 .. m /\ i + 1 # 0 /\ (i + 1) - 1 = i
        BY <2>2, <3>2
      <4> QED
        BY <2>2, <3>2, <4>1
    <3> QED
      BY <3>1, <3>2
  <2>4. List!Cardinality(live) - 1 = m
    <3>1. List!Cardinality(live) = m + 1
      BY <2>1, RingSays DEF RingHolds, Cardinality, List!Cardinality
    <3> QED
      BY <2>2, <3>1
  <2>5. \A k \in 0 .. m : List!Walk[k] = f[k]
    BY <2>1, RingSays DEF RingHolds
  <2>6. \A n \in live : next[n] \in live /\ prev[next[n]] = n
    BY <2>2, <2>3
  <2>7. {List!Walk[k] : k \in 0 .. m} = {f[k] : k \in 0 .. m}
    BY <2>5
  <2> QED
    BY <2>2, <2>4, <2>6, <2>7
<1> QED
  BY <1>1, <1>2 DEF List!RingsAgree
-----------------------------------------------------------------------------
(* MinHeap *)

\* What the proofs use of the constants.
LEMMA HeapConstants == Numbers \subseteq Nat /\ MaxHeapSize \in Nat /\ MaxHeapSize > 1
  BY RoutinesAssumption DEF ContainersAssumption, Heap!HeapAssumption

\* What holds at 0 and is kept by each step up to n holds until n.
LEMMA UpTo ==
    ASSUME NEW n \in Nat, NEW P, 0 \in P, \A k \in 1 .. n : k - 1 \in P => k \in P
    PROVE  \A k \in 0 .. n : k \in P
<1> DEFINE Bad == {k \in 0 .. n : k \notin P}
<1>1. SUFFICES ASSUME Bad # {} PROVE FALSE
  OBVIOUS
<1>2. PICK m \in Bad : \A k \in Bad : m <= k
  <2>1. Bad \subseteq Nat
    OBVIOUS
  <2> HIDE DEF Bad
  <2> QED
    BY <1>1, <2>1, LeastNat
<1>3. m \in 1 .. n
  BY <1>2
<1>4. m - 1 \notin Bad /\ m - 1 \in 0 .. n
  BY <1>2, <1>3
<1> QED
  BY <1>2, <1>3, <1>4

\* n functions applied in turn, and one function n times.
Runs(g, T, base, n, st) ==
    g \in [0 .. n -> T] /\ g[0] = base /\ \A k \in 1 .. n : g[k] = st[k][g[k - 1]]
Repeats(g, T, base, n, one) ==
    g \in [0 .. n -> T] /\ g[0] = base /\ \A k \in 1 .. n : g[k] = one[g[k - 1]]

LEMMA Iterate ==
    ASSUME NEW T, NEW base \in T, NEW n \in Nat, NEW st \in [1 .. n -> [T -> T]]
    PROVE  \E g : Runs(g, T, base, n, st)
<1> DEFINE Run(g, m) == g \in [0 .. m -> T] /\ g[0] = base /\ \A k \in 1 .. m : g[k] = st[k][g[k - 1]]
           P == {m \in 0 .. n : \E g : Run(g, m)}
<1>1. 0 \in P
  <2>1. Run([k \in 0 .. 0 |-> base], 0)
    OBVIOUS
  <2> HIDE DEF Run
  <2> QED
    BY <2>1
<1>2. ASSUME NEW m \in 1 .. n, m - 1 \in P PROVE m \in P
  <2>1. PICK l \in Nat : l = m - 1 /\ m = l + 1 /\ l \in P
    BY <1>2
  <2>2. PICK g : Run(g, l)
    BY <2>1
  <2> DEFINE h == [k \in 0 .. m |-> IF k = m THEN st[m][g[l]] ELSE g[k]]
  <2>3. g[l] \in T /\ st[m] \in [T -> T]
    BY <2>1, <2>2
  <2>4. \A k \in 0 .. m : k # m => k \in 0 .. l
    BY <2>1
  <2>5. h \in [0 .. m -> T]
    BY <2>2, <2>3, <2>4
  <2>6. h[0] = base
    BY <2>1, <2>2
  <2>7. ASSUME NEW k \in 1 .. m PROVE h[k] = st[k][h[k - 1]]
    <3>1. k - 1 \in 0 .. m /\ k - 1 # m /\ (k # m => k \in 1 .. l) /\ (k = m => k - 1 = l)
      BY <2>1
    <3> QED
      BY <2>2, <3>1
  <2>8. Run(h, m)
    BY <2>5, <2>6, <2>7
  <2> HIDE DEF Run
  <2> QED
    BY <2>8
<1>3. \A m \in 1 .. n : m - 1 \in P => m \in P
  BY <1>2
<1>4. \A m \in 0 .. n : m \in P
  <2> HIDE DEF P
  <2> QED
    BY <1>1, <1>3, UpTo
<1>5. PICK g : Run(g, n)
  BY <1>4
<1> QED
  BY <1>5 DEF Runs

LEMMA IterateOne ==
    ASSUME NEW T, NEW base \in T, NEW n \in Nat, NEW one \in [T -> T]
    PROVE  \E g : Repeats(g, T, base, n, one)
<1> DEFINE st == [k \in 1 .. n |-> one]
<1>1. st \in [1 .. n -> [T -> T]]
  OBVIOUS
<1>2. PICK g : Runs(g, T, base, n, st)
  <2> HIDE DEF st
  <2> QED
    BY <1>1, Iterate
<1> QED
  BY <1>2 DEF Runs, Repeats

\* The arrays in use of length L; the positions below another; the fathers from lo on are
\* no greater than their children; a position in such an array.
Arrays(L) == [1 .. L -> Numbers]
Child(i, c) == c = 2 * i \/ c = 2 * i + 1
OrderedFrom(t, L, lo) == \A i, c \in 1 .. L : lo <= i /\ Child(i, c) => t[i] <= t[c]
At(L) == [root : 1 .. L, s : Arrays(L)]
SameCounts(a, b) == \A v : Count(b, v) = Count(a, v)
SameElsewhere(t, u, L, i, j) == \A k \in 1 .. L : k # i /\ k # j => u[k] = t[k]

\* Arrays are sequences.
LEMMA ArraysAreSequences ==
    ASSUME NEW L \in Nat, NEW s
    PROVE  s \in Arrays(L) <=> s \in Seq(Numbers) /\ Len(s) = L
  BY DEF Arrays

\* What Swapped does to an array.
Swaps(t, u, L, i, j) ==
    /\ u \in Arrays(L) /\ u[i] = t[j] /\ u[j] = t[i]
    /\ SameElsewhere(t, u, L, i, j) /\ SameCounts(t, u)

LEMMA SwapIs ==
    ASSUME NEW L \in Nat, NEW t \in Arrays(L), NEW i \in 1 .. L, NEW j \in 1 .. L, NEW u, u = Heap!Swapped(t, i, j)
    PROVE  Swaps(t, u, L, i, j)
<1>1. /\ u \in Arrays(L) /\ u[i] = t[j] /\ u[j] = t[i]
      /\ \A k \in 1 .. L : k # i /\ k # j => u[k] = t[k]
  BY DEF Heap!Swapped, Arrays
<1>2. Exchanged(t, u, i, j)
  BY <1>1 DEF Exchanged, Arrays
<1>3. IsFiniteSet(DOMAIN t)
  BY FS_Interval DEF Arrays
<1> QED
  BY <1>1, <1>2, <1>3, ExchangeCounts DEF SameCounts, SameElsewhere, Swaps

\* MinPos is where the least of an element and its children is.
LEMMA MinPosIs ==
    ASSUME NEW L \in Nat, NEW t \in Arrays(L), NEW r \in 1 .. L, NEW p, p = Heap!MinPos(t, r)
    PROVE  /\ p \in 1 .. L /\ (p = r \/ (Child(r, p) /\ t[p] < t[r]))
           /\ \A c \in 1 .. L : Child(r, c) => t[p] <= t[c]
<1> DEFINE family == {r, r * 2, r * 2 + 1} \cap DOMAIN t
           least(i) == \A j \in family \ {i} : t[i] < t[j] \/ (t[i] = t[j] /\ i < j)
<1>1. DOMAIN t = 1 .. L /\ \A i \in 1 .. L : t[i] \in Nat
  BY HeapConstants DEF Arrays
<1>2. \E i \in family : least(i)
  <2> DEFINE vals == {t[i] : i \in family}
  <2>1. vals \subseteq Nat /\ vals # {}
    <3>1. r \in family
      BY <1>1
    <3> QED
      BY <3>1, <1>1
  <2>2. PICK v \in vals : \A w \in vals : v <= w
    <3> HIDE DEF vals
    <3> QED
      BY <2>1, LeastNat
  <2> DEFINE places == {i \in family : t[i] = v}
  <2>3. places \subseteq Nat /\ places # {}
    <3>1. PICK i \in family : t[i] = v
      BY <2>2
    <3>2. family \subseteq Nat
      BY <1>1
    <3> QED
      BY <3>1, <3>2
  <2>4. PICK i \in places : \A j \in places : i <= j
    <3> HIDE DEF places
    <3> QED
      BY <2>3, LeastNat
  <2>5. \A j \in family : t[i] <= t[j] /\ (t[i] = t[j] => i <= j)
    BY <2>2, <2>4
  <2>6. least(i)
    BY <2>3, <2>4, <2>5, <1>1
  <2> QED
    BY <2>4, <2>6
<1>3. p \in family /\ least(p)
  <2>1. p = CHOOSE i \in family : least(i)
    BY DEF Heap!MinPos
  <2> HIDE DEF family, least
  <2> QED
    BY <2>1, <1>2
<1>4. p \in 1 .. L /\ (p = r \/ Child(r, p))
  BY <1>1, <1>3 DEF Child
<1>5. \A j \in family : t[p] <= t[j]
  BY <1>1, <1>3
<1>6. p # r => t[p] < t[r]
  BY <1>1, <1>3, <1>4 DEF Child
<1>7. \A c \in 1 .. L : Child(r, c) => t[p] <= t[c]
  BY <1>1, <1>5 DEF Child
<1> QED
  BY <1>4, <1>6, <1>7

\* down: an array that is ordered from lo on but for the children of r, which are ordered
\* towards the father of r.
SinkOrdered(t, L, lo, r) ==
    /\ lo <= r
    /\ \A i, c \in 1 .. L : lo <= i /\ i # r /\ Child(i, c) => t[i] <= t[c]
    /\ \A i, c \in 1 .. L : lo <= i /\ Child(i, r) /\ Child(r, c) => t[i] <= t[c]

\* One round of down.
LEMMA SunkIs ==
    ASSUME NEW L \in Nat, NEW h \in At(L), NEW k, k = Heap!Sunk(h)
    PROVE  k \in At(L) /\ SameCounts(h.s, k.s)
<1>1. /\ h.root \in 1 .. L /\ h.s \in Arrays(L) /\ k.root = Heap!MinPos(h.s, h.root)
      /\ k.s = Heap!Swapped(h.s, h.root, k.root) /\ k = [root |-> k.root, s |-> k.s]
  BY DEF At, Heap!Sunk
<1>2. k.root \in 1 .. L
  BY <1>1, MinPosIs
<1>3. k.s \in Arrays(L) /\ SameCounts(h.s, k.s)
  <2>1. Swaps(h.s, k.s, L, h.root, k.root)
    BY <1>1, <1>2, SwapIs
  <2> QED
    BY <2>1 DEF Swaps
<1> QED
  BY <1>1, <1>2, <1>3 DEF At

\* An exchange of an element with its least child, which is smaller.
LEMMA SinkOne ==
    ASSUME NEW L \in Nat, NEW t \in Arrays(L), NEW lo \in 1 .. L, NEW r \in 1 .. L, NEW p \in 1 .. L,
           SinkOrdered(t, L, lo, r), Child(r, p), t[p] < t[r],
           \A c \in 1 .. L : Child(r, c) => t[p] <= t[c],
           NEW u \in Arrays(L), u[r] = t[p], u[p] = t[r],
           SameElsewhere(t, u, L, r, p)
    PROVE  SinkOrdered(u, L, lo, p) /\ r < p
<1>1. /\ \A i \in 1 .. L : t[i] \in Nat
      /\ \A i \in 1 .. L : i # r /\ i # p => u[i] = t[i]
  BY HeapConstants DEF Arrays, SameElsewhere
<1>2. r < p /\ lo <= p
  BY DEF Child, SinkOrdered
<1>3. ASSUME NEW i \in 1 .. L, NEW c \in 1 .. L, lo <= i, i # p, Child(i, c) PROVE u[i] <= u[c]
  <2>1. CASE i = r
    BY <1>1, <1>3, <2>1
  <2>2. CASE i # r /\ c = r
    BY <1>1, <1>3, <2>2 DEF SinkOrdered
  <2>3. CASE i # r /\ c # r
    <3>1. c # p
      BY <1>3, <2>3 DEF Child
    <3> QED
      BY <1>1, <1>3, <2>3, <3>1 DEF SinkOrdered
  <2> QED
    BY <2>1, <2>2, <2>3
<1>4. ASSUME NEW i \in 1 .. L, NEW c \in 1 .. L, lo <= i, Child(i, p), Child(p, c) PROVE u[i] <= u[c]
  <2>1. i = r /\ c # r /\ c # p
    BY <1>2, <1>4 DEF Child
  <2>2. t[p] <= t[c]
    BY <1>2, <1>4 DEF SinkOrdered
  <2> QED
    BY <1>1, <2>1, <2>2
<1> QED
  BY <1>2, <1>3, <1>4 DEF SinkOrdered

\* A round of down orders the array, or goes on below; what is ordered it leaves so.
LEMMA RoundOrders ==
    ASSUME NEW L \in Nat, NEW t \in Arrays(L), NEW lo \in 1 .. L, NEW r \in 1 .. L,
           NEW p \in 1 .. L, p = r \/ (Child(r, p) /\ t[p] < t[r]),
           \A c \in 1 .. L : Child(r, c) => t[p] <= t[c],
           NEW u \in Arrays(L), u[r] = t[p], u[p] = t[r],
           SameElsewhere(t, u, L, r, p), SinkOrdered(t, L, lo, r)
    PROVE  /\ SinkOrdered(u, L, lo, p)
           /\ OrderedFrom(u, L, lo) \/ r < p
           /\ OrderedFrom(t, L, lo) => OrderedFrom(u, L, lo)
<1>1. CASE p = r
  <2>1. \A i \in 1 .. L : u[i] = t[i]
    BY <1>1 DEF SameElsewhere
  <2>2. SinkOrdered(u, L, lo, r)
    BY <2>1 DEF SinkOrdered
  <2>3. OrderedFrom(u, L, lo)
    BY <1>1, <2>1, <2>2 DEF SinkOrdered, OrderedFrom
  <2> QED
    BY <1>1, <2>2, <2>3
<1>2. CASE p # r
  <2>1. Child(r, p) /\ t[p] < t[r]
    BY <1>2
  <2>2. SinkOrdered(u, L, lo, p) /\ r < p
    BY <2>1, SinkOne
  <2>3. ~OrderedFrom(t, L, lo)
    <3>1. t[p] \in Nat /\ t[r] \in Nat /\ lo <= r
      BY HeapConstants DEF Arrays, SinkOrdered
    <3> QED
      BY <2>1, <3>1 DEF OrderedFrom
  <2> QED
    BY <2>2, <2>3
<1> QED
  BY <1>1, <1>2

LEMMA SunkOrders ==
    ASSUME NEW L \in Nat, NEW h \in At(L), NEW lo \in 1 .. L, NEW k, k = Heap!Sunk(h),
           SinkOrdered(h.s, L, lo, h.root)
    PROVE  /\ SinkOrdered(k.s, L, lo, k.root)
           /\ OrderedFrom(k.s, L, lo) \/ h.root < k.root
           /\ OrderedFrom(h.s, L, lo) => OrderedFrom(k.s, L, lo)
<1>1. /\ h.root \in 1 .. L /\ h.s \in Arrays(L) /\ k.root = Heap!MinPos(h.s, h.root)
      /\ k.s = Heap!Swapped(h.s, h.root, k.root)
  BY DEF At, Heap!Sunk
<1>2. PICK t \in Arrays(L), r \in 1 .. L : t = h.s /\ r = h.root
  BY <1>1
<1>3. /\ k.root \in 1 .. L /\ (k.root = r \/ (Child(r, k.root) /\ t[k.root] < t[r]))
      /\ \A c \in 1 .. L : Child(r, c) => t[k.root] <= t[c]
  BY <1>1, <1>2, MinPosIs
<1>4. PICK p \in 1 .. L : p = k.root
  BY <1>3
<1>5. PICK u : u = k.s
  OBVIOUS
<1>6. u = Heap!Swapped(t, r, p)
  BY <1>1, <1>2, <1>4, <1>5
<1>7. u \in Arrays(L) /\ u[r] = t[p] /\ u[p] = t[r] /\ SameElsewhere(t, u, L, r, p)
  <2>1. Swaps(t, u, L, r, p)
    BY <1>2, <1>4, <1>6, SwapIs
  <2> QED
    BY <2>1 DEF Swaps
<1>8. SinkOrdered(t, L, lo, r)
  BY <1>2
<1>9. /\ SinkOrdered(u, L, lo, p)
      /\ OrderedFrom(u, L, lo) \/ r < p
      /\ OrderedFrom(t, L, lo) => OrderedFrom(u, L, lo)
  BY <1>3, <1>4, <1>7, <1>8, RoundOrders
<1> QED
  BY <1>2, <1>4, <1>5, <1>9

\* down runs through arrays with the same elements.
LEMMA DownRuns ==
    ASSUME NEW L \in Nat, NEW s \in Arrays(L), NEW lo \in 1 .. L
    PROVE  \E g \in [0 .. L -> At(L)] :
              /\ g[0] = [root |-> lo, s |-> s] /\ Heap!Down(s, lo) = g[L].s
              /\ \A k \in 1 .. L : g[k] = Heap!Sunk(g[k - 1])
<1> DEFINE base == [root |-> lo, s |-> s]
           one == [h \in At(L) |-> Heap!Sunk(h)]
           F(f) == [round \in 0 .. L |-> IF round = 0 THEN base ELSE Heap!Sunk(f[round - 1])]
           Sink == CHOOSE f : f = F(f)
<1>1. base \in At(L)
  BY DEF At
<1>2. one \in [At(L) -> At(L)]
  BY SunkIs
<1>3. PICK g \in [0 .. L -> At(L)] : g[0] = base /\ \A k \in 1 .. L : g[k] = one[g[k - 1]]
  <2> HIDE DEF base, one
  <2>1. PICK T : T = At(L)
    OBVIOUS
  <2>2. base \in T /\ one \in [T -> T]
    BY <1>1, <1>2, <2>1
  <2>3. PICK g : Repeats(g, T, base, L, one)
    BY <2>2, IterateOne
  <2> QED
    BY <2>1, <2>3 DEF Repeats
<1>4. \A k \in 1 .. L : g[k] = Heap!Sunk(g[k - 1])
  <2>1. \A k \in 1 .. L : k - 1 \in 0 .. L
    OBVIOUS
  <2> QED
    BY <1>3, <2>1
<1>5. g = F(g)
  <2>1. \A k \in 0 .. L : g[k] = F(g)[k]
    BY <1>3, <1>4
  <2> QED
    BY <1>3, <2>1
<1>6. Sink = F(Sink)
  <2> HIDE DEF F
  <2> QED
    BY <1>5
<1>7. \A k \in 0 .. L : Sink[k] = g[k]
  <2> HIDE DEF Sink
  <2> DEFINE P == {k \in 0 .. L : Sink[k] = g[k]}
  <2>1. 0 \in P
    BY <1>3, <1>6
  <2>2. ASSUME NEW k \in 1 .. L, k - 1 \in P PROVE k \in P
    <3>1. Sink[k] = Heap!Sunk(Sink[k - 1])
      BY <1>6
    <3> QED
      BY <3>1, <2>2, <1>4
  <2>3. \A k \in 1 .. L : k - 1 \in P => k \in P
    BY <2>2
  <2>4. \A k \in 0 .. L : k \in P
    <3> HIDE DEF P
    <3> QED
      BY <2>1, <2>3, UpTo
  <2> QED
    BY <2>4
<1>8. Heap!Down(s, lo) = g[L].s
  <2>1. s \in Seq(Numbers) /\ Len(s) = L /\ lo \in DOMAIN s
    BY ArraysAreSequences DEF Arrays
  <2>2. Heap!Down(s, lo) = Sink[L].s
    BY <2>1 DEF Heap!Down
  <2> HIDE DEF Sink
  <2> QED
    BY <2>2, <1>7
<1> QED
  BY <1>3, <1>4, <1>8

\* down moves elements, and orders one more father.
LEMMA DownOrders ==
    ASSUME NEW L \in Nat, NEW s \in Arrays(L), NEW lo \in 1 .. L, NEW u, u = Heap!Down(s, lo)
    PROVE  /\ u \in Arrays(L) /\ SameCounts(s, u)
           /\ OrderedFrom(s, L, lo + 1) => OrderedFrom(u, L, lo)
<1>1. PICK g \in [0 .. L -> At(L)] :
              /\ g[0] = [root |-> lo, s |-> s] /\ u = g[L].s
              /\ \A k \in 1 .. L : g[k] = Heap!Sunk(g[k - 1])
  BY DownRuns
<1>2. \A k \in 0 .. L : g[k] \in At(L) /\ g[k].s \in Arrays(L) /\ g[k].root \in 1 .. L
  BY DEF At
<1>3. ASSUME NEW k \in 1 .. L
      PROVE  k - 1 \in 0 .. L /\ g[k - 1] \in At(L) /\ g[k] = Heap!Sunk(g[k - 1])
  BY <1>1, <1>2
<1>4. \A k \in 0 .. L : SameCounts(s, g[k].s)
  <2> DEFINE P == {k \in 0 .. L : SameCounts(s, g[k].s)}
  <2>1. 0 \in P
    BY <1>1 DEF SameCounts
  <2>2. ASSUME NEW k \in 1 .. L, k - 1 \in P PROVE k \in P
    <3>1. SameCounts(g[k - 1].s, g[k].s)
      BY <1>3, SunkIs
    <3> QED
      BY <2>2, <3>1 DEF SameCounts
  <2>3. \A k \in 1 .. L : k - 1 \in P => k \in P
    BY <2>2
  <2>4. \A k \in 0 .. L : k \in P
    <3> HIDE DEF P
    <3> QED
      BY <2>1, <2>3, UpTo
  <2> QED
    BY <2>4
<1>5. ASSUME OrderedFrom(s, L, lo + 1) PROVE OrderedFrom(u, L, lo)
  <2> DEFINE P == {k \in 0 .. L : /\ SinkOrdered(g[k].s, L, lo, g[k].root)
                                  /\ OrderedFrom(g[k].s, L, lo) \/ lo + k <= g[k].root}
  <2>1. 0 \in P
    <3>1. \A i \in 1 .. L : lo <= i /\ i # lo => lo + 1 <= i
      OBVIOUS
    <3>2. \A i \in 1 .. L : lo <= i => ~Child(i, lo)
      BY DEF Child
    <3>3. SinkOrdered(s, L, lo, lo)
      BY <1>5, <3>1, <3>2 DEF OrderedFrom, SinkOrdered
    <3> QED
      BY <1>1, <3>3
  <2>2. ASSUME NEW k \in 1 .. L, k - 1 \in P PROVE k \in P
    <3>1. /\ SinkOrdered(g[k].s, L, lo, g[k].root)
          /\ OrderedFrom(g[k].s, L, lo) \/ g[k - 1].root < g[k].root
          /\ OrderedFrom(g[k - 1].s, L, lo) => OrderedFrom(g[k].s, L, lo)
      BY <1>3, <2>2, SunkOrders
    <3>2. OrderedFrom(g[k - 1].s, L, lo) \/ lo + (k - 1) <= g[k - 1].root
      BY <2>2
    <3>3. g[k - 1].root \in 1 .. L /\ g[k].root \in 1 .. L
      BY <1>2, <1>3
    <3>4. PICK a \in Nat, b \in Nat : a = g[k - 1].root /\ b = g[k].root
      BY <3>3
    <3> QED
      BY <3>1, <3>2, <3>4
  <2>3. \A k \in 1 .. L : k - 1 \in P => k \in P
    BY <2>2
  <2>4. \A k \in 0 .. L : k \in P
    <3> HIDE DEF P
    <3> QED
      BY <2>1, <2>3, UpTo
  <2>5. OrderedFrom(g[L].s, L, lo) \/ lo + L <= g[L].root
    BY <2>4
  <2>6. g[L].root \in 1 .. L
    BY <1>2
  <2> QED
    BY <1>1, <2>5, <2>6
<1> QED
  BY <1>1, <1>2, <1>4, <1>5

\* What is half of a position.
LEMMA HalfIs ==
    ASSUME NEW r \in Nat, r > 1
    PROVE  /\ r \div 2 \in Nat /\ 1 <= r \div 2 /\ r \div 2 < r /\ Child(r \div 2, r)
           /\ \A i \in Nat : Child(i, r) => i = r \div 2
  BY DEF Child

\* up: an array that is ordered but for the father of r, which is ordered towards the
\* children of r.
RiseOrdered(t, L, r) ==
    /\ \A i, c \in 1 .. L : c # r /\ Child(i, c) => t[i] <= t[c]
    /\ \A i, c \in 1 .. L : Child(i, r) /\ Child(r, c) => t[i] <= t[c]

\* One round of up: it exchanges an element with its father, or there is nothing to do.
Rises(h) == h.root > 1 /\ h.s[h.root \div 2] > h.s[h.root]

LEMMA RisenIs ==
    ASSUME NEW L \in Nat, NEW h \in At(L), NEW k, k = Heap!Risen(h)
    PROVE  /\ k \in At(L) /\ SameCounts(h.s, k.s)
           /\ ~Rises(h) => k = h
           /\ Rises(h) => /\ k.root = h.root \div 2 /\ k.s[h.root] = h.s[k.root]
                          /\ k.s[k.root] = h.s[h.root] /\ SameElsewhere(h.s, k.s, L, k.root, h.root)
<1>1. h.root \in 1 .. L /\ h.s \in Arrays(L)
  BY DEF At
<1>2. CASE Rises(h)
  <2>1. /\ k.root = h.root \div 2 /\ k.s = Heap!Swapped(h.s, h.root \div 2, h.root)
        /\ k = [root |-> k.root, s |-> k.s]
    BY <1>2 DEF Heap!Risen, Rises
  <2>2. k.root \in 1 .. L
    BY <1>1, <1>2, <2>1, HalfIs DEF Rises
  <2>3. PICK t \in Arrays(L), r \in 1 .. L, f \in 1 .. L : t = h.s /\ r = h.root /\ f = k.root
    BY <1>1, <2>2
  <2>4. PICK u : u = k.s
    OBVIOUS
  <2>5. u = Heap!Swapped(t, f, r)
    BY <2>1, <2>3, <2>4
  <2>6. u \in Arrays(L) /\ u[f] = t[r] /\ u[r] = t[f] /\ SameElsewhere(t, u, L, f, r) /\ SameCounts(t, u)
    <3>1. Swaps(t, u, L, f, r)
      BY <2>5, SwapIs
    <3> QED
      BY <3>1 DEF Swaps
  <2>7. k \in At(L)
    BY <2>1, <2>2, <2>4, <2>6 DEF At
  <2> QED
    BY <1>2, <2>1, <2>3, <2>4, <2>6, <2>7
<1>3. CASE ~Rises(h)
  BY <1>3 DEF Heap!Risen, Rises, SameCounts
<1> QED
  BY <1>2, <1>3

\* An exchange of an element with its father, which is greater.
LEMMA RiseOne ==
    ASSUME NEW L \in Nat, NEW t \in Arrays(L), NEW r \in 1 .. L, NEW f \in 1 .. L,
           RiseOrdered(t, L, r), r > 1, f = r \div 2, t[r] < t[f],
           NEW u \in Arrays(L), u[r] = t[f], u[f] = t[r], SameElsewhere(t, u, L, f, r)
    PROVE  RiseOrdered(u, L, f) /\ f < r
<1>1. /\ \A i \in 1 .. L : t[i] \in Nat
      /\ \A i \in 1 .. L : i # r /\ i # f => u[i] = t[i]
  BY HeapConstants DEF Arrays, SameElsewhere
<1>2. f < r /\ Child(f, r) /\ \A i \in 1 .. L : Child(i, r) => i = f
  BY HalfIs
<1>3. ASSUME NEW i \in 1 .. L, NEW c \in 1 .. L, c # f, Child(i, c) PROVE u[i] <= u[c]
  <2>1. CASE c = r
    BY <1>1, <1>2, <1>3, <2>1
  <2>2. CASE c # r /\ i = f
    <3>1. t[f] <= t[c]
      BY <1>3, <2>2 DEF RiseOrdered
    <3> QED
      BY <1>1, <1>3, <2>2, <3>1
  <2>3. CASE c # r /\ i = r
    <3>1. t[f] <= t[c]
      BY <1>2, <1>3, <2>3 DEF RiseOrdered
    <3> QED
      BY <1>1, <1>3, <2>3, <3>1
  <2>4. CASE c # r /\ i # f /\ i # r
    <3>1. t[i] <= t[c]
      BY <1>3, <2>4 DEF RiseOrdered
    <3> QED
      BY <1>1, <1>3, <2>4, <3>1
  <2> QED
    BY <2>1, <2>2, <2>3, <2>4
<1>4. ASSUME NEW i \in 1 .. L, NEW c \in 1 .. L, Child(i, f), Child(f, c) PROVE u[i] <= u[c]
  <2>1. i # f /\ i # r /\ c # f
    BY <1>2, <1>4 DEF Child
  <2>2. t[i] <= t[f]
    BY <1>2, <1>4 DEF RiseOrdered
  <2>3. c # r => t[f] <= t[c]
    BY <1>4 DEF RiseOrdered
  <2> QED
    BY <1>1, <2>1, <2>2, <2>3
<1> QED
  BY <1>2, <1>3, <1>4 DEF RiseOrdered

\* A round of up orders the array, or goes on above; what is ordered it leaves so.
LEMMA RisenOrders ==
    ASSUME NEW L \in Nat, NEW h \in At(L), NEW k, k = Heap!Risen(h), RiseOrdered(h.s, L, h.root)
    PROVE  /\ RiseOrdered(k.s, L, k.root)
           /\ OrderedFrom(k.s, L, 1) \/ k.root < h.root
           /\ OrderedFrom(h.s, L, 1) => OrderedFrom(k.s, L, 1)
<1>1. PICK t \in Arrays(L), r \in 1 .. L : t = h.s /\ r = h.root
  BY DEF At
<1>2. RiseOrdered(t, L, r) /\ (Rises(h) <=> r > 1 /\ t[r \div 2] > t[r])
  BY <1>1 DEF Rises
<1>3. \A i \in 1 .. L : t[i] \in Nat
  BY HeapConstants DEF Arrays
<1>4. CASE Rises(h)
  <2>1. k \in At(L) /\ k.root = r \div 2 /\ k.s[r] = t[k.root] /\ k.s[k.root] = t[r] /\ SameElsewhere(t, k.s, L, k.root, r)
    BY <1>1, <1>4, RisenIs
  <2>2. PICK u \in Arrays(L), f \in 1 .. L : u = k.s /\ f = k.root
    BY <2>1 DEF At
  <2>3. f = r \div 2 /\ u[r] = t[f] /\ u[f] = t[r] /\ SameElsewhere(t, u, L, f, r)
    BY <2>1, <2>2
  <2>4. r > 1 /\ t[r] < t[f] /\ Child(f, r)
    BY <1>2, <1>3, <1>4, <2>3, HalfIs
  <2>5. RiseOrdered(u, L, f) /\ f < r
    BY <1>2, <2>3, <2>4, RiseOne
  <2>6. ~OrderedFrom(t, L, 1)
    BY <1>3, <2>4 DEF OrderedFrom
  <2> QED
    BY <1>1, <2>2, <2>5, <2>6
<1>5. CASE ~Rises(h)
  <2>1. k = h
    BY <1>5, RisenIs
  <2>2. ASSUME NEW i \in 1 .. L, NEW c \in 1 .. L, Child(i, c) PROVE t[i] <= t[c]
    <3>1. CASE c # r
      BY <1>2, <2>2, <3>1 DEF RiseOrdered
    <3>2. CASE c = r
      <4>1. r > 1
        BY <2>2, <3>2 DEF Child
      <4>2. i = r \div 2
        BY <2>2, <3>2, <4>1, HalfIs
      <4> QED
        BY <1>2, <1>3, <1>5, <3>2, <4>1, <4>2
    <3> QED
      BY <3>1, <3>2
  <2>3. OrderedFrom(t, L, 1)
    BY <2>2 DEF OrderedFrom
  <2> QED
    BY <1>1, <1>2, <2>1, <2>3
<1> QED
  BY <1>4, <1>5

\* up runs through arrays with the same elements.
LEMMA UpRuns ==
    ASSUME NEW L \in Nat, NEW s \in Arrays(L), NEW hi \in 1 .. L
    PROVE  \E g \in [0 .. L -> At(L)] :
              /\ g[0] = [root |-> hi, s |-> s] /\ Heap!Up(s, hi) = g[L].s
              /\ \A k \in 1 .. L : g[k] = Heap!Risen(g[k - 1])
<1> DEFINE base == [root |-> hi, s |-> s]
           one == [h \in At(L) |-> Heap!Risen(h)]
           F(f) == [round \in 0 .. L |-> IF round = 0 THEN base ELSE Heap!Risen(f[round - 1])]
           Rise == CHOOSE f : f = F(f)
<1>1. base \in At(L)
  BY DEF At
<1>2. one \in [At(L) -> At(L)]
  BY RisenIs
<1>3. PICK g \in [0 .. L -> At(L)] : g[0] = base /\ \A k \in 1 .. L : g[k] = one[g[k - 1]]
  <2> HIDE DEF base, one
  <2>1. PICK T : T = At(L)
    OBVIOUS
  <2>2. base \in T /\ one \in [T -> T]
    BY <1>1, <1>2, <2>1
  <2>3. PICK g : Repeats(g, T, base, L, one)
    BY <2>2, IterateOne
  <2> QED
    BY <2>1, <2>3 DEF Repeats
<1>4. \A k \in 1 .. L : g[k] = Heap!Risen(g[k - 1])
  <2>1. \A k \in 1 .. L : k - 1 \in 0 .. L
    OBVIOUS
  <2> QED
    BY <1>3, <2>1
<1>5. g = F(g)
  <2>1. \A k \in 0 .. L : g[k] = F(g)[k]
    BY <1>3, <1>4
  <2> QED
    BY <1>3, <2>1
<1>6. Rise = F(Rise)
  <2> HIDE DEF F
  <2> QED
    BY <1>5
<1>7. \A k \in 0 .. L : Rise[k] = g[k]
  <2> HIDE DEF Rise
  <2> DEFINE P == {k \in 0 .. L : Rise[k] = g[k]}
  <2>1. 0 \in P
    BY <1>3, <1>6
  <2>2. ASSUME NEW k \in 1 .. L, k - 1 \in P PROVE k \in P
    <3>1. Rise[k] = Heap!Risen(Rise[k - 1])
      BY <1>6
    <3> QED
      BY <3>1, <2>2, <1>4
  <2>3. \A k \in 1 .. L : k - 1 \in P => k \in P
    BY <2>2
  <2>4. \A k \in 0 .. L : k \in P
    <3> HIDE DEF P
    <3> QED
      BY <2>1, <2>3, UpTo
  <2> QED
    BY <2>4
<1>8. Heap!Up(s, hi) = g[L].s
  <2>1. s \in Seq(Numbers) /\ Len(s) = L
    BY ArraysAreSequences
  <2>2. Heap!Up(s, hi) = Rise[L].s
    BY <2>1 DEF Heap!Up
  <2> HIDE DEF Rise
  <2> QED
    BY <2>2, <1>7
<1> QED
  BY <1>3, <1>4, <1>8

\* up moves elements, and orders an array that is ordered but for its last element.
LEMMA UpOrders ==
    ASSUME NEW L \in Nat, L > 0, NEW s \in Arrays(L), NEW u, u = Heap!Up(s, L),
           \A i, c \in 1 .. L : c # L /\ Child(i, c) => s[i] <= s[c]
    PROVE  u \in Arrays(L) /\ SameCounts(s, u) /\ OrderedFrom(u, L, 1)
<1>1. PICK g \in [0 .. L -> At(L)] :
              /\ g[0] = [root |-> L, s |-> s] /\ u = g[L].s
              /\ \A k \in 1 .. L : g[k] = Heap!Risen(g[k - 1])
  <2>1. L \in 1 .. L
    OBVIOUS
  <2> QED
    BY <2>1, UpRuns
<1>2. \A k \in 0 .. L : g[k] \in At(L) /\ g[k].s \in Arrays(L) /\ g[k].root \in 1 .. L
  BY DEF At
<1>3. ASSUME NEW k \in 1 .. L
      PROVE  k - 1 \in 0 .. L /\ g[k - 1] \in At(L) /\ g[k] = Heap!Risen(g[k - 1])
  BY <1>1, <1>2
<1> DEFINE P == {k \in 0 .. L : /\ SameCounts(s, g[k].s) /\ RiseOrdered(g[k].s, L, g[k].root)
                                /\ OrderedFrom(g[k].s, L, 1) \/ g[k].root <= L - k}
<1>4. 0 \in P
  <2>1. \A c \in 1 .. L : ~Child(L, c)
    BY DEF Child
  <2>2. RiseOrdered(s, L, L)
    BY <2>1 DEF RiseOrdered
  <2> QED
    BY <1>1, <2>2 DEF SameCounts
<1>5. ASSUME NEW k \in 1 .. L, k - 1 \in P PROVE k \in P
  <2>1. SameCounts(g[k - 1].s, g[k].s)
    BY <1>3, RisenIs
  <2>2. SameCounts(s, g[k].s)
    BY <1>5, <2>1 DEF SameCounts
  <2>3. /\ RiseOrdered(g[k].s, L, g[k].root)
        /\ OrderedFrom(g[k].s, L, 1) \/ g[k].root < g[k - 1].root
        /\ OrderedFrom(g[k - 1].s, L, 1) => OrderedFrom(g[k].s, L, 1)
    BY <1>3, <1>5, RisenOrders
  <2>4. OrderedFrom(g[k - 1].s, L, 1) \/ g[k - 1].root <= L - (k - 1)
    BY <1>5
  <2>5. k - 1 \in 0 .. L /\ g[k - 1].root \in 1 .. L /\ g[k].root \in 1 .. L
    BY <1>2
  <2>6. PICK a \in Nat, b \in Nat : a = g[k - 1].root /\ b = g[k].root
    BY <2>5
  <2> QED
    BY <2>2, <2>3, <2>4, <2>6
<1>6. \A k \in 1 .. L : k - 1 \in P => k \in P
  BY <1>5
<1>7. \A k \in 0 .. L : k \in P
  <2> HIDE DEF P
  <2> QED
    BY <1>4, <1>6, UpTo
<1>8. /\ SameCounts(s, g[L].s) /\ g[L].root \in 1 .. L
      /\ OrderedFrom(g[L].s, L, 1) \/ g[L].root <= L - L
  BY <1>2, <1>7
<1> QED
  BY <1>1, <1>2, <1>8

\* build_heap moves elements, and makes a heap of them.
LEMMA BuildOrders ==
    ASSUME NEW L \in Nat, NEW s \in Arrays(L), NEW u, u = Heap!build_heap(s)
    PROVE  u \in Arrays(L) /\ SameCounts(s, u) /\ OrderedFrom(u, L, 1)
<1>1. PICK half \in Nat : half = L \div 2 /\ 2 * half <= L /\ L < 2 * half + 2
  OBVIOUS
<1> DEFINE F(f) == [i \in 0 .. half |-> IF i = 0 THEN s ELSE Heap!Down(f[i - 1], half - i + 1)]
           Built == CHOOSE f : f = F(f)
           st == [i \in 1 .. half |-> [t \in Arrays(L) |-> Heap!Down(t, half - i + 1)]]
<1>2. \A i \in 1 .. half : half - i + 1 \in 1 .. L
  BY <1>1
<1>3. st \in [1 .. half -> [Arrays(L) -> Arrays(L)]]
  BY <1>2, DownOrders
<1>4. PICK g \in [0 .. half -> Arrays(L)] : g[0] = s /\ \A i \in 1 .. half : g[i] = st[i][g[i - 1]]
  <2> HIDE DEF st
  <2>1. PICK T : T = Arrays(L)
    OBVIOUS
  <2>2. s \in T /\ st \in [1 .. half -> [T -> T]]
    BY <1>3, <2>1
  <2>3. PICK g : Runs(g, T, s, half, st)
    BY <1>1, <2>2, Iterate
  <2> QED
    BY <2>1, <2>3 DEF Runs
<1>5. \A i \in 1 .. half : i - 1 \in 0 .. half /\ g[i] = Heap!Down(g[i - 1], half - i + 1)
  <2>1. \A i \in 1 .. half : i - 1 \in 0 .. half /\ g[i - 1] \in Arrays(L)
    BY <1>4
  <2> QED
    BY <1>4, <2>1
<1>6. g = F(g)
  <2>1. \A i \in 0 .. half : g[i] = F(g)[i]
    BY <1>4, <1>5
  <2> QED
    BY <1>4, <2>1
<1>7. Built = F(Built)
  <2> HIDE DEF F
  <2> QED
    BY <1>6
<1>8. \A i \in 0 .. half : Built[i] = g[i]
  <2> HIDE DEF Built
  <2> DEFINE P == {i \in 0 .. half : Built[i] = g[i]}
  <2>1. 0 \in P
    BY <1>4, <1>7
  <2>2. ASSUME NEW i \in 1 .. half, i - 1 \in P PROVE i \in P
    <3>1. Built[i] = Heap!Down(Built[i - 1], half - i + 1)
      BY <1>7
    <3> QED
      BY <3>1, <2>2, <1>5
  <2>3. \A i \in 1 .. half : i - 1 \in P => i \in P
    BY <2>2
  <2>4. \A i \in 0 .. half : i \in P
    <3> HIDE DEF P
    <3> QED
      BY <2>1, <2>3, UpTo
  <2> QED
    BY <2>4
<1>9. u = g[half]
  <2>1. Len(s) = L
    BY ArraysAreSequences
  <2>2. u = Built[half]
    BY <1>1, <2>1 DEF Heap!build_heap
  <2> HIDE DEF Built
  <2> QED
    BY <2>2, <1>8
<1> HIDE DEF F, Built, st
<1> DEFINE P == {i \in 0 .. half : SameCounts(s, g[i]) /\ OrderedFrom(g[i], L, half - i + 1)}
<1>10. 0 \in P
  <2>1. OrderedFrom(s, L, half + 1)
    BY <1>1 DEF OrderedFrom, Child
  <2> QED
    BY <1>4, <2>1 DEF SameCounts
<1>11. ASSUME NEW i \in 1 .. half, i - 1 \in P PROVE i \in P
  <2>1. PICK lo \in 1 .. L : lo = half - i + 1 /\ lo + 1 = half - (i - 1) + 1
    BY <1>2
  <2>2. PICK t \in Arrays(L) : t = g[i - 1]
    BY <1>5
  <2>3. OrderedFrom(t, L, lo + 1) /\ SameCounts(s, t)
    BY <1>11, <2>1, <2>2
  <2>4. g[i] = Heap!Down(t, lo)
    BY <1>5, <2>1, <2>2
  <2>5. SameCounts(t, g[i]) /\ OrderedFrom(g[i], L, lo)
    BY <2>3, <2>4, DownOrders
  <2>6. SameCounts(s, g[i])
    BY <2>3, <2>5 DEF SameCounts
  <2> QED
    BY <2>1, <2>5, <2>6
<1>12. \A i \in 1 .. half : i - 1 \in P => i \in P
  BY <1>11
<1>13. \A i \in 0 .. half : i \in P
  <2> HIDE DEF P
  <2> QED
    BY <1>10, <1>12, UpTo
<1>14. half \in 0 .. half /\ half - half + 1 = 1
  OBVIOUS
<1> QED
  BY <1>4, <1>9, <1>13, <1>14

\* The first element of a heap is the least.
LEMMA RootIsLeast ==
    ASSUME NEW L \in Nat, NEW s \in Arrays(L), OrderedFrom(s, L, 1), NEW i \in 1 .. L
    PROVE  s[1] <= s[i]
<1> DEFINE P == {k \in 0 .. L : \A j \in 1 .. L : j <= k => s[1] <= s[j]}
<1>1. \A j \in 1 .. L : s[j] \in Nat
  BY HeapConstants DEF Arrays
<1>2. 0 \in P
  OBVIOUS
<1>3. ASSUME NEW k \in 1 .. L, k - 1 \in P PROVE k \in P
  <2>1. s[1] <= s[k]
    <3>1. CASE k = 1
      BY <1>1, <3>1
    <3>2. CASE k # 1
      <4>1. PICK f \in 1 .. L : f <= k - 1 /\ Child(f, k)
        BY <3>2, HalfIs
      <4>2. s[1] <= s[f]
        BY <1>3, <4>1
      <4>3. s[f] <= s[k]
        BY <4>1 DEF OrderedFrom
      <4>4. 1 \in 1 .. L
        OBVIOUS
      <4> QED
        BY <1>1, <4>2, <4>3, <4>4
    <3> QED
      BY <3>1, <3>2
  <2>2. \A j \in 1 .. L : j <= k => j = k \/ j <= k - 1
    OBVIOUS
  <2> QED
    BY <1>3, <2>1, <2>2
<1>4. \A k \in 1 .. L : k - 1 \in P => k \in P
  BY <1>3
<1>5. \A k \in 0 .. L : k \in P
  <2> HIDE DEF P
  <2> QED
    BY <1>2, <1>4, UpTo
<1> QED
  BY <1>5

\* How often a number is in an array.
LEMMA CountsAre ==
    ASSUME NEW L \in Nat, NEW s \in Arrays(L), NEW v
    PROVE  Count(s, v) \in Nat /\ (Count(s, v) # 0 <=> \E i \in 1 .. L : s[i] = v)
<1> DEFINE S == {i \in 1 .. L : s[i] = v}
<1>1. IsFiniteSet(S)
  <2>1. IsFiniteSet(1 .. L) /\ S \subseteq 1 .. L
    BY FS_Interval
  <2> QED
    BY <2>1, FS_Subset
<1>2. Count(s, v) = Cardinality(S)
  BY DEF Count, Arrays
<1>3. Cardinality(S) \in Nat /\ (Cardinality(S) = 0 <=> S = {})
  BY <1>1, FS_CardinalityType, FS_EmptySet
<1> QED
  BY <1>2, <1>3

\* One more element.
LEMMA OneMoreCounts ==
    ASSUME NEW L \in Nat, NEW s \in Arrays(L), NEW t \in Arrays(L + 1), \A i \in 1 .. L : t[i] = s[i], NEW v
    PROVE  Count(t, v) = IF t[L + 1] = v THEN Count(s, v) + 1 ELSE Count(s, v)
<1> DEFINE S == {i \in 1 .. L : s[i] = v}
           T == {i \in 1 .. L + 1 : t[i] = v}
<1>1. IsFiniteSet(S)
  <2>1. IsFiniteSet(1 .. L) /\ S \subseteq 1 .. L
    BY FS_Interval
  <2> QED
    BY <2>1, FS_Subset
<1>2. Count(s, v) = Cardinality(S) /\ Count(t, v) = Cardinality(T)
  BY DEF Count, Arrays
<1>3. CASE t[L + 1] = v
  <2>1. T = S \cup {L + 1} /\ L + 1 \notin S
    BY <1>3
  <2>2. Cardinality(T) = Cardinality(S) + 1
    BY <1>1, <2>1, FS_AddElement
  <2> QED
    BY <1>2, <1>3, <2>2
<1>4. CASE t[L + 1] # v
  <2>1. T = S
    BY <1>4
  <2> QED
    BY <1>2, <1>4, <2>1
<1> QED
  BY <1>3, <1>4

\* b is the bag of how often numbers are in s.
IsBagOf(b, s) ==
    /\ b = [v \in DOMAIN b |-> Count(s, v)]
    /\ \A v : v \in DOMAIN b <=> Count(s, v) # 0
    /\ \A v : Count(s, v) \in Nat

LEMMA ToBagIs ==
    ASSUME NEW L \in Nat, NEW s \in Arrays(L), NEW b, b = Heap!ToBag(s)
    PROVE  IsBagOf(b, s) /\ DOMAIN b = {s[i] : i \in 1 .. L} /\ DOMAIN b \subseteq Numbers
<1>1. DOMAIN s = 1 .. L /\ \A i \in 1 .. L : s[i] \in Numbers
  BY DEF Arrays
<1>2. DOMAIN b = {s[i] : i \in 1 .. L}
  BY <1>1 DEF Heap!ToBag, Heap!Range
<1>3. b = [v \in DOMAIN b |-> Count(s, v)]
  BY DEF Heap!ToBag, Count, Cardinality, Heap!Cardinality
<1>4. \A v : Count(s, v) \in Nat /\ (Count(s, v) # 0 <=> \E i \in 1 .. L : s[i] = v)
  BY CountsAre
<1> QED
  BY <1>1, <1>2, <1>3, <1>4 DEF IsBagOf

\* Arrays with the same elements have the same bag.
LEMMA SameBags ==
    ASSUME NEW L \in Nat, NEW s \in Arrays(L), NEW u \in Arrays(L), SameCounts(s, u)
    PROVE  Heap!ToBag(u) = Heap!ToBag(s)
<1>1. PICK a, b : a = Heap!ToBag(s) /\ b = Heap!ToBag(u)
  OBVIOUS
<1>2. IsBagOf(a, s) /\ IsBagOf(b, u)
  BY <1>1, ToBagIs
<1>3. \A v : Count(u, v) = Count(s, v)
  BY DEF SameCounts
<1>4. DOMAIN a = DOMAIN b
  BY <1>2, <1>3 DEF IsBagOf
<1>5. a = b
  BY <1>2, <1>3, <1>4 DEF IsBagOf
<1> QED
  BY <1>1, <1>5

\* One more element, as a bag.
OneMoreOf(s, t, v) == \A w : Count(t, w) = IF v = w THEN Count(s, w) + 1 ELSE Count(s, w)

LEMMA BagGrows ==
    ASSUME NEW a, NEW b, NEW s, NEW t, NEW v, IsBagOf(a, s), IsBagOf(b, t),
           OneMoreOf(s, t, v)
    PROVE  /\ b = Heap!Promise!(+)(a, Heap!Promise!SetToBag({v}))
           /\ a = Heap!Promise!(-)(b, Heap!Promise!SetToBag({v}))
<1>1. \A w : w \in DOMAIN b <=> w \in DOMAIN a \cup {v}
  BY DEF IsBagOf, OneMoreOf
<1>2. DOMAIN b = DOMAIN a \cup {v}
  BY <1>1
<1>3. \A w \in DOMAIN b : b[w] = (IF w \in DOMAIN a THEN a[w] ELSE 0) + (IF w \in {v} THEN 1 ELSE 0)
  BY <1>2 DEF IsBagOf, OneMoreOf
<1>4. b = [w \in DOMAIN b |-> b[w]] /\ a = [w \in DOMAIN a |-> a[w]]
  BY DEF IsBagOf
<1>5. b = [w \in DOMAIN a \cup {v} |-> (IF w \in DOMAIN a THEN a[w] ELSE 0) + (IF w \in {v} THEN 1 ELSE 0)]
  BY <1>2, <1>3, <1>4
<1>6. b = Heap!Promise!(+)(a, Heap!Promise!SetToBag({v}))
  BY <1>5 DEF Heap!Promise!(+), Heap!Promise!SetToBag
<1> DEFINE less == [w \in DOMAIN b |-> IF w \in {v} THEN b[w] - 1 ELSE b[w]]
<1>7. \A w \in DOMAIN b : less[w] > 0 <=> w \in DOMAIN a
  BY <1>2 DEF IsBagOf, OneMoreOf
<1>8. {w \in DOMAIN b : less[w] > 0} = DOMAIN a
  BY <1>2, <1>7
<1>9. \A w \in DOMAIN a : less[w] = a[w]
  BY <1>2 DEF IsBagOf, OneMoreOf
<1>10. a = [w \in {x \in DOMAIN b : less[x] > 0} |-> less[w]]
  BY <1>4, <1>8, <1>9
<1>11. a = Heap!Promise!(-)(b, Heap!Promise!SetToBag({v}))
  BY <1>10 DEF Heap!Promise!(-), Heap!Promise!SetToBag
<1> QED
  BY <1>6, <1>11

\* The bag of an array has as many elements as the array.
LEMMA BagHasLength ==
    ASSUME NEW L \in Nat, NEW s \in Arrays(L), NEW b, b = Heap!ToBag(s)
    PROVE  Heap!Promise!BagCardinality(b) = L
<1> DEFINE D == DOMAIN b
           elt(S) == CHOOSE e \in S : TRUE
           F(f) == [S \in SUBSET D |-> IF S = {} THEN 0 ELSE b[elt(S)] + f[S \ {elt(S)}]]
           Where(S) == {i \in 1 .. L : s[i] \in S}
           g == [S \in SUBSET D |-> Cardinality(Where(S))]
           DSum == CHOOSE f : f = F(f)
<1>1. IsBagOf(b, s) /\ D = {s[i] : i \in 1 .. L}
  BY ToBagIs
<1>2. IsFiniteSet(1 .. L) /\ Cardinality(1 .. L) = L /\ \A S : IsFiniteSet(Where(S)) /\ Where(S) \subseteq 1 .. L
  <2>1. IsFiniteSet(1 .. L) /\ Cardinality(1 .. L) = L
    BY FS_Interval
  <2>2. \A S : Where(S) \subseteq 1 .. L
    OBVIOUS
  <2> QED
    BY <2>1, <2>2, FS_Subset
<1>3. ASSUME NEW S \in SUBSET D, S # {} PROVE g[S] = b[elt(S)] + g[S \ {elt(S)}]
  <2>1. PICK e \in S : e = elt(S)
    BY <1>3
  <2>2. b[e] = Cardinality(Where({e}))
    <3>1. b[e] = Count(s, e)
      BY <1>1, <2>1 DEF IsBagOf
    <3>2. {i \in DOMAIN s : s[i] = e} = Where({e})
      BY DEF Arrays
    <3> QED
      BY <3>1, <3>2 DEF Count
  <2>3. Where(S) = Where({e}) \cup Where(S \ {e}) /\ Where({e}) \cap Where(S \ {e}) = {}
    BY <2>1
  <2>4. Cardinality(Where(S)) = Cardinality(Where({e})) + Cardinality(Where(S \ {e})) - Cardinality({})
    <3>1. PICK A, B : A = Where({e}) /\ B = Where(S \ {e})
      OBVIOUS
    <3>2. IsFiniteSet(A) /\ IsFiniteSet(B) /\ Where(S) = A \cup B /\ A \cap B = {}
      <4> HIDE DEF Where
      <4> QED
        BY <1>2, <2>3, <3>1
    <3>3. Cardinality(A \cup B) = Cardinality(A) + Cardinality(B) - Cardinality(A \cap B)
      BY <3>2, FS_Union
    <3> HIDE DEF Where
    <3> QED
      BY <3>1, <3>2, <3>3
  <2>5. /\ Cardinality({}) = 0 /\ Cardinality(Where({e})) \in Nat
        /\ Cardinality(Where(S \ {e})) \in Nat
    BY <1>2, FS_CardinalityType, FS_EmptySet
  <2>6. Cardinality(Where(S)) = Cardinality(Where({e})) + Cardinality(Where(S \ {e}))
    <3> HIDE DEF Where
    <3> QED
      BY <2>4, <2>5
  <2>7. S \ {e} \in SUBSET D
    BY <1>3
  <2> HIDE DEF Where
  <2> QED
    BY <2>1, <2>2, <2>6, <2>7
<1>4. g[{}] = 0
  <2>1. Where({}) = {}
    OBVIOUS
  <2> QED
    BY <2>1, FS_EmptySet
<1>5. g = F(g)
  <2> HIDE DEF elt
  <2>1. \A S \in SUBSET D : g[S] = F(g)[S]
    <3>1. \A S \in SUBSET D : S # {} => g[S] = b[elt(S)] + g[S \ {elt(S)}]
      BY <1>3
    <3> HIDE DEF g
    <3> QED
      BY <3>1, <1>4
  <2> HIDE DEF Where
  <2> QED
    BY <2>1
<1>6. DSum = F(DSum)
  <2> HIDE DEF F, g
  <2> QED
    BY <1>5
<1>7. Heap!Promise!BagCardinality(b) = DSum[D]
  BY DEF Heap!Promise!BagCardinality
<1>8. IsFiniteSet(D)
  <2> DEFINE f == [i \in 1 .. L |-> s[i]]
  <2>1. f \in Surjection(1 .. L, D)
    BY <1>1 DEF Surjection
  <2> HIDE DEF D, f
  <2> QED
    BY <1>2, <2>1, FS_Surjection
<1>9. \A S \in SUBSET D : IsFiniteSet(S) /\ Cardinality(S) \in 0 .. Cardinality(D)
  BY <1>8, FS_Subset, FS_CardinalityType
<1> HIDE DEF DSum, g, D
<1> DEFINE P == {n \in 0 .. Cardinality(D) : \A S \in SUBSET D : Cardinality(S) = n => DSum[S] = g[S]}
<1>10. Cardinality(D) \in Nat
  BY <1>8, FS_CardinalityType
<1>11. 0 \in P
  <2>1. \A S \in SUBSET D : Cardinality(S) = 0 => S = {}
    BY <1>9, FS_EmptySet
  <2>2. DSum[{}] = 0
    BY <1>6
  <2> QED
    BY <1>4, <1>10, <2>1, <2>2
<1>12. ASSUME NEW n \in 1 .. Cardinality(D), n - 1 \in P PROVE n \in P
  <2>1. ASSUME NEW S \in SUBSET D, Cardinality(S) = n PROVE DSum[S] = g[S]
    <3>1. S # {} /\ IsFiniteSet(S)
      BY <1>9, <2>1, FS_EmptySet
    <3>2. PICK e \in S : e = elt(S)
      BY <3>1
    <3>3. Cardinality(S \ {e}) = n - 1 /\ S \ {e} \in SUBSET D
      BY <2>1, <3>1, FS_RemoveElement
    <3>4. DSum[S \ {e}] = g[S \ {e}]
      BY <1>12, <3>3
    <3>5. DSum[S] = b[e] + DSum[S \ {e}]
      <4> HIDE DEF elt
      <4> QED
        BY <1>6, <3>1, <3>2
    <3>6. g[S] = b[e] + g[S \ {e}]
      <4> HIDE DEF elt
      <4> QED
        BY <1>3, <3>1, <3>2
    <3> QED
      BY <3>4, <3>5, <3>6
  <2> QED
    BY <1>10, <2>1
<1>13. \A n \in 1 .. Cardinality(D) : n - 1 \in P => n \in P
  BY <1>12
<1>14. \A n \in 0 .. Cardinality(D) : n \in P
  <2> HIDE DEF P
  <2> QED
    BY <1>10, <1>11, <1>13, UpTo
<1>15. DSum[D] = g[D]
  BY <1>10, <1>14
<1>16. g[D] = L
  <2>1. Where(D) = 1 .. L
    BY <1>1
  <2>2. g[D] = Cardinality(Where(D))
    BY DEF g
  <2> QED
    BY <1>2, <2>1, <2>2
<1> QED
  BY <1>7, <1>15, <1>16

\* No elements.
LEMMA EmptyArray ==
    ASSUME NEW s, s = <<>>
    PROVE  s \in Arrays(0) /\ Heap!ToBag(s) = Heap!Promise!EmptyBag
<1>1. 0 \in Nat /\ s \in Seq(Numbers) /\ Len(s) = 0
  OBVIOUS
<1>2. s \in Arrays(0)
  BY <1>1, ArraysAreSequences
<1>3. PICK b : b = Heap!ToBag(s)
  OBVIOUS
<1>4. IsBagOf(b, s) /\ DOMAIN b = {s[i] : i \in 1 .. 0}
  BY <1>1, <1>2, <1>3, ToBagIs
<1>5. b = [v \in {} |-> 1]
  BY <1>4 DEF IsBagOf
<1> QED
  BY <1>2, <1>3, <1>5 DEF Heap!Promise!EmptyBag, Heap!Promise!SetToBag

\* The inductive invariant: the array is a heap, and has room for one more cell.
HeapInv ==
    \E L \in Nat : L < MaxHeapSize /\ h_data \in Arrays(L) /\ OrderedFrom(h_data, L, 1)

LEMMA InitHeap == Init => HeapInv /\ Heap!Promise!Init
<1> SUFFICES ASSUME Init PROVE HeapInv /\ Heap!Promise!Init
  OBVIOUS
<1>1. h_data = <<>>
  BY DEF Init, ContainersInit, Heap!Init
<1>2. h_data \in Arrays(0) /\ Heap!ToBag(h_data) = Heap!Promise!EmptyBag
  BY <1>1, EmptyArray
<1>3. OrderedFrom(h_data, 0, 1)
  BY DEF OrderedFrom
<1>4. HeapInv
  BY <1>2, <1>3, HeapConstants DEF HeapInv
<1> QED
  BY <1>2, <1>4 DEF Heap!Promise!Init

\* A heap built from nums, the first of which is left out.
LEMMA HeapBuilds ==
    ASSUME NEW nums \in Heap!BoundedSeq(Numbers, MaxHeapSize - 1), NEW beyond \in Numbers,
           Heap!Construct(nums, beyond)
    PROVE  HeapInv' /\ Heap!Promise!Fill
<1>1. PICK L \in Nat : L < MaxHeapSize /\ nums \in Arrays(L) /\ L > 0
  <2>1. PICK L \in 0 .. MaxHeapSize - 1 : nums \in [1 .. L -> Numbers]
    BY DEF Heap!BoundedSeq, Heap!SeqOf
  <2>2. L \in Nat /\ L < MaxHeapSize /\ nums \in Arrays(L)
    BY <2>1, HeapConstants DEF Arrays
  <2>3. L # 0
    <3>1. nums # <<>>
      BY DEF Heap!Construct
    <3> QED
      BY <2>2, <3>1, ArraysAreSequences
  <2> QED
    BY <2>2, <2>3
<1>2. PICK s : s = Append(Tail(nums), beyond)
  OBVIOUS
<1>3. s \in Arrays(L)
  <2>1. nums \in Seq(Numbers) /\ Len(nums) = L /\ nums # <<>>
    BY <1>1, ArraysAreSequences
  <2>2. PICK t : t = Tail(nums)
    OBVIOUS
  <2>3. t \in Seq(Numbers) /\ Len(t) = L - 1
    BY <2>1, <2>2
  <2>4. s \in Seq(Numbers) /\ Len(s) = L
    BY <1>2, <2>2, <2>3, AppendProperties
  <2> QED
    BY <2>4, ArraysAreSequences
<1>4. PICK u : u = h_data'
  OBVIOUS
<1>5. u = Heap!build_heap(s)
  BY <1>2, <1>4 DEF Heap!Construct
<1>6. u \in Arrays(L) /\ OrderedFrom(u, L, 1)
  BY <1>3, <1>5, BuildOrders
<1>7. HeapInv'
  BY <1>1, <1>4, <1>6 DEF HeapInv
<1>8. Heap!ToBag(h_data) = Heap!Promise!EmptyBag
  BY EmptyArray DEF Heap!Construct
<1>9. PICK b : b = Heap!ToBag(u)
  OBVIOUS
<1>10. DOMAIN b \subseteq Numbers /\ Heap!Promise!BagCardinality(b) = L
  BY <1>6, <1>9, ToBagIs, BagHasLength
<1>11. L <= MaxHeapSize - 1
  BY <1>1, HeapConstants
<1> QED
  BY <1>4, <1>7, <1>8, <1>9, <1>10, <1>11 DEF Heap!Promise!Fill, Heap!Promise!BagToSet

LEMMA HeapPushes ==
    ASSUME HeapInv, NEW v \in Numbers, Heap!push(v)
    PROVE  HeapInv' /\ Heap!Promise!Insert(v)
<1>1. PICK L \in Nat : L < MaxHeapSize /\ h_data \in Arrays(L) /\ OrderedFrom(h_data, L, 1)
  BY DEF HeapInv
<1>2. h_data \in Seq(Numbers) /\ Len(h_data) = L
  BY <1>1, ArraysAreSequences
<1>3. L < MaxHeapSize - 1
  BY <1>2, HeapConstants DEF Heap!push, Heap!full
<1>4. PICK M \in Nat : M = L + 1 /\ M > 0 /\ M < MaxHeapSize
  BY <1>3, HeapConstants
<1>5. PICK s : s = Append(h_data, v)
  OBVIOUS
<1>6. s \in Arrays(M) /\ s[L + 1] = v /\ \A i \in 1 .. L : s[i] = h_data[i]
  <2>1. s \in Seq(Numbers) /\ Len(s) = M /\ s[L + 1] = v /\ \A i \in 1 .. L : s[i] = h_data[i]
    BY <1>2, <1>4, <1>5, AppendProperties
  <2> QED
    BY <2>1, ArraysAreSequences
<1>7. PICK u : u = h_data'
  OBVIOUS
<1>8. u = Heap!Up(s, M)
  BY <1>2, <1>4, <1>5, <1>7 DEF Heap!push
<1>9. \A i, c \in 1 .. M : c # M /\ Child(i, c) => s[i] <= s[c]
  <2>1. ASSUME NEW i \in 1 .. M, NEW c \in 1 .. M, c # M, Child(i, c) PROVE s[i] <= s[c]
    <3>1. i \in 1 .. L /\ c \in 1 .. L /\ 1 <= i
      BY <1>4, <2>1 DEF Child
    <3>2. h_data[i] <= h_data[c]
      BY <1>1, <2>1, <3>1 DEF OrderedFrom
    <3> QED
      BY <1>6, <3>1, <3>2
  <2> QED
    BY <2>1
<1>10. u \in Arrays(M) /\ SameCounts(s, u) /\ OrderedFrom(u, M, 1)
  BY <1>4, <1>6, <1>8, <1>9, UpOrders
<1>11. HeapInv'
  BY <1>4, <1>7, <1>10 DEF HeapInv
<1>12. PICK a, b : a = Heap!ToBag(h_data) /\ b = Heap!ToBag(s)
  OBVIOUS
<1>13. Heap!ToBag(u) = b
  BY <1>4, <1>6, <1>10, <1>12, SameBags
<1>14. IsBagOf(a, h_data) /\ IsBagOf(b, s) /\ Heap!Promise!BagCardinality(a) = L
  BY <1>1, <1>4, <1>6, <1>12, ToBagIs, BagHasLength
<1>15. OneMoreOf(h_data, s, v)
  BY <1>1, <1>4, <1>6, OneMoreCounts DEF OneMoreOf
<1>16. b = Heap!Promise!(+)(a, Heap!Promise!SetToBag({v}))
  BY <1>14, <1>15, BagGrows
<1> QED
  BY <1>3, <1>7, <1>11, <1>12, <1>13, <1>14, <1>16 DEF Heap!Promise!Insert

LEMMA HeapPops ==
    ASSUME HeapInv, Heap!pop
    PROVE  HeapInv' /\ Heap!Promise!DeleteMin
<1>1. PICK L \in Nat : L < MaxHeapSize /\ h_data \in Arrays(L) /\ OrderedFrom(h_data, L, 1)
  BY DEF HeapInv
<1>2. h_data \in Seq(Numbers) /\ Len(h_data) = L /\ h_data # <<>>
  BY <1>1, ArraysAreSequences DEF Heap!pop
<1>3. PICK M \in Nat : L = M + 1 /\ M = L - 1 /\ M < MaxHeapSize /\ 1 \in 1 .. L /\ L \in 1 .. L
  BY <1>1, <1>2, HeapConstants
<1>4. PICK s, t, u : s = Heap!Swapped(h_data, 1, L) /\ t = Heap!Front(s) /\ u = h_data'
  OBVIOUS
<1>5. u = Heap!Down(t, 1)
  BY <1>2, <1>4 DEF Heap!pop
<1>6. s \in Arrays(L) /\ s[L] = h_data[1] /\ SameElsewhere(h_data, s, L, 1, L) /\ SameCounts(h_data, s)
  <2>1. Swaps(h_data, s, L, 1, L)
    BY <1>1, <1>3, <1>4, SwapIs
  <2> QED
    BY <2>1 DEF Swaps
<1>7. t \in Arrays(M) /\ \A i \in 1 .. M : s[i] = t[i]
  <2>1. s \in Seq(Numbers) /\ Len(s) = L
    BY <1>6, ArraysAreSequences
  <2>2. t = SubSeq(s, 1, M)
    BY <1>3, <1>4, <2>1 DEF Heap!Front
  <2>3. t \in Seq(Numbers) /\ Len(t) = M /\ \A i \in 1 .. M : t[i] = s[i]
    BY <1>3, <2>1, <2>2
  <2> QED
    BY <2>3, ArraysAreSequences
<1>8. u \in Arrays(M) /\ SameCounts(t, u) /\ OrderedFrom(u, M, 1)
  <2>1. CASE M = 0
    <3>1. t = <<>>
      BY <1>7, <2>1, ArraysAreSequences
    <3>2. u = t
      BY <1>5, <3>1 DEF Heap!Down
    <3> QED
      BY <1>7, <2>1, <3>2 DEF SameCounts, OrderedFrom
  <2>2. CASE M # 0
    <3>1. 1 \in 1 .. M
      BY <2>2
    <3>2. ASSUME NEW i \in 1 .. M, NEW c \in 1 .. M, 2 <= i, Child(i, c) PROVE t[i] <= t[c]
      <4>1. i \in 1 .. L /\ c \in 1 .. L /\ i # 1 /\ i # L /\ c # 1 /\ c # L /\ 1 <= i
        BY <1>3, <3>2 DEF Child
      <4>2. s[i] = h_data[i] /\ s[c] = h_data[c]
        BY <1>6, <4>1 DEF SameElsewhere
      <4>3. h_data[i] <= h_data[c]
        BY <1>1, <3>2, <4>1 DEF OrderedFrom
      <4> QED
        BY <1>7, <4>2, <4>3
    <3>3. OrderedFrom(t, M, 1 + 1)
      BY <3>2 DEF OrderedFrom
    <3> QED
      BY <1>5, <1>7, <3>1, <3>3, DownOrders
  <2> QED
    BY <2>1, <2>2
<1>9. HeapInv'
  BY <1>3, <1>4, <1>8 DEF HeapInv
<1>10. PICK a, b, v : a = Heap!ToBag(t) /\ b = Heap!ToBag(s) /\ v = h_data[1]
  OBVIOUS
<1>11. Heap!ToBag(u) = a /\ Heap!ToBag(h_data) = b
  BY <1>1, <1>6, <1>7, <1>8, <1>10, SameBags
<1>12. IsBagOf(a, t) /\ IsBagOf(b, s) /\ DOMAIN b = {h_data[i] : i \in 1 .. L}
  <2>1. DOMAIN b = {h_data[i] : i \in 1 .. L}
    BY <1>1, <1>11, ToBagIs
  <2> QED
    BY <1>6, <1>7, <1>10, <2>1, ToBagIs
<1>13. OneMoreOf(t, s, v)
  BY <1>3, <1>6, <1>7, <1>10, OneMoreCounts DEF OneMoreOf
<1>14. a = Heap!Promise!(-)(b, Heap!Promise!SetToBag({v}))
  BY <1>12, <1>13, BagGrows
<1>15. v \in DOMAIN b /\ \A w \in DOMAIN b : v <= w
  BY <1>1, <1>3, <1>10, <1>12, RootIsLeast
<1> QED
  BY <1>4, <1>9, <1>11, <1>14, <1>15 DEF Heap!Promise!DeleteMin, Heap!Promise!BagToSet

LEMMA NextHeap ==
    ASSUME HeapInv, [Next]_allVars
    PROVE  HeapInv' /\ [Heap!Promise!Next]_(Heap!ToBag(h_data))
<1>1. CASE UNCHANGED heapVars
  BY <1>1 DEF heapVars, HeapInv
<1>2. CASE Heap!Next
  <2>1. ASSUME NEW nums \in Heap!BoundedSeq(Numbers, MaxHeapSize - 1), NEW beyond \in Numbers,
               Heap!Construct(nums, beyond)
        PROVE  HeapInv' /\ Heap!Promise!Next
    BY <2>1, HeapBuilds DEF Heap!Promise!Next
  <2>2. ASSUME NEW v \in Numbers, Heap!push(v) PROVE HeapInv' /\ Heap!Promise!Next
    BY <2>2, HeapPushes DEF Heap!Promise!Next
  <2>3. CASE Heap!pop
    BY <2>3, HeapPops DEF Heap!Promise!Next
  <2> QED
    BY <1>2, <2>1, <2>2, <2>3 DEF Heap!Next
<1> QED
  BY <1>1, <1>2, ContainerSteps

\* What HeapInv says of the array, and what build_heap does to any.
LEMMA HeapSound == HeapInv => Heap!TypeOK /\ Heap!HeapOrdered /\ Heap!BuildOnlyMoves
<1> SUFFICES ASSUME HeapInv PROVE Heap!TypeOK /\ Heap!HeapOrdered /\ Heap!BuildOnlyMoves
  OBVIOUS
<1>1. PICK L \in Nat : L < MaxHeapSize /\ h_data \in Arrays(L) /\ OrderedFrom(h_data, L, 1)
  BY DEF HeapInv
<1>2. h_data \in Seq(Numbers) /\ Len(h_data) = L
  BY <1>1, ArraysAreSequences
<1>3. Heap!HeapOrdered
  <2>1. ASSUME NEW i \in 2 .. L PROVE h_data[i \div 2] <= h_data[i]
    <3>1. i \in Nat /\ i > 1 /\ i \in 1 .. L
      BY <2>1
    <3>2. PICK f \in 1 .. L : f = i \div 2 /\ 1 <= f /\ Child(f, i)
      BY <3>1, HalfIs
    <3> QED
      BY <1>1, <3>1, <3>2 DEF OrderedFrom
  <2> QED
    BY <1>2, <2>1 DEF Heap!HeapOrdered
<1>4. ASSUME NEW nums \in Heap!BoundedSeq(Numbers, MaxHeapSize - 1)
      PROVE  Heap!ToBag(Heap!build_heap(nums)) = Heap!ToBag(nums)
  <2>1. PICK M \in 0 .. MaxHeapSize - 1 : nums \in [1 .. M -> Numbers]
    BY DEF Heap!BoundedSeq, Heap!SeqOf
  <2>2. M \in Nat /\ nums \in Arrays(M)
    BY <2>1, HeapConstants DEF Arrays
  <2>3. PICK u : u = Heap!build_heap(nums)
    OBVIOUS
  <2>4. u \in Arrays(M) /\ SameCounts(nums, u)
    BY <2>2, <2>3, BuildOrders
  <2> QED
    BY <2>2, <2>3, <2>4, SameBags
<1> QED
  BY <1>1, <1>2, <1>3, <1>4 DEF Heap!TypeOK, Heap!BuildOnlyMoves
-----------------------------------------------------------------------------
(* Types *)

\* What the invariants leave out: the allocator keeps a node and knows lengths it was
\* asked for, its indexes are functions, and every Data has contents.
IsMapping(f) == f = [x \in DOMAIN f |-> f[x]]

AllocTyped ==
    /\ a_nodes # {} /\ addr2len \in [DOMAIN addr2len -> 0 .. NodeSize]
    /\ IsMapping(left2right) /\ IsMapping(right2left)
    /\ failed \in BOOLEAN

VecTyped == vec \in [Blocks -> Contents]

LEMMA InitTyped == Init => AllocTyped /\ VecTyped
<1> SUFFICES ASSUME Init PROVE AllocTyped /\ VecTyped
  OBVIOUS
<1>1. AllocTyped
  BY DEF Init, Allocator!Init, AllocTyped, IsMapping
<1>2. (CHOOSE c \in Contents : TRUE) \in Contents
  BY TableConstants
<1>3. VecTyped
  BY <1>2 DEF Init, Cow!Init, VecTyped
<1> QED
  BY <1>1, <1>3

\* Deletes and inserts make mappings of mappings.
HasMappings(m) == IsMapping(m.l2r) /\ IsMapping(m.r2l)

LEMMA MappingsKept ==
    ASSUME NEW m, HasMappings(m), NEW lo, NEW hi
    PROVE  /\ HasMappings(Allocator!delete_memory_region(m, lo, hi))
           /\ HasMappings(Allocator!insert_memory_region(m, lo, hi))
<1>1. \A f, x, y : /\ IsMapping(Allocator!Without(f, x)) /\ IsMapping(Allocator!With(f, x, y))
  BY DEF IsMapping, Allocator!Without, Allocator!Restrict, Allocator!With
<1> QED
  BY <1>1 DEF HasMappings, Allocator!delete_memory_region, Allocator!insert_memory_region

LEMMA CommitTyped ==
    ASSUME NEW m, HasMappings(m), Allocator!Commit(m)
    PROVE  IsMapping(left2right') /\ IsMapping(right2left') /\ failed' \in BOOLEAN
  BY DEF HasMappings, Allocator!Commit

LEMMA CutTyped ==
    ASSUME AllocTyped, NEW h \in Handles, NEW n \in Lens, NEW m, HasMappings(m), Allocator!Cut(h, n, m)
    PROVE  /\ addr2len' \in [DOMAIN addr2len' -> 0 .. NodeSize]
           /\ IsMapping(left2right') /\ IsMapping(right2left') /\ failed' \in BOOLEAN
<1>1. PICK r : /\ Allocator!Commit(Allocator!KeepRemainder(Allocator!delete_memory_region(m, r[1], r[2]), r[1], r[2], n))
               /\ addr2len' = Allocator!With(addr2len, r[1], n)
  BY DEF Allocator!Cut
<1>2. n \in 0 .. NodeSize
  BY AllocatorConstants
<1>3. addr2len' \in [DOMAIN addr2len' -> 0 .. NodeSize]
  BY <1>1, <1>2 DEF AllocTyped, Allocator!With
<1>4. PICK d : d = Allocator!delete_memory_region(m, r[1], r[2])
  OBVIOUS
<1>5. HasMappings(d)
  BY <1>4, MappingsKept
<1>6. HasMappings(Allocator!KeepRemainder(d, r[1], r[2], n))
  BY <1>5, MappingsKept DEF Allocator!KeepRemainder
<1> QED
  BY <1>1, <1>3, <1>4, <1>6, CommitTyped

LEMMA NextAllocTyped == AllocTyped /\ [Next]_allVars => AllocTyped'
<1> SUFFICES ASSUME AllocTyped, [Next]_allVars PROVE AllocTyped'
  OBVIOUS
<1>1. CASE UNCHANGED allocatorVars
  BY <1>1 DEF allocatorVars, AllocTyped, IsMapping
<1>2. HasMappings(Allocator!Meta)
  BY DEF AllocTyped, HasMappings, Allocator!Meta
<1>3. ASSUME NEW h \in Handles, NEW n \in Lens, Allocator!Allocate(h, n) PROVE AllocTyped'
  <2>1. Allocator!Cut(h, n, Allocator!Meta) /\ a_nodes' = a_nodes
    BY <1>3 DEF Allocator!Allocate
  <2>2. /\ addr2len' \in [DOMAIN addr2len' -> 0 .. NodeSize]
        /\ IsMapping(left2right') /\ IsMapping(right2left') /\ failed' \in BOOLEAN
    BY <1>2, <2>1, CutTyped
  <2> QED
    BY <2>1, <2>2 DEF AllocTyped, IsMapping
<1>4. ASSUME NEW h \in Handles, NEW n \in Lens, Allocator!AllocateInNewNode(h, n) PROVE AllocTyped'
  <2>1. PICK b : /\ a_nodes' = a_nodes \cup {b}
                 /\ Allocator!Cut(h, n, Allocator!insert_memory_region(Allocator!Meta, b, b + NodeSize))
    BY <1>4 DEF Allocator!AllocateInNewNode
  <2>2. HasMappings(Allocator!insert_memory_region(Allocator!Meta, b, b + NodeSize))
    BY <1>2, MappingsKept
  <2>3. /\ addr2len' \in [DOMAIN addr2len' -> 0 .. NodeSize]
        /\ IsMapping(left2right') /\ IsMapping(right2left') /\ failed' \in BOOLEAN
    BY <2>1, <2>2, CutTyped
  <2> QED
    BY <2>1, <2>3 DEF AllocTyped, IsMapping
<1>5. ASSUME NEW h \in Handles, Allocator!Release(h) PROVE AllocTyped'
  <2>1. PICK known, mem, n :
           LET g == Allocator!MergeNext(Allocator!MergePrev([Allocator!Meta EXCEPT !.ok = known], mem, mem + n))
           IN  /\ Allocator!Commit(Allocator!insert_memory_region(g.m, g.left, g.right))
               /\ addr2len' = Allocator!Without(addr2len, mem) /\ a_nodes' = a_nodes
    BY <1>5 DEF Allocator!Release
  <2>2. PICK m : m = [Allocator!Meta EXCEPT !.ok = known]
    OBVIOUS
  <2>3. HasMappings(m)
    BY <1>2, <2>2 DEF HasMappings, Allocator!Meta
  <2>4. PICK p : p = Allocator!MergePrev(m, mem, mem + n)
    OBVIOUS
  <2>5. HasMappings(p.m)
    BY <2>3, <2>4, MappingsKept DEF Allocator!MergePrev
  <2>6. PICK g : g = Allocator!MergeNext(p)
    OBVIOUS
  <2>7. HasMappings(g.m)
    BY <2>5, <2>6, MappingsKept DEF Allocator!MergeNext
  <2>8. Allocator!Commit(Allocator!insert_memory_region(g.m, g.left, g.right))
    BY <2>1, <2>2, <2>4, <2>6
  <2>9. HasMappings(Allocator!insert_memory_region(g.m, g.left, g.right))
    BY <2>7, MappingsKept
  <2>10. IsMapping(left2right') /\ IsMapping(right2left') /\ failed' \in BOOLEAN
    BY <2>8, <2>9, CommitTyped
  <2>11. addr2len' \in [DOMAIN addr2len' -> 0 .. NodeSize] /\ a_nodes' # {}
    BY <2>1 DEF AllocTyped, Allocator!Without, Allocator!Restrict
  <2> QED
    BY <2>10, <2>11 DEF AllocTyped, IsMapping
<1>6. CASE Allocator!Next
  BY <1>3, <1>4, <1>5, <1>6 DEF Allocator!Next
<1> QED
  BY <1>1, <1>6, ComponentSteps

LEMMA NextVecTyped == VecTyped /\ [Next]_allVars => VecTyped'
<1> SUFFICES ASSUME VecTyped, [Next]_allVars PROVE VecTyped'
  OBVIOUS
<1>1. CASE UNCHANGED vec
  BY <1>1 DEF VecTyped
<1>2. ASSUME NEW b, NEW c \in Contents, vec' = [vec EXCEPT ![b] = c] PROVE VecTyped'
  BY <1>2 DEF VecTyped
<1>3. ASSUME NEW o \in Objects, NEW c \in Contents, Cow!Construct(o, c) \/ Cow!Mutate(o, c) PROVE VecTyped'
  <2>1. UNCHANGED vec \/ \E b : vec' = [vec EXCEPT ![b] = c]
    BY <1>3 DEF Cow!Construct, Cow!Mutate, Cow!Following
  <2> QED
    BY <1>1, <1>2, <2>1
<1>4. ASSUME NEW o \in Objects, NEW r \in Objects,
             Cow!Copy(o, r) \/ Cow!Assign(o, r) \/ Cow!Move(o, r) \/ Cow!MoveAssign(o, r)
      PROVE  UNCHANGED vec
  BY <1>4 DEF Cow!Copy, Cow!Assign, Cow!Move, Cow!MoveAssign, Cow!Following
<1>5. ASSUME NEW o \in Objects, Cow!Destroy(o) \/ Cow!ConstructDefault(o) PROVE UNCHANGED vec
  BY <1>5 DEF Cow!Destroy, Cow!ConstructDefault, Cow!Following
<1>6. CASE Cow!CopyNext \/ Cow!Next
  BY <1>1, <1>3, <1>4, <1>5, <1>6 DEF Cow!CopyNext, Cow!Next, Cow!CopyStep, Cow!MoveStep
<1>7. CASE UNCHANGED cowVars
  BY <1>1, <1>7 DEF cowVars
<1> QED
  BY <1>6, <1>7, ComponentSteps

\* A set of some of a finite set is no larger.
LEMMA SomeOf ==
    ASSUME NEW S, IsFiniteSet(S), NEW f, NEW b
    PROVE  Cardinality({o \in S : f[o] = b}) \in 0 .. Cardinality(S)
<1>1. {o \in S : f[o] = b} \subseteq S
  OBVIOUS
<1>2. IsFiniteSet({o \in S : f[o] = b}) /\ Cardinality({o \in S : f[o] = b}) <= Cardinality(S)
  BY <1>1, FS_Subset
<1>3. Cardinality({o \in S : f[o] = b}) \in Nat /\ Cardinality(S) \in Nat
  BY <1>2, FS_CardinalityType
<1> QED
  BY <1>2, <1>3

LEMMA AllocatorTypes == AllocInv /\ AllocTyped => Allocator!TypeOK
<1> SUFFICES ASSUME AllocInv, AllocTyped PROVE Allocator!TypeOK
  OBVIOUS
<1>1. /\ ~failed /\ a_free \subseteq Nat \X Nat
      /\ \A x \in DOMAIN left2right : left2right[x] \in Nat
      /\ \A x \in DOMAIN right2left : right2left[x] \in Nat
  BY DEF AllocInv, Indexed, Allocator!Meta
<1>2. \A r \in a_free : r[1] < r[2]
  BY DEF AllocInv, Layout, Parts
<1>3. block \in [Handles -> {NoBlock} \cup BlockRecords]
  BY DEF AllocInv, Layout, BlocksTyped
<1>4. BlockRecords \subseteq [addr : Nat, len : 0 .. NodeSize]
  BY AllocatorConstants DEF BlockRecords
<1>5. block \in [Handles -> {NoBlock} \cup [addr : Nat, len : 0 .. NodeSize]]
  BY <1>3, <1>4
<1>6. left2right \in [DOMAIN left2right -> Nat] /\ right2left \in [DOMAIN right2left -> Nat]
  BY <1>1 DEF AllocTyped, IsMapping
<1> QED
  BY <1>1, <1>2, <1>5, <1>6 DEF Allocator!TypeOK, AllocInv, AllocTyped

LEMMA StorageTypes ==
    /\ CowInv /\ VecTyped => Cow!TypeOK
    /\ SharedInv => Shared!TypeOK
    /\ OPoolInv => OPool!TypeOK
    /\ ObjectPoolInv => ObjectPool!TypeOK
<1>1. ASSUME CowInv, VecTyped PROVE Cow!TypeOK
  <2>1. ASSUME NEW b \in Blocks PROVE c_refcnt[b] \in 0 .. Cardinality(Objects)
    <3>1. CowOwned(b) \in 0 .. Cardinality(Objects) /\ c_refcnt[b] \in Nat /\ Cardinality(Objects) \in Nat
      BY <1>1, CowConstants, SomeOf, FS_CardinalityType DEF CowOwned, CowInv, CowTyped
    <3>2. c_refcnt[b] = 0 \/ c_refcnt[b] <= CowOwned(b)
      BY <1>1 DEF CowInv, CowBounded
    <3> QED
      BY <3>1, <3>2
  <2>2. c_refcnt \in [Blocks -> 0 .. Cardinality(Objects)]
    BY <1>1, <2>1 DEF CowInv, CowTyped
  <2> QED
    BY <1>1, <2>2, CowCardinality DEF Cow!TypeOK, CowInv, CowTyped, VecTyped
<1>2. ASSUME SharedInv PROVE Shared!TypeOK
  <2>1. ASSUME NEW b \in Blocks PROVE s_refcnt[b] \in 0 .. Cardinality(Pointers)
    <3>1. SharedOwned(b) \in 0 .. Cardinality(Pointers)
      BY SharedConstants, SomeOf DEF SharedOwned
    <3> QED
      BY <1>2, <3>1 DEF SharedInv, SharedCounts
  <2>2. s_refcnt \in [Blocks -> 0 .. Cardinality(Pointers)]
    BY <1>2, <2>1 DEF SharedInv, SharedTyped
  <2> QED
    BY <1>2, <2>2, SharedCardinality DEF Shared!TypeOK, SharedInv, SharedTyped
<1>3. ASSUME OPoolInv PROVE OPool!TypeOK
  <2>1. l_holders \in [PoolChunks -> Nat] /\ l_lost \subseteq PoolChunks /\ l_peak \in Nat
    <3>1. /\ IsFiniteSet(CarvedOf(l_nodes, cur_free_idx)) /\ l_lost \subseteq CarvedOf(l_nodes, cur_free_idx)
          /\ l_peak = Cardinality(CarvedOf(l_nodes, cur_free_idx))
      BY <1>3 DEF OPoolInv, OPoolBooks, Books
    <3>2. l_lost \subseteq PoolChunks /\ l_peak \in Nat
      BY <3>1, FS_CardinalityType DEF CarvedOf
    <3> QED
      BY <1>3, <3>2 DEF OPoolInv
  <2> QED
    BY <1>3, <2>1, OPoolNames DEF OPool!TypeOK, OPoolInv
<1>4. ASSUME ObjectPoolInv PROVE ObjectPool!TypeOK
  <2>1. PICK f, m : ObjectPoolBooks(f, m)
    BY <1>4 DEF ObjectPoolInv
  <2>2. i_lost \subseteq PoolChunks /\ i_peak \in Nat
    <3>1. /\ IsFiniteSet(CarvedOf(i_nodes, current)) /\ i_lost \subseteq CarvedOf(i_nodes, current)
          /\ i_peak = Cardinality(CarvedOf(i_nodes, current))
      BY <2>1 DEF ObjectPoolBooks, Books
    <3> QED
      BY <3>1, FS_CardinalityType DEF CarvedOf
  <2>3. free_list \in PoolChunks \cup {Null}
    BY <2>1 DEF ObjectPoolBooks, IsChain
  <2>4. i_holders \in [PoolChunks -> Nat]
    BY <1>4 DEF ObjectPoolInv
  <2> QED
    BY <1>4, <2>2, <2>3, <2>4, ObjectPoolNames DEF ObjectPool!TypeOK, ObjectPoolInv
<1> QED
  BY <1>1, <1>2, <1>3, <1>4

LEMMA OwnerTypes ==
    /\ TableInv => Table!TypeOK
    /\ TextInv => Text!TypeOK
    /\ UniqueInv => Unique!TypeOK
    /\ FiveInv => Five!TypeOK
<1>1. TableInv => Table!TypeOK
  BY DEF TableInv, TableBuckets, Table!TypeOK, Nodes
<1>2. TextInv => Text!TypeOK
  <2>1. ASSUME NEW b \in Blocks, TextInv PROVE chars[b] = NoObject \/ chars[b] \in Seq(Contents \cup {Nul})
    BY <2>1 DEF TextInv, TextTyped, Texts
  <2> QED
    BY <2>1 DEF TextInv, TextTyped, Text!TypeOK
<1>3. UniqueInv => Unique!TypeOK
  BY DEF UniqueInv, Unique!TypeOK
<1>4. FiveInv => Five!TypeOK
  BY DEF FiveInv, FiveTyped, Five!TypeOK
<1> QED
  BY <1>1, <1>2, <1>3, <1>4
-----------------------------------------------------------------------------
(* Theorems *)

(***************************************************************************)
(* What a string, a unique_pointer or an RDerived owns belongs to nobody   *)
(* else and lives exactly as long, also when a constructor throws; the     *)
(* sockets too while objects are only copied.                              *)
(***************************************************************************)
THEOREM EverythingIsOwnedOnce == Spec => []OwnedOnce
<1>1. TextInv /\ UniqueInv /\ FiveInv => OwnedOnce
  BY TextOwnsOnce, FiveOwnsOnce DEF OwnedOnce, UniqueInv, Unique!OwnedOnce
<1> QED
  BY <1>1, InitText, NextText, InitUnique, NextUnique, InitFive, NextFive, PTL DEF Spec

(***************************************************************************)
(* Between two calls the heap has no father greater than a child, and      *)
(* build_heap makes a heap of any numbers and loses none; the members of   *)
(* linked_list form one ring in both directions; HashTable has one node    *)
(* per key, in the bucket of its hash; and what ministl_sort has done is   *)
(* sorted, within the array.                                               *)
(***************************************************************************)
THEOREM ContainersAreSound == Spec => []ContainersSound
<1>1. HeapInv /\ ListInv /\ TableInv /\ SortInv => ContainersSound
  BY HeapSound, ListSound, TableSound, SortSound DEF ContainersSound
<1>2. Init => HeapInv /\ ListInv /\ TableInv /\ SortInv
  BY InitHeap, InitList, InitTable, InitSort
<1>3. HeapInv /\ ListInv /\ TableInv /\ SortInv /\ [Next]_allVars
         => HeapInv' /\ ListInv' /\ TableInv' /\ SortInv'
  BY NextHeap, NextList, NextTable, NextSort
<1> QED
  BY <1>1, <1>2, <1>3, PTL DEF Spec

(***************************************************************************)
(* Every step of MinHeap, linked_list, HashTable and vec is one of a       *)
(* priority queue, a sequence open at both ends, a map and a sequence that *)
(* grows at its end, or changes nothing that these show.                   *)
(***************************************************************************)
THEOREM ContainersKeepPromises == Spec => ImplementsContainers
<1>1. Init => /\ HeapInv /\ ListInv /\ TableInv /\ VectorInv
              /\ Heap!Promise!Init /\ List!Promise!Init /\ Table!Promise!Init /\ Vector!Promise!Init
  BY InitHeap, InitList, InitTable, InitVector
<1>2. HeapInv /\ ListInv /\ TableInv /\ VectorInv /\ [Next]_allVars
         => /\ HeapInv' /\ ListInv' /\ TableInv' /\ VectorInv'
            /\ [Heap!Promise!Next]_(Heap!ToBag(h_data)) /\ [List!Promise!Next]_(List!content)
            /\ [Table!Promise!Next]_TableMap /\ [Vector!Promise!Next]_VectorList
  BY NextHeap, NextList, NextTable, NextVector
<1>3. /\ Heap!ImplementsPriorityQueue <=> Heap!Promise!Init /\ [][Heap!Promise!Next]_(Heap!ToBag(h_data))
      /\ List!ImplementsDeque <=> List!Promise!Init /\ [][List!Promise!Next]_(List!content)
      /\ Table!ImplementsMap <=> Table!Promise!Init /\ [][Table!Promise!Next]_TableMap
      /\ Vector!ImplementsDeque <=> Vector!Promise!Init /\ [][Vector!Promise!Next]_VectorList
  BY DEF Heap!ImplementsPriorityQueue, Heap!Promise!Spec, List!ImplementsDeque, List!Promise!Spec,
         Table!ImplementsMap, Table!Promise!Spec, TableMap, Vector!ImplementsDeque,
         Vector!Promise!Spec, VectorList
<1> QED
  BY <1>1, <1>2, <1>3, PTL DEF Spec, ImplementsContainers

(***************************************************************************)
(* Type correctness of every component, as long as callers of the          *)
(* allocator ask for at least one byte.                                    *)
(***************************************************************************)
THEOREM TypesAreKept ==
    ASSUME 0 \notin Lens
    PROVE  Spec => []TypeOK
<1> DEFINE TypedInv ==
      /\ routine \in RoutineNames
      /\ AllocInv /\ AllocTyped /\ PoolsInv /\ CowInv /\ VecTyped /\ SharedInv
      /\ HeapInv /\ ListInv /\ TableInv /\ VectorInv /\ TextInv /\ UniqueInv /\ FiveInv /\ SortInv
<1>1. Init => TypedInv
  BY InitAllocInv, InitTyped, InitPools, InitCow, InitShared, InitHeap, InitList, InitTable,
     InitVector, InitText, InitUnique, InitFive, InitSort
  DEF Init
<1>2. TypedInv /\ [Next]_allVars => TypedInv'
  <2> SUFFICES ASSUME TypedInv, [Next]_allVars PROVE TypedInv'
    OBVIOUS
  <2>1. routine' \in RoutineNames
    BY ComponentSteps
  <2>2. AllocInv' /\ AllocTyped' /\ PoolsInv' /\ CowInv' /\ VecTyped' /\ SharedInv'
    BY NextAllocInv, NextAllocTyped, NextPools, NextCow, NextVecTyped, NextShared
  <2>3. HeapInv' /\ ListInv' /\ TableInv' /\ VectorInv'
    BY NextHeap, NextList, NextTable, NextVector
  <2>4. TextInv' /\ UniqueInv' /\ FiveInv' /\ SortInv'
    BY NextText, NextUnique, NextFive, NextSort
  <2> QED
    BY <2>1, <2>2, <2>3, <2>4
<1>3. TypedInv => TypeOK
  <2> SUFFICES ASSUME TypedInv PROVE TypeOK
    OBVIOUS
  <2>1. Allocator!TypeOK /\ OPool!TypeOK /\ ObjectPool!TypeOK /\ Cow!TypeOK /\ Shared!TypeOK
    BY AllocatorTypes, StorageTypes DEF PoolsInv
  <2>2. ContainersTypeOK
    BY HeapSound, ListSound, VectorTyped, SortSound, OwnerTypes DEF ContainersTypeOK
  <2> QED
    BY <2>1, <2>2 DEF TypeOK
<1> HIDE DEF TypedInv
<1> QED
  BY <1>1, <1>2, <1>3, PTL DEF Spec
=============================================================================
