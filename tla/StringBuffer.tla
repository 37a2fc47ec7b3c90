---------------------------- MODULE StringBuffer ----------------------------
(***************************************************************************)
(* StringBuffer (string_buffer.h), in which HTTP messages are put          *)
(* together.  Its text is the first `size` bytes of a block that grows in  *)
(* units; what follows should be Nul, because Resize makes it part of the  *)
(* text as it is and data() is read as a C string.  realloc may fail       *)
(* whenever it is called.                                                  *)
(***************************************************************************)
EXTENDS Integers, Sequences

CONSTANTS
    Byte,
    Nul,
    MinSize, \* the unit of growth
    MaxSize, \* no block is larger
    MaxText  \* bound on the length of what one call is given

ASSUME BufferAssumption ==
    /\ Nul \notin Byte
    /\ MinSize \in Nat \ {0} /\ MaxSize \in Nat /\ MaxText \in Nat

VARIABLES
    memory, \* base, the block of cap bytes
    size,   \* pptr() - pbase()
    text,   \* what the calls should have left, which the code does not know
    state   \* "clean"; "torn": a call that failed left bytes after the text;
            \* "exposed": and they became part of it; "overrun": a call wrote past
            \* the block, which is not followed

bufferVars == <<memory, size, text, state>>

cap == Len(memory)
Texts == UNION {[1..n -> Byte] : n \in 0..MaxText}

-----------------------------------------------------------------------------
(* MyBuf. *)

Rounded(n) == ((n + MinSize - 1) \div MinSize) * MinSize

\* Reserve(n) may succeed, and may fail.
Fits(n) == n <= cap \/ Rounded(n) <= MaxSize
Fails(n) == n > cap

\* The block after a Reserve(n): if it moved, all but the text is cleared.
Grown(n) ==
    IF n <= cap THEN memory
    ELSE [i \in 1..Rounded(n) |-> IF i <= size THEN memory[i] ELSE Nul]

\* memcpy to the end of the text in block m.
Copied(m, s) ==
    [i \in DOMAIN m |-> IF i > size /\ i <= size + Len(s) THEN s[i - size] ELSE m[i]]

Extend(m, s) ==
    /\ memory' = Copied(m, s)
    /\ size' = size + Len(s)
    /\ text' = text \o s
    /\ UNCHANGED state

Live == state # "overrun"
Overrun == state' = "overrun" /\ UNCHANGED <<memory, size, text>>

-----------------------------------------------------------------------------
(* The operations. *)

\* Write, xsputn: the whole text or nothing.
Write(s) ==
    /\ Live
    /\ \/ Fits(size + Len(s) + 1) /\ Extend(Grown(size + Len(s) + 1), s)
       \/ Fails(size + Len(s) + 1) /\ UNCHANGED bufferVars

\* sputc (put, endl), and overflow, which does not look at
\* what Reserve returns.
Put(c) ==
    /\ Live
    /\ \/ Fits(size + 1) /\ Extend(Grown(size + 1), <<c>>)
       \/ Fails(size + 1) /\ Overrun

\* Variant: what is given up is not cleared.
ResizeKeepsTail(n) ==
    /\ Live
    /\ \/ /\ Fits(n) /\ memory' = Grown(n)
          /\ size' = n
          /\ text' = [i \in 1..n |-> IF i <= size THEN text[i] ELSE Nul]
          /\ state' = IF size < n /\ n <= cap /\ state = "torn" THEN "exposed" ELSE state
       \/ Fails(n) /\ Overrun

\* Resize clears what it gives up, and takes what is there when it grows.
Resize(n) ==
    /\ Live
    /\ \/ /\ Fits(n)
          /\ memory' = [i \in DOMAIN Grown(n) |-> IF n < i /\ i <= size THEN Nul ELSE Grown(n)[i]]
          /\ size' = n
          /\ text' = [i \in 1..n |-> IF i <= size THEN text[i] ELSE Nul]
          /\ state' = IF size < n /\ n <= cap /\ state = "torn" THEN "exposed" ELSE state
       \/ Fails(n) /\ Overrun

\* Consume(n): memmove, then Resize.  Callers give no n above the size.
Consume(n) ==
    /\ Live /\ n <= size
    /\ memory' = [i \in 1..cap |->
                     IF i <= size - n THEN memory[i + n] ELSE IF i <= size THEN Nul ELSE memory[i]]
    /\ size' = size - n
    /\ text' = [i \in 1..size - n |-> text[i + n]]
    /\ UNCHANGED state

Clear ==
    /\ Live
    /\ memory' = [i \in 1..cap |-> Nul]
    /\ size' = 0 /\ text' = <<>> /\ state' = "clean"

\* The public Reserve; the caller may then write at the end of data() and
\* says with `appended` how much.
Reserve(n) ==
    /\ Live /\ Fits(size + n)
    /\ memory' = Grown(size + n)
    /\ UNCHANGED <<size, text, state>>

appended(s) == Live /\ size + Len(s) <= cap /\ Extend(memory, s)

\* Printf, where vsnprintf ends what it writes with Nul: what fits; if that
\* was not all, all of it in a larger block; if there is none, what fitted
\* stays behind the text.
Printf(s) ==
    /\ Live
    /\ LET room == cap - size
           need == size + Len(s) + 2
           ended == Append(s, Nul)
       IN \/ /\ Len(s) < room
             /\ memory' = Copied(memory, ended)
             /\ size' = size + Len(s) /\ text' = text \o s /\ UNCHANGED state
          \/ /\ Len(s) >= room /\ Fits(need)
             /\ memory' = Copied(Grown(need), ended)
             /\ size' = size + Len(s) /\ text' = text \o s /\ UNCHANGED state
          \/ /\ Len(s) >= room
             /\ memory' = Copied(memory, Append(SubSeq(s, 1, room - 1), Nul))
             /\ state' = IF room > 1 /\ state = "clean" THEN "torn" ELSE state
             /\ UNCHANGED <<size, text>>

\* Load of the file s, of which fread gets k bytes.  What Reserve returns is
\* not looked at.
Load(s, k) ==
    /\ Live
    /\ \E enough \in BOOLEAN :
         LET room == IF ~enough \/ Len(s) <= cap THEN cap ELSE Rounded(Len(s))
             all == k = Len(s)
         IN /\ IF enough THEN room <= MaxSize ELSE Len(s) > cap
            /\ IF k > room THEN Overrun
               ELSE /\ memory' = [i \in 1..room |-> IF i <= k THEN s[i] ELSE Nul]
                    /\ size' = IF all THEN k ELSE 0
                    /\ text' = IF all THEN s ELSE <<>>
                    /\ state' = IF all \/ k = 0 THEN "clean" ELSE "torn"

BufferInit == memory = <<>> /\ size = 0 /\ text = <<>> /\ state = "clean"

BufferNext ==
    \/ \E s \in Texts : Write(s) \/ Printf(s) \/ appended(s) \/ \E k \in 0..Len(s) : Load(s, k)
    \/ \E c \in Byte : Put(c)
    \/ \E n \in 0..MaxSize : Resize(n) \/ Reserve(n)
    \/ \E n \in 1..size : Consume(n)
    \/ Clear

BufferSpec == BufferInit /\ [][BufferNext]_bufferVars

-----------------------------------------------------------------------------
(* Properties. *)

\* After any calls the text is what they should have left, within the block.
TextIsThere ==
    /\ Live => size = Len(text) /\ size <= cap
    /\ state \in {"clean", "torn"} => \A i \in 1..size : memory[i] = text[i]

\* Nothing of an older text is left behind it (string_buffer.h:35, 82), but
\* by a Printf or a Load that failed: Resize would take it into the text.
NothingBehind ==
    state = "clean" => \A i \in size + 1..cap : memory[i] = Nul

\* TextIsThere and NothingBehind: what was written is all that is there.
HoldsText == TextIsThere /\ NothingBehind
=============================================================================
