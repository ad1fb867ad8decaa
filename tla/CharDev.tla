------------------------------ MODULE CharDev ------------------------------
(***************************************************************************)
(* The character device of module_dev/char_dev: char-dev.c keeps one       *)
(* message and lets one process at a time open it; main.c is a process     *)
(* that reads the message twice by ioctl and replaces it.                  *)
(*                                                                         *)
(* The module takes no lock.  Opening and closing go step by step, one     *)
(* access to Device_Open each; they are all that keeps the other calls of  *)
(* two processes apart, so a call that moves data is one step.             *)
(*                                                                         *)
(* Nothing reserves the last byte of Message for a zero.  When a text      *)
(* fills it, reading goes on in the memory behind it, whose bytes are not  *)
(* known: that there is a zero after MaxBehind of them at most is a bound  *)
(* of the model.                                                           *)
(***************************************************************************)
EXTENDS Integers, Sequences, FiniteSets, SequencesExt

CONSTANTS
    Proc,       \* the processes that use the device
    Client,     \* those of them that run main.c
    BUF_LEN,    \* the size of Message
    GET_LEN,    \* how much IOCTL_GET_MSG reads
    Texts,      \* what processes write: sequences of bytes, which are signed
    Sizes,      \* the lengths of the buffers they read into
    Indices,    \* the numbers of the bytes they ask for
    Foreign,    \* a byte behind Message, of either sign
    MaxBehind   \* how many such bytes there are before a zero

ASSUME CharDevAssumption ==
    /\ Client \subseteq Proc
    /\ BUF_LEN \in Nat \ {0} /\ GET_LEN \in Nat \ {0} /\ MaxBehind \in Nat
    /\ Texts \subseteq Seq(Int)
    /\ Sizes \subseteq Nat \ {0}
    /\ Indices \subseteq Nat
    /\ Foreign \notin Int

VARIABLES
    Device_Open,    \* is the device open right now?
    Message,        \* its bytes, counted from 1
    Message_Ptr,    \* how many of them the reader has got
    refs,           \* how often the module is in use
    proc,           \* the processes
    raced           \* history: did two of them pass the test of Device_Open?

vars == <<Device_Open, Message, Message_Ptr, refs, proc, raced>>

\* A process: where it is, its copy of Device_Open, the i of ioctl_get_nth_byte(),
\* and a history since it opened the device or wrote to it: the bytes it has read,
\* whether it was told that this is all, and the answers by number (no account is
\* kept once processes have raced).
Closed == [pc |-> "closed", reg |-> 0, i |-> 0, got |-> <<>>, eof |-> FALSE, nth |-> {}]

Opening == {"open_load", "open_store", "open_reset"}
Using == {"open", "asked", "got", "set", "failed"}

Bytes == {0} \cup UNION {ToSet(t) : t \in Texts}

TypeOK ==
    /\ Device_Open \in Int /\ refs \in Nat /\ raced \in BOOLEAN
    /\ Message \in [1 .. BUF_LEN -> Bytes]
    /\ Message_Ptr \in 0 .. BUF_LEN + MaxBehind
    /\ proc \in [Proc -> [pc : {"closed", "close"} \cup Opening \cup Using,
                          reg : Int, i : 0 .. BUF_LEN + MaxBehind + 1,
                          got : Seq(Bytes \cup {Foreign}), eof : BOOLEAN,
                          nth : SUBSET (Nat \X (Bytes \cup {Foreign}))]]

Init ==
    /\ Device_Open = 0 /\ refs = 0 /\ raced = FALSE
    /\ Message = [i \in 1 .. BUF_LEN |-> 0]
    /\ Message_Ptr = 0
    /\ proc = [p \in Proc |-> Closed]

Goto(p, pc) == proc' = [proc EXCEPT ![p].pc = pc]

(***************************************************************************)
(* device_open() and device_release()                                      *)
(***************************************************************************)

\* Mutant of device_open(): nobody is turned away.
NeverBusy(p) ==
    /\ proc[p].pc = "closed"
    /\ Goto(p, "open_load")
    /\ UNCHANGED <<Device_Open, Message, Message_Ptr, refs, raced>>

\* -EBUSY, and the process may try again.
OpenBusy(p) ==
    /\ proc[p].pc = "closed" /\ Device_Open # 0
    /\ UNCHANGED vars

OpenTest(p) ==
    /\ proc[p].pc = "closed" /\ Device_Open = 0
    /\ Goto(p, "open_load")
    /\ raced' = (raced \/ \E q \in Proc : proc[q].pc \in {"open_load", "open_store"})
    /\ UNCHANGED <<Device_Open, Message, Message_Ptr, refs>>

OpenLoad(p) ==
    /\ proc[p].pc = "open_load"
    /\ proc' = [proc EXCEPT ![p].reg = Device_Open, ![p].pc = "open_store"]
    /\ UNCHANGED <<Device_Open, Message, Message_Ptr, refs, raced>>

OpenStore(p) ==
    /\ proc[p].pc = "open_store"
    /\ Device_Open' = proc[p].reg + 1
    /\ Goto(p, "open_reset")
    /\ UNCHANGED <<Message, Message_Ptr, refs, raced>>

\* Mutant of device_open(): the reader goes on where the last one was.
OpenKeepsPtr(p) ==
    /\ proc[p].pc = "open_reset"
    /\ refs' = refs + 1
    /\ Goto(p, "open")
    /\ UNCHANGED <<Device_Open, Message, Message_Ptr, raced>>

OpenReset(p) ==
    /\ proc[p].pc = "open_reset"
    /\ Message_Ptr' = 0
    /\ refs' = refs + 1
    /\ Goto(p, "open")
    /\ UNCHANGED <<Device_Open, Message, raced>>

\* main() comes here after its last ioctl, or by exit().
CloseLoad(p) ==
    /\ proc[p].pc \in IF p \in Client THEN {"set", "failed"} ELSE {"open"}
    /\ proc' = [proc EXCEPT ![p].reg = Device_Open, ![p].pc = "close"]
    /\ UNCHANGED <<Device_Open, Message, Message_Ptr, refs, raced>>

CloseStore(p) ==
    /\ proc[p].pc = "close"
    /\ Device_Open' = proc[p].reg - 1
    /\ refs' = refs - 1
    /\ proc' = [proc EXCEPT ![p] = Closed]
    /\ UNCHANGED <<Message, Message_Ptr, raced>>

(***************************************************************************)
(* device_read() and device_write()                                        *)
(***************************************************************************)

\* The length of the message: what stands before its zero, or all of the buffer.
TextLen == CHOOSE n \in 0 .. BUF_LEN : /\ n = BUF_LEN \/ Message[n + 1] = 0
                                      /\ \A j \in 1 .. n : Message[j] # 0

Terminated == TextLen < BUF_LEN

\* The byte under a pointer, and where the zero may be that stops a reader.
ByteAt(k) == IF k <= BUF_LEN THEN Message[k] ELSE Foreign
Ends == IF Terminated THEN {TextLen} ELSE BUF_LEN .. BUF_LEN + MaxBehind

\* As much as there is and fits; nothing is how the end of the file is told.
device_read(p, length, pc) ==
    \E end \in Ends :
        LET left == IF end > Message_Ptr THEN end - Message_Ptr ELSE 0
            n == IF left < length THEN left ELSE length
            bytes == [k \in 1 .. n |-> ByteAt(Message_Ptr + k)]
        IN
        /\ Message_Ptr' = Message_Ptr + n
        /\ proc' = [proc EXCEPT ![p].got = IF raced THEN @ ELSE @ \o bytes,
                                ![p].eof = left = 0, ![p].pc = pc]
        /\ UNCHANGED <<Device_Open, Message, refs, raced>>

\* The bytes are copied over what was there, no more than the buffer holds and no
\* zero behind them, and are read from the beginning.
device_write(p, bytes, pc) ==
    /\ Message' = [k \in 1 .. BUF_LEN |-> IF k <= Len(bytes) THEN bytes[k] ELSE Message[k]]
    /\ Message_Ptr' = 0
    /\ proc' = [proc EXCEPT ![p].got = <<>>, ![p].eof = FALSE, ![p].nth = {}, ![p].pc = pc]
    /\ UNCHANGED <<Device_Open, refs, raced>>

Read(p, length) ==
    /\ p \notin Client /\ proc[p].pc = "open"
    /\ device_read(p, length, "open")

Write(p, text) ==
    /\ p \notin Client /\ proc[p].pc = "open"
    /\ device_write(p, text, "open")

(***************************************************************************)
(* device_ioctl(), and main() as its caller                                *)
(***************************************************************************)

\* What IOCTL_SET_MSG counts: the bytes and the zero as far as they fit, but
\* nothing if the first byte is the zero.
set_msg_bytes(text) ==
    IF text = <<>> THEN <<>>
    ELSE IF Len(text) < BUF_LEN THEN Append(text, 0)
    ELSE SubSeq(text, 1, BUF_LEN)

\* IOCTL_GET_NTH_BYTE does not test the number, which counts from 0.
NthBytes(n) == IF n < BUF_LEN THEN {Message[n + 1]} ELSE {0, Foreign}

Noted(answers, n, b) == IF raced THEN answers ELSE answers \cup {<<n, b>>}

GetNthByte(p, n) ==
    /\ p \notin Client /\ proc[p].pc = "open"
    /\ \E b \in NthBytes(n) : proc' = [proc EXCEPT ![p].nth = Noted(@, n, b)]
    /\ UNCHANGED <<Device_Open, Message, Message_Ptr, refs, raced>>

\* main() has its answer to number i: the loop ends at the zero, exit() is called
\* for a negative byte.
AfterByte(b, i) ==
    CASE b = 0 -> {"asked"}
      [] b = Foreign -> {"failed"} \cup (IF i < BUF_LEN + MaxBehind THEN {"open"} ELSE {})
      [] OTHER -> IF b < 0 THEN {"failed"} ELSE {"open"}

\* One round of the loop of ioctl_get_nth_byte().
AskNext(p) ==
    LET n == proc[p].i IN
    /\ p \in Client /\ proc[p].pc = "open"
    /\ \E b \in NthBytes(n) : \E pc \in AfterByte(b, n) :
          proc' = [proc EXCEPT ![p].nth = Noted(@, n, b), ![p].i = n + 1, ![p].pc = pc]
    /\ UNCHANGED <<Device_Open, Message, Message_Ptr, refs, raced>>

GetMsg(p) ==
    /\ proc[p].pc = IF p \in Client THEN "asked" ELSE "open"
    /\ device_read(p, GET_LEN, IF p \in Client THEN "got" ELSE "open")

\* The parameter is a string: a zero ends it.
SetMsg(p, text) ==
    /\ ~ Contains(text, 0)
    /\ proc[p].pc = IF p \in Client THEN "got" ELSE "open"
    /\ device_write(p, set_msg_bytes(text), IF p \in Client THEN "set" ELSE "open")

Next ==
    \E p \in Proc :
        \/ OpenBusy(p) \/ OpenTest(p) \/ OpenLoad(p) \/ OpenStore(p)
        \/ OpenReset(p) \/ CloseLoad(p) \/ CloseStore(p)
        \/ \E length \in Sizes : Read(p, length)
        \/ \E text \in Texts : Write(p, text) \/ SetMsg(p, text)
        \/ \E n \in Indices : GetNthByte(p, n)
        \/ AskNext(p) \/ GetMsg(p)

Spec == Init /\ [][Next]_vars

(***************************************************************************)
(* Properties                                                              *)
(***************************************************************************)
Holds(p) == proc[p].pc \in Using \cup {"close"}
Users == {p \in Proc : Holds(p)}

\* The use count of the module is the number of processes that have the device
\* open, also when calls of open() overlapped.  "We don't want to talk to 2
\* processes at the same time": unless they did, there is one at most, and
\* whenever nobody is opening or closing the device, Device_Open agrees, so it can
\* be opened again once it has been closed.
Exclusive ==
    /\ refs = Cardinality(Users)
    /\ raced \/ /\ \A p, q \in Users : p = q
                /\ (\A p \in Proc : proc[p].pc \notin Opening \cup {"close"}) =>
                        Device_Open = refs

\* What a process has seen is the message.
Sees(p) ==
    /\ proc[p].got = [k \in 1 .. Message_Ptr |-> ByteAt(k)]
    /\ proc[p].eof => Message_Ptr >= TextLen
    /\ Message_Ptr > TextLen => ~ Terminated
    /\ \A a \in proc[p].nth : a[1] < BUF_LEN => a[2] = Message[a[1] + 1]
    /\ proc[p].pc \in {"asked", "got"} =>
          /\ {a[1] : a \in proc[p].nth} = 0 .. proc[p].i - 1
          /\ proc[p].i = TextLen + 1 \/ (proc[p].i > TextLen /\ ~ Terminated)

\* However a reader cuts it into calls, it gets the message from its beginning,
\* each byte once, and the end of the file not before it has all of it.  It goes
\* behind the message only if a text has filled the buffer, where the code has no
\* zero to stop at.  Answers by number are the bytes of the same message, and
\* when main() has printed them, it has asked for each of them and the zero.
ReadsWhole == raced \/ \A p \in Proc : proc[p].pc \in Using => Sees(p)
=============================================================================
