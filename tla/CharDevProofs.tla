--------------------------- MODULE CharDevProofs ---------------------------
(***************************************************************************)
(* For any number of processes, any size of the buffer and any texts,      *)
(* those that fill the buffer included: the device is open once at most    *)
(* unless calls of open() overlapped, the use count of the module is       *)
(* always right, and a reader gets the message.                            *)
(***************************************************************************)
EXTENDS CharDev, SetLemmas, SequenceTheorems

\* The use count, races or not.
UseCount == IsFiniteSet(Users) /\ refs = Cardinality(Users)

\* Unless processes have raced, one at most is not closed, and it tells the value
\* of Device_Open.
OneUser ==
    raced \/ /\ \A p, q \in Proc : proc[p].pc # "closed" /\ proc[q].pc # "closed" => p = q
             /\ \A p \in Proc :
                  /\ proc[p].pc \in {"open_load", "open_store"} => Device_Open = 0
                  /\ proc[p].pc = "open_store" => proc[p].reg = 0
                  /\ proc[p].pc = "open_reset" \/ Holds(p) => Device_Open = 1
                  /\ proc[p].pc = "close" => proc[p].reg = 1
             /\ (\A p \in Proc : proc[p].pc = "closed") => Device_Open = 0

\* The reader is behind the message only when no zero ends it, and the loop of
\* ioctl_get_nth_byte() has not gone beyond the zero behind the buffer.
Bounded ==
    /\ Message_Ptr <= TextLen \/ ~ Terminated
    /\ \A p \in Proc : proc[p].pc = "open" => proc[p].i <= BUF_LEN + MaxBehind

\* Who has not opened the device yet has read nothing.
Fresh ==
    \A p \in Proc : proc[p].pc \in {"closed"} \cup Opening =>
        proc[p].got = <<>> /\ proc[p].eof = FALSE /\ proc[p].nth = {} /\ proc[p].i = 0

\* main() goes on asking because it has not come to the zero.
Asks(p) ==
    p \in Client /\ proc[p].pc = "open" =>
        /\ {a[1] : a \in proc[p].nth} = 0 .. proc[p].i - 1
        /\ proc[p].i <= TextLen \/ ~ Terminated

\* ReadsWhole, and the loop of main() on its way.
ReadsExact ==
    raced \/ \A p \in Proc : proc[p].pc \in Using => Sees(p) /\ Asks(p)

IInv == TypeOK /\ UseCount /\ OneUser /\ Bounded /\ Fresh /\ ReadsExact

-----------------------------------------------------------------------------
\* What TypeOK says of one process.
AnyByte == Bytes \cup {Foreign}
ProcType == [pc : {"closed", "close"} \cup Opening \cup Using, reg : Int,
             i : 0 .. BUF_LEN + MaxBehind + 1, got : Seq(AnyByte),
             eof : BOOLEAN, nth : SUBSET (Nat \X AnyByte)]

\* Sizes are numbers, and so are bytes, but for the one behind the buffer.
LEMMA Numbers ==
    /\ BUF_LEN \in Nat /\ BUF_LEN > 0 /\ GET_LEN \in Nat /\ MaxBehind \in Nat
    /\ 0 \in Bytes /\ Bytes \subseteq Int /\ Foreign \notin Int
    /\ \A t \in Texts : t \in Seq(Bytes)
  <1>1. /\ BUF_LEN \in Nat /\ BUF_LEN > 0 /\ GET_LEN \in Nat /\ MaxBehind \in Nat
        /\ 0 \in Bytes /\ Foreign \notin Int
    BY CharDevAssumption DEF Bytes
  <1>2. ASSUME NEW t \in Texts PROVE t \in Seq(Int) /\ ToSet(t) \subseteq Int
    BY CharDevAssumption DEF ToSet
  <1>3. Bytes \subseteq Int
    BY <1>2 DEF Bytes
  <1>4. ASSUME NEW t \in Texts PROVE t \in Seq(Bytes)
    <2>1. \A k \in 1 .. Len(t) : t[k] \in ToSet(t)
      BY <1>2 DEF ToSet
    <2>2. \A k \in 1 .. Len(t) : t[k] \in Bytes
      BY <2>1 DEF Bytes
    <2> QED
      BY <1>2, <2>2
  <1> QED
    BY <1>1, <1>3, <1>4

\* The message is what stands before the first zero, or all of the buffer.
LEMMA TextFacts ==
    Message \in [1 .. BUF_LEN -> Bytes] =>
        /\ TextLen \in 0 .. BUF_LEN
        /\ \A j \in 1 .. TextLen : Message[j] # 0
        /\ Terminated => Message[TextLen + 1] = 0
        /\ ~ Terminated => TextLen = BUF_LEN
  <1> SUFFICES ASSUME Message \in [1 .. BUF_LEN -> Bytes]
               PROVE  /\ TextLen \in 0 .. BUF_LEN
                      /\ \A j \in 1 .. TextLen : Message[j] # 0
                      /\ Terminated => Message[TextLen + 1] = 0
                      /\ ~ Terminated => TextLen = BUF_LEN
    OBVIOUS
  <1> DEFINE Stops(n) == n = BUF_LEN \/ Message[n + 1] = 0
             First(n) == Stops(n) /\ \A j \in 1 .. n : Message[j] # 0
             Places == {n \in 0 .. BUF_LEN : Stops(n)}
  <1>1. BUF_LEN \in Nat
    BY Numbers
  <1>2. Places \in SUBSET Nat /\ BUF_LEN \in Places
    BY <1>1
  <1>3. PICK z \in Places : \A y \in Places : z <= y
    BY <1>2, LeastNat
  <1>4. z \in 0 .. BUF_LEN /\ First(z)
    <2>1. z \in 0 .. BUF_LEN /\ Stops(z)
      BY <1>3
    <2>2. ASSUME NEW j \in 1 .. z, Message[j] = 0 PROVE FALSE
      <3>1. j - 1 \in 0 .. BUF_LEN /\ Message[(j - 1) + 1] = 0 /\ j - 1 < z
        BY <1>1, <2>1, <2>2
      <3>2. j - 1 \in Places
        BY <3>1
      <3> QED
        BY <1>1, <1>3, <2>1, <3>1, <3>2
    <2> QED
      BY <2>1, <2>2
  <1>5. TextLen \in 0 .. BUF_LEN /\ First(TextLen)
    BY <1>4 DEF TextLen
  <1> QED
    BY <1>1, <1>5 DEF Terminated

LEMMA InitInv == Init => IInv
  <1> SUFFICES ASSUME Init PROVE IInv
    OBVIOUS
  <1>1. BUF_LEN \in Nat /\ MaxBehind \in Nat /\ 0 \in Bytes
    BY Numbers
  <1>2. Closed \in ProcType
    <2>1. <<>> \in Seq(AnyByte)
      BY EmptySeq
    <2>2. 0 \in 0 .. BUF_LEN + MaxBehind + 1
      BY <1>1
    <2> QED
      BY <2>1, <2>2 DEF Closed, ProcType
  <1>3. TypeOK
    <2>1. proc \in [Proc -> ProcType]
      BY <1>2 DEF Init
    <2>2. raced \in BOOLEAN
      BY Zenon DEF Init
    <2>3. Device_Open \in Int /\ refs \in Nat
      BY DEF Init
    <2>4. Message \in [1 .. BUF_LEN -> Bytes] /\ Message_Ptr \in 0 .. BUF_LEN + MaxBehind
      BY <1>1 DEF Init
    <2> QED
      BY <2>1, <2>2, <2>3, <2>4 DEF TypeOK, ProcType, AnyByte
  <1>4. TextLen \in 0 .. BUF_LEN
    BY <1>3, TextFacts DEF TypeOK
  <1>5. Users = {}
    BY DEF Init, Users, Holds, Using, Closed
  <1>6. UseCount
    BY <1>5, FS_EmptySet DEF Init, UseCount
  <1>7. OneUser
    BY DEF Init, OneUser, Closed, Holds, Using
  <1>8. Bounded
    BY <1>1, <1>4 DEF Init, Bounded, Closed
  <1>9. Fresh /\ ReadsExact
    BY DEF Init, Fresh, ReadsExact, Closed, Using
  <1> QED
    BY <1>3, <1>6, <1>7, <1>8, <1>9 DEF IInv

\* What a process that does not step has seen stays the message.
LEMMA SameView ==
    ASSUME NEW p \in Proc, proc'[p] = proc[p], Message' = Message, Message_Ptr' = Message_Ptr
    PROVE  (Sees(p)' <=> Sees(p)) /\ (Asks(p)' <=> Asks(p))
  BY DEF Sees, Asks, ByteAt, TextLen, Terminated

\* The first steps of an open(), which is a use of the module from its last one on.
LEMMA OpenInv ==
    ASSUME IInv, NEW p \in Proc, OpenTest(p) \/ OpenLoad(p) \/ OpenStore(p)
    PROVE  IInv'
  <1>1. /\ Message' = Message /\ Message_Ptr' = Message_Ptr /\ refs' = refs /\ TextLen' = TextLen
    BY DEF OpenTest, OpenLoad, OpenStore, TextLen
  <1>2. /\ \A q \in Proc : q # p => proc'[q] = proc[q]
        /\ proc[p].pc \in {"closed", "open_load", "open_store"}
        /\ proc'[p].pc \in Opening
        /\ proc'[p].got = proc[p].got /\ proc'[p].eof = proc[p].eof
        /\ proc'[p].nth = proc[p].nth /\ proc'[p].i = proc[p].i
        /\ raced => raced'
    BY SMTT(60) DEF IInv, TypeOK, OpenTest, OpenLoad, OpenStore, Goto, Opening
  <1>3. TypeOK'
    <2>1. proc \in [Proc -> ProcType] /\ Device_Open \in Int
      BY DEF IInv, TypeOK, ProcType, AnyByte
    <2>2. proc' \in [Proc -> ProcType] /\ Device_Open' \in Int
      <3>1. CASE OpenTest(p)
        <4>1. proc' = [proc EXCEPT ![p].pc = "open_load"] /\ Device_Open' = Device_Open
          BY <3>1 DEF OpenTest, Goto
        <4> QED
          BY <2>1, <4>1 DEF ProcType, Opening
      <3>2. CASE OpenLoad(p)
        <4>1. /\ proc' = [proc EXCEPT ![p].reg = Device_Open, ![p].pc = "open_store"]
              /\ Device_Open' = Device_Open
          BY <3>2 DEF OpenLoad
        <4> QED
          BY <2>1, <4>1 DEF ProcType, Opening
      <3>3. CASE OpenStore(p)
        <4>1. proc' = [proc EXCEPT ![p].pc = "open_reset"] /\ Device_Open' = proc[p].reg + 1
          BY <3>3 DEF OpenStore, Goto
        <4>2. proc[p].reg \in Int
          BY <2>1 DEF ProcType
        <4>3. proc' \in [Proc -> ProcType]
          BY <2>1, <4>1 DEF ProcType, Opening
        <4> QED
          BY <4>1, <4>2, <4>3
      <3> QED
        BY <3>1, <3>2, <3>3
    <2>3. raced' \in BOOLEAN
      <3>1. raced \in BOOLEAN
        BY Zenon DEF IInv, TypeOK
      <3>2. CASE OpenTest(p)
        <4>1. raced' = (raced \/ \E q \in Proc : proc[q].pc \in {"open_load", "open_store"})
          BY <3>2 DEF OpenTest
        <4> QED
          BY <4>1, Zenon
      <3>3. CASE OpenLoad(p) \/ OpenStore(p)
        <4>1. raced' = raced
          BY <3>3, Zenon DEF OpenLoad, OpenStore
        <4> QED
          BY <3>1, <4>1
      <3> QED
        BY <3>2, <3>3
    <2> QED
      BY <1>1, <2>2, <2>3 DEF IInv, TypeOK, ProcType, AnyByte
  <1>4. Users' = Users
    BY <1>2 DEF Users, Holds, Using, Opening
  <1>5. UseCount'
    BY <1>1, <1>4 DEF IInv, UseCount
  <1>6. Bounded'
    BY <1>1, <1>2 DEF IInv, Bounded, Terminated, Opening
  <1>7. Fresh'
    BY <1>2 DEF IInv, Fresh, Opening
  <1>8. ReadsExact'
    <2>1. ~ (proc'[p].pc \in Using)
      BY <1>2 DEF Opening, Using
    <2> QED
      BY <1>1, <1>2, <2>1, SameView DEF IInv, ReadsExact
  <1>9. OneUser'
    <2>1. CASE OpenTest(p)
      <3>1. \A q \in Proc : proc'[q].reg = proc[q].reg
        BY <2>1 DEF IInv, TypeOK, OpenTest, Goto
      <3>2. CASE raced'
        BY <3>2 DEF OneUser
      <3>3. CASE ~ raced'
        <4>1. ~ raced /\ \A q \in Proc : proc[q].pc \notin {"open_load", "open_store"}
          BY <2>1, <3>3 DEF OpenTest
        <4>2. Device_Open = 0 /\ Device_Open' = 0 /\ proc'[p].pc = "open_load"
          BY <2>1 DEF OpenTest, Goto, IInv, TypeOK
        <4>3. \A q \in Proc : proc[q].pc = "closed"
          BY <4>1, <4>2 DEF IInv, TypeOK, OneUser, Holds, Opening
        <4> QED
          BY <1>2, <4>2, <4>3 DEF OneUser, Holds, Using
      <3> QED
        BY <3>2, <3>3
    <2>2. CASE OpenLoad(p)
      <3>1. /\ proc[p].pc = "open_load" /\ Device_Open' = Device_Open
            /\ proc'[p].pc = "open_store" /\ proc'[p].reg = Device_Open /\ raced' = raced
        BY <2>2 DEF IInv, TypeOK, OpenLoad
      <3> QED
        BY <1>2, <3>1 DEF IInv, OneUser, Holds, Using
    <2>3. CASE OpenStore(p)
      <3>1. /\ proc[p].pc = "open_store" /\ Device_Open' = proc[p].reg + 1
            /\ proc'[p].pc = "open_reset" /\ raced' = raced
        BY <2>3 DEF IInv, TypeOK, OpenStore, Goto
      <3> QED
        BY <1>2, <3>1 DEF IInv, OneUser, Holds, Using
    <2> QED
      BY <2>1, <2>2, <2>3
  <1> QED
    BY <1>3, <1>5, <1>6, <1>7, <1>8, <1>9 DEF IInv

\* The last step of an open(): try_module_get(), and the reader starts afresh.
LEMMA OpenResetInv ==
    ASSUME IInv, NEW p \in Proc, OpenReset(p)
    PROVE  IInv'
  <1>1. /\ Message' = Message /\ Message_Ptr' = 0 /\ refs' = refs + 1 /\ TextLen' = TextLen
        /\ Device_Open' = Device_Open /\ raced' = raced
        /\ proc[p].pc = "open_reset" /\ proc' = [proc EXCEPT ![p].pc = "open"]
    BY DEF OpenReset, Goto, TextLen
  <1>2. /\ proc \in [Proc -> ProcType] /\ Message \in [1 .. BUF_LEN -> Bytes]
        /\ BUF_LEN \in Nat /\ MaxBehind \in Nat
    BY Numbers DEF IInv, TypeOK, ProcType, AnyByte
  <1>3. /\ \A q \in Proc : q # p => proc'[q] = proc[q]
        /\ proc'[p].pc = "open" /\ proc'[p].reg = proc[p].reg
        /\ proc'[p].got = <<>> /\ proc'[p].eof = FALSE /\ proc'[p].nth = {} /\ proc'[p].i = 0
    BY <1>1, <1>2 DEF IInv, Fresh, Opening, ProcType
  <1>4. TextLen \in 0 .. BUF_LEN
    BY <1>2, TextFacts
  <1>5. TypeOK'
    <2>1. proc' \in [Proc -> ProcType]
      BY <1>1, <1>2 DEF ProcType, Using
    <2>2. refs' \in Nat /\ Message_Ptr' \in 0 .. BUF_LEN + MaxBehind
      BY <1>1, <1>2 DEF IInv, TypeOK
    <2> QED
      BY <1>1, <1>2, <2>1, <2>2 DEF IInv, TypeOK, ProcType, AnyByte
  <1>6. UseCount'
    <2>1. Users' = Users \cup {p} /\ p \notin Users
      BY <1>1, <1>3 DEF Users, Holds, Using
    <2> QED
      BY <1>1, <2>1, FS_AddElement DEF IInv, UseCount
  <1>7. OneUser'
    BY <1>1, <1>3 DEF IInv, OneUser, Holds, Using
  <1>8. Bounded'
    BY <1>1, <1>2, <1>3, <1>4 DEF IInv, Bounded, Terminated
  <1>9. Fresh'
    BY <1>3 DEF IInv, Fresh, Opening
  <1>10. ReadsExact'
    <2>1. CASE raced
      BY <1>1, <2>1 DEF ReadsExact
    <2>2. CASE ~ raced
      <3>1. \A q \in Proc : proc'[q].pc \in Using => q = p
        BY <1>1, <1>3, <2>2 DEF IInv, OneUser, Using
      <3>2. Sees(p)'
        <4>1. proc'[p].got = [k \in 1 .. Message_Ptr' |-> ByteAt(k)']
          BY <1>1, <1>3
        <4> QED
          BY <1>1, <1>3, <1>4, <4>1 DEF Sees, Terminated
      <3>3. Asks(p)'
        <4>1. {a[1] : a \in proc'[p].nth} = 0 .. proc'[p].i - 1
          BY <1>3
        <4> QED
          BY <1>1, <1>3, <1>4, <4>1 DEF Asks, Terminated
      <3> QED
        BY <3>1, <3>2, <3>3 DEF ReadsExact
    <2> QED
      BY <2>1, <2>2
  <1> QED
    BY <1>5, <1>6, <1>7, <1>8, <1>9, <1>10 DEF IInv

\* The steps of device_release().
LEMMA CloseInv ==
    ASSUME IInv, NEW p \in Proc, CloseLoad(p) \/ CloseStore(p)
    PROVE  IInv'
  <1>1. Message' = Message /\ Message_Ptr' = Message_Ptr /\ raced' = raced /\ TextLen' = TextLen
    <2>1. Message' = Message /\ Message_Ptr' = Message_Ptr /\ raced' = raced
      BY DEF CloseLoad, CloseStore
    <2> QED
      BY <2>1 DEF TextLen
  <1>2. proc \in [Proc -> ProcType] /\ Device_Open \in Int /\ refs \in Nat
    BY DEF IInv, TypeOK, ProcType, AnyByte
  <1>3. CASE CloseLoad(p)
    <2>1. /\ proc' = [proc EXCEPT ![p].reg = Device_Open, ![p].pc = "close"]
          /\ refs' = refs /\ Device_Open' = Device_Open /\ proc[p].pc \in Using
      BY <1>3 DEF CloseLoad, Using
    <2>2. /\ \A q \in Proc : q # p => proc'[q] = proc[q]
          /\ proc'[p].pc = "close" /\ proc'[p].reg = Device_Open
      BY <1>2, <2>1 DEF ProcType
    <2>3. TypeOK'
      <3>1. proc' \in [Proc -> ProcType]
        BY <1>2, <2>1 DEF ProcType
      <3> QED
        BY <1>1, <2>1, <3>1 DEF IInv, TypeOK, ProcType, AnyByte
    <2>4. UseCount'
      <3>1. Users' = Users
        BY <2>1, <2>2 DEF Users, Holds
      <3> QED
        BY <2>1, <3>1 DEF IInv, UseCount
    <2>5. OneUser'
      BY <1>1, <2>1, <2>2, ZenonT(60) DEF IInv, OneUser, Holds, Using
    <2>6. Bounded' /\ Fresh'
      BY <1>1, <2>1, <2>2, ZenonT(60) DEF IInv, Bounded, Fresh, Opening, Terminated
    <2>7. ReadsExact'
      <3>1. ~ (proc'[p].pc \in Using)
        BY <2>2 DEF Using
      <3> QED
        BY <1>1, <2>2, <3>1, SameView DEF IInv, ReadsExact
    <2> QED
      BY <2>3, <2>4, <2>5, <2>6, <2>7 DEF IInv
  <1>4. CASE CloseStore(p)
    <2>1. /\ proc' = [proc EXCEPT ![p] = Closed] /\ proc[p].pc = "close"
          /\ refs' = refs - 1 /\ Device_Open' = proc[p].reg - 1
      BY <1>4 DEF CloseStore
    <2>2. /\ \A q \in Proc : q # p => proc'[q] = proc[q]
          /\ proc'[p].pc = "closed" /\ proc'[p].got = <<>>
          /\ proc'[p].eof = FALSE /\ proc'[p].nth = {} /\ proc'[p].i = 0
      BY <1>2, <2>1 DEF Closed
    <2>3. UseCount' /\ refs' \in Nat
      <3>1. Users' = Users \ {p} /\ p \in Users
        BY <2>1, <2>2 DEF Users, Holds, Using
      <3>2. IsFiniteSet(Users') /\ Cardinality(Users') = Cardinality(Users) - 1
        BY <3>1, FS_RemoveElement DEF IInv, UseCount
      <3>3. Cardinality(Users') \in Nat
        BY <3>2, FS_CardinalityType
      <3> QED
        BY <2>1, <3>2, <3>3 DEF IInv, UseCount
    <2>4. TypeOK'
      <3>1. Closed \in ProcType
        <4>1. <<>> \in Seq(AnyByte) /\ 0 \in 0 .. BUF_LEN + MaxBehind + 1
          BY EmptySeq, Numbers
        <4> QED
          BY <4>1 DEF Closed, ProcType
      <3>2. proc' \in [Proc -> ProcType]
        BY <1>2, <2>1, <3>1
      <3>3. proc[p].reg \in Int
        BY <1>2 DEF ProcType
      <3>4. Device_Open' \in Int
        BY <2>1, <3>3
      <3> QED
        BY <1>1, <2>3, <3>2, <3>4 DEF IInv, TypeOK, ProcType, AnyByte
    <2>5. OneUser'
      <3>1. CASE raced
        BY <1>1, <3>1 DEF OneUser
      <3>2. CASE ~ raced
        <4>1. \A q \in Proc : proc'[q].pc = "closed"
          BY <2>1, <2>2, <3>2 DEF IInv, OneUser
        <4>2. proc[p].reg = 1
          BY <2>1, <3>2 DEF IInv, OneUser
        <4> QED
          BY <1>1, <2>1, <4>1, <4>2 DEF OneUser, Holds, Using
      <3> QED
        BY <3>1, <3>2
    <2>6. Bounded'
      BY <1>1, <2>2 DEF IInv, Bounded, Terminated
    <2>7. Fresh'
      BY <2>2 DEF IInv, Fresh
    <2>8. ReadsExact'
      <3>1. ~ (proc'[p].pc \in Using)
        BY <2>2 DEF Using
      <3> QED
        BY <1>1, <2>2, <3>1, SameView DEF IInv, ReadsExact
    <2> QED
      BY <2>3, <2>4, <2>5, <2>6, <2>7, <2>8 DEF IInv
  <1> QED
    BY <1>3, <1>4

\* A step of a process that has the device open, and keeps it: the parts of the
\* invariant that are about who has it.
LEMMA UserStep ==
    ASSUME IInv, NEW p \in Proc, proc[p].pc \in Using, proc'[p].pc \in Using,
           proc' \in [Proc -> ProcType],
           \A q \in Proc : q # p => proc'[q] = proc[q],
           Device_Open' = Device_Open, refs' = refs, raced' = raced
    PROVE  UseCount' /\ OneUser' /\ Fresh'
  <1>1. Users' = Users
    BY DEF Users, Holds
  <1>2. UseCount'
    BY <1>1 DEF IInv, UseCount
  <1>3. OneUser'
    BY DEF IInv, OneUser, Holds, Using
  <1>4. Fresh'
    BY DEF IInv, Fresh, Using, Opening
  <1> QED
    BY <1>2, <1>3, <1>4

\* device_read() hands out the next bytes.
LEMMA ReadInv ==
    ASSUME IInv, NEW p \in Proc, NEW length \in Nat, NEW pc \in Using \ {"asked"},
           proc[p].pc \in Using, pc = proc[p].pc \/ (proc[p].pc = "asked" /\ pc = "got"),
           device_read(p, length, pc)
    PROVE  IInv'
  <1> DEFINE Left(end) == IF end > Message_Ptr THEN end - Message_Ptr ELSE 0
             Count(end) == IF Left(end) < length THEN Left(end) ELSE length
  <1>1. PICK end \in Ends :
          /\ Message_Ptr' = Message_Ptr + Count(end)
          /\ proc' = [proc EXCEPT
                ![p].got = IF raced THEN @
                           ELSE @ \o [k \in 1 .. Count(end) |-> ByteAt(Message_Ptr + k)],
                ![p].eof = Left(end) = 0, ![p].pc = pc]
          /\ Device_Open' = Device_Open /\ Message' = Message /\ refs' = refs
          /\ raced' = raced
    BY DEF device_read
  <1> DEFINE left == Left(end)
             n == Count(end)
             bytes == [k \in 1 .. n |-> ByteAt(Message_Ptr + k)]
  <1>2. TextLen' = TextLen /\ (Terminated' <=> Terminated) /\ \A k : ByteAt(k)' = ByteAt(k)
    BY <1>1 DEF TextLen, Terminated, ByteAt
  <1>3. /\ proc \in [Proc -> ProcType] /\ Message \in [1 .. BUF_LEN -> Bytes]
        /\ BUF_LEN \in Nat /\ MaxBehind \in Nat /\ Message_Ptr \in 0 .. BUF_LEN + MaxBehind
        /\ Message_Ptr <= TextLen \/ ~ Terminated
    BY Numbers DEF IInv, TypeOK, ProcType, Bounded, AnyByte
  <1>4. TextLen \in 0 .. BUF_LEN /\ (~ Terminated => TextLen = BUF_LEN)
    BY <1>3, TextFacts
  <1>5. /\ end \in Nat /\ TextLen <= end /\ end <= BUF_LEN + MaxBehind
        /\ Terminated => end = TextLen
    BY <1>3, <1>4 DEF Ends
  <1>6. /\ left \in Nat /\ n \in Nat /\ n <= left
        /\ Message_Ptr' \in 0 .. BUF_LEN + MaxBehind
        /\ Message_Ptr' <= TextLen \/ ~ Terminated
        /\ left = 0 => Message_Ptr' >= TextLen
    <2>1. Message_Ptr' = Message_Ptr + n
      BY <1>1
    <2>2. /\ left = IF end > Message_Ptr THEN end - Message_Ptr ELSE 0
          /\ n = IF left < length THEN left ELSE length
      OBVIOUS
    <2> HIDE DEF n, left
    <2> QED
      BY <1>3, <1>4, <1>5, <2>1, <2>2
  <1> HIDE DEF n, left, Left, Count
  <1>7. bytes \in Seq(AnyByte) /\ Len(bytes) = n /\ \A k \in 1 .. n : bytes[k] = ByteAt(Message_Ptr + k)
    <2>1. \A k \in 1 .. n : ByteAt(Message_Ptr + k) \in AnyByte
      BY <1>3, <1>6 DEF ByteAt, AnyByte
    <2>2. bytes \in [1 .. n -> AnyByte]
      BY <2>1
    <2> QED
      BY <1>6, <2>2
  <1>8. /\ Message_Ptr' = Message_Ptr + n
        /\ proc' = [proc EXCEPT ![p].got = IF raced THEN @ ELSE @ \o bytes,
                                ![p].eof = left = 0, ![p].pc = pc]
    BY <1>1 DEF n, left
  <1> HIDE DEF bytes
  <1>9. proc[p].got \in Seq(AnyByte) /\ proc[p].got \o bytes \in Seq(AnyByte)
    BY <1>3, <1>7, ConcatProperties DEF ProcType
  <1>10. proc' \in [Proc -> ProcType]
    <2>1. proc[p] \in ProcType
      BY <1>3
    <2>2. (left = 0) \in BOOLEAN
      OBVIOUS
    <2> DEFINE new == [proc[p] EXCEPT !.got = IF raced THEN @ ELSE @ \o bytes,
                                      !.eof = left = 0, !.pc = pc]
    <2>3. new \in ProcType
      BY <1>9, <2>1, <2>2 DEF ProcType
    <2>4. proc' = [proc EXCEPT ![p] = new]
      BY <1>3, <1>8
    <2> QED
      BY <1>3, <2>3, <2>4
  <1>11. /\ \A q \in Proc : q # p => proc'[q] = proc[q]
         /\ proc'[p].pc = pc /\ proc'[p].nth = proc[p].nth /\ proc'[p].i = proc[p].i
         /\ proc'[p].eof <=> left = 0
         /\ ~ raced => proc'[p].got = proc[p].got \o bytes
    BY <1>3, <1>8 DEF ProcType
  <1>12. TypeOK'
    BY <1>1, <1>6, <1>10 DEF IInv, TypeOK, ProcType, AnyByte
  <1>13. UseCount' /\ OneUser' /\ Fresh'
    BY <1>1, <1>10, <1>11, UserStep
  <1>14. Bounded'
    BY <1>2, <1>6, <1>11 DEF IInv, Bounded
  <1>15. ReadsExact'
    <2>1. CASE raced
      BY <1>1, <2>1 DEF ReadsExact
    <2>2. CASE ~ raced
      <3>1. \A q \in Proc : proc'[q].pc \in Using => q = p
        BY <1>11, <2>2 DEF IInv, OneUser, Using
      <3>2. Sees(p) /\ Asks(p)
        BY <2>2 DEF IInv, ReadsExact
      <3>3. proc'[p].got = [k \in 1 .. Message_Ptr' |-> ByteAt(k)']
        <4> DEFINE all == [k \in 1 .. Message_Ptr' |-> ByteAt(k)]
        <4>1. /\ proc[p].got = [k \in 1 .. Message_Ptr |-> ByteAt(k)]
              /\ Message_Ptr \in Nat /\ Message_Ptr' = Message_Ptr + n
          <5>1. proc[p].got = [k \in 1 .. Message_Ptr |-> ByteAt(k)]
            BY <3>2, Zenon DEF Sees
          <5>2. Message_Ptr \in Nat
            BY <1>3
          <5> QED
            BY <1>8, <5>1, <5>2, Zenon
        <4>2. Len(proc[p].got) = Message_Ptr
          BY <4>1
        <4>3. /\ Len(proc[p].got \o bytes) = Message_Ptr + n
              /\ \A k \in 1 .. Message_Ptr + n : (proc[p].got \o bytes)[k] =
                    IF k <= Message_Ptr THEN proc[p].got[k] ELSE bytes[k - Message_Ptr]
          <5>1. /\ Len(proc[p].got \o bytes) = Len(proc[p].got) + Len(bytes)
                /\ \A k \in 1 .. Len(proc[p].got) + Len(bytes) : (proc[p].got \o bytes)[k] =
                      IF k <= Len(proc[p].got) THEN proc[p].got[k]
                      ELSE bytes[k - Len(proc[p].got)]
            BY <1>7, <1>9, ConcatProperties
          <5> QED
            BY <1>7, <4>2, <5>1
        <4>4. \A k \in 1 .. Message_Ptr + n : (proc[p].got \o bytes)[k] = ByteAt(k)
          BY <1>6, <1>7, <4>1, <4>3
        <4>5. DOMAIN (proc[p].got \o bytes) = 1 .. Message_Ptr + n
          BY <1>6, <1>9, <4>1, <4>3
        <4>6. proc[p].got \o bytes = all
          BY <1>9, <4>1, <4>4, <4>5
        <4> QED
          BY <1>2, <1>11, <2>2, <4>6
      <3>4. Sees(p)'
        <4>1. proc'[p].eof => Message_Ptr' >= TextLen'
          BY <1>2, <1>6, <1>11
        <4>2. Message_Ptr' > TextLen' => ~ Terminated'
          BY <1>2, <1>3, <1>4, <1>6
        <4>3. \A a \in proc'[p].nth : a[1] < BUF_LEN => a[2] = Message'[a[1] + 1]
          BY <1>1, <1>11, <3>2 DEF Sees
        <4>4. proc'[p].pc \in {"asked", "got"} => proc[p].pc \in {"asked", "got"}
          BY <1>11
        <4>5. proc'[p].pc \in {"asked", "got"} =>
                /\ {a[1] : a \in proc'[p].nth} = 0 .. proc'[p].i - 1
                /\ proc'[p].i = TextLen' + 1 \/ (proc'[p].i > TextLen' /\ ~ Terminated')
          BY <1>2, <1>11, <3>2, <4>4, Zenon DEF Sees
        <4> QED
          BY <3>3, <4>1, <4>2, <4>3, <4>5, Zenon DEF Sees
      <3>5. Asks(p)'
        BY <1>1, <1>2, <1>11, <3>2 DEF Asks
      <3> QED
        BY <3>1, <3>4, <3>5 DEF ReadsExact
    <2> QED
      BY <2>1, <2>2
  <1> QED
    BY <1>12, <1>13, <1>14, <1>15 DEF IInv

\* device_write() of any bytes, more than fit included.
LEMMA WriteInv ==
    ASSUME IInv, NEW p \in Proc, NEW bytes \in Seq(Bytes), NEW pc \in {"open", "set"},
           proc[p].pc \in Using, pc = "open" => p \notin Client /\ proc[p].pc = "open",
           device_write(p, bytes, pc)
    PROVE  IInv'
  <1>1. /\ Message' = [k \in 1 .. BUF_LEN |->
                          IF k <= Len(bytes) THEN bytes[k] ELSE Message[k]]
        /\ Message_Ptr' = 0
        /\ proc' = [proc EXCEPT ![p].got = <<>>, ![p].eof = FALSE,
                                ![p].nth = {}, ![p].pc = pc]
        /\ Device_Open' = Device_Open /\ refs' = refs /\ raced' = raced
    BY DEF device_write
  <1>2. /\ proc \in [Proc -> ProcType] /\ Message \in [1 .. BUF_LEN -> Bytes]
        /\ BUF_LEN \in Nat /\ MaxBehind \in Nat
    BY Numbers DEF IInv, TypeOK, ProcType, AnyByte
  <1>3. (Message \in [1 .. BUF_LEN -> Bytes])'
    <2>1. \A k \in 1 .. BUF_LEN :
            (IF k <= Len(bytes) THEN bytes[k] ELSE Message[k]) \in Bytes
      BY <1>2
    <2> QED
      BY <1>1, <1>2, <2>1
  <1>4. (TextLen \in 0 .. BUF_LEN)'
    BY <1>3, TextFacts, PTL
  <1>5. /\ proc' \in [Proc -> ProcType]
        /\ \A q \in Proc : q # p => proc'[q] = proc[q]
        /\ proc'[p].pc = pc /\ proc'[p].nth = {} /\ ~ proc'[p].eof
        /\ proc'[p].got = <<>> /\ proc'[p].i = proc[p].i
    <2>1. pc \in Using /\ <<>> \in Seq(AnyByte)
      BY EmptySeq DEF Using
    <2> DEFINE new == [proc[p] EXCEPT !.got = <<>>, !.eof = FALSE, !.nth = {}, !.pc = pc]
    <2>2. /\ new \in ProcType /\ new.pc = pc /\ new.nth = {} /\ ~ new.eof
          /\ new.got = <<>> /\ new.i = proc[p].i
      BY <1>2, <2>1 DEF ProcType
    <2>3. proc' = [proc EXCEPT ![p] = new]
      BY <1>1, <1>2
    <2> HIDE DEF new
    <2> QED
      BY <1>2, <2>2, <2>3
  <1>6. TypeOK'
    <2>1. Message_Ptr' \in 0 .. BUF_LEN + MaxBehind
      BY <1>1, <1>2
    <2> QED
      BY <1>1, <1>3, <1>5, <2>1 DEF IInv, TypeOK, ProcType, AnyByte
  <1>7. UseCount' /\ OneUser' /\ Fresh'
    BY <1>1, <1>5, UserStep DEF Using
  <1>8. Bounded'
    BY <1>1, <1>2, <1>4, <1>5 DEF IInv, Bounded
  <1>9. ReadsExact'
    <2>1. CASE raced
      BY <1>1, <2>1 DEF ReadsExact
    <2>2. CASE ~ raced
      <3>1. \A q \in Proc : proc'[q].pc \in Using => q = p
        BY <1>5, <2>2 DEF IInv, OneUser, Using
      <3>2. proc'[p].got = [k \in 1 .. Message_Ptr' |-> ByteAt(k)']
        BY <1>1, <1>5
      <3>3. Sees(p)'
        BY <1>1, <1>2, <1>4, <1>5, <3>2 DEF Sees
      <3>4. Asks(p)'
        BY <1>5 DEF Asks
      <3> QED
        BY <3>1, <3>3, <3>4 DEF ReadsExact
    <2> QED
      BY <2>1, <2>2
  <1> QED
    BY <1>6, <1>7, <1>8, <1>9 DEF IInv

\* What IOCTL_GET_NTH_BYTE answers, and the account of it.
LEMMA NthFacts ==
    ASSUME IInv, NEW p \in Proc, NEW n \in Nat, NEW b \in NthBytes(n)
    PROVE  /\ b \in AnyByte /\ (n < BUF_LEN => b = Message[n + 1])
           /\ Noted(proc[p].nth, n, b) \in SUBSET (Nat \X AnyByte)
           /\ ~ raced => Noted(proc[p].nth, n, b) = proc[p].nth \cup {<<n, b>>}
  <1>1. proc[p].nth \in SUBSET (Nat \X AnyByte) /\ Message \in [1 .. BUF_LEN -> Bytes]
    BY DEF IInv, TypeOK, AnyByte
  <1>2. b \in AnyByte /\ (n < BUF_LEN => b = Message[n + 1])
    BY <1>1, Numbers DEF NthBytes, AnyByte
  <1>3. <<n, b>> \in Nat \X AnyByte
    BY <1>2
  <1> QED
    BY <1>1, <1>2, <1>3 DEF Noted

\* IOCTL_GET_NTH_BYTE for any number.
LEMMA GetNthByteInv ==
    ASSUME IInv, NEW p \in Proc, NEW n \in Nat, GetNthByte(p, n)
    PROVE  IInv'
  <1>1. PICK b \in NthBytes(n) : proc' = [proc EXCEPT ![p].nth = Noted(@, n, b)]
    BY DEF GetNthByte
  <1> DEFINE nth == Noted(proc[p].nth, n, b)
  <1>2. /\ proc[p].pc = "open" /\ p \notin Client
        /\ Device_Open' = Device_Open /\ Message' = Message /\ refs' = refs
        /\ raced' = raced /\ Message_Ptr' = Message_Ptr
    BY DEF GetNthByte
  <1>3. TextLen' = TextLen /\ (Terminated' <=> Terminated) /\ \A k : ByteAt(k)' = ByteAt(k)
    BY <1>2 DEF TextLen, Terminated, ByteAt
  <1>4. /\ nth \in SUBSET (Nat \X AnyByte) /\ (n < BUF_LEN => b = Message[n + 1])
        /\ ~ raced => nth = proc[p].nth \cup {<<n, b>>}
    BY <1>1, NthFacts
  <1>5. proc' = [proc EXCEPT ![p].nth = nth] /\ proc \in [Proc -> ProcType]
    BY <1>1 DEF IInv, TypeOK, ProcType, AnyByte
  <1> HIDE DEF nth
  <1>6. /\ proc' \in [Proc -> ProcType]
        /\ \A q \in Proc : q # p => proc'[q] = proc[q]
        /\ proc'[p].pc = proc[p].pc /\ proc'[p].got = proc[p].got
        /\ proc'[p].eof = proc[p].eof /\ proc'[p].nth = nth /\ proc'[p].i = proc[p].i
    BY <1>4, <1>5 DEF ProcType
  <1>7. TypeOK'
    BY <1>2, <1>6 DEF IInv, TypeOK, ProcType, AnyByte
  <1>8. UseCount' /\ OneUser' /\ Fresh'
    BY <1>2, <1>6, UserStep DEF Using
  <1>9. Bounded'
    BY <1>2, <1>3, <1>6 DEF IInv, Bounded
  <1>10. ReadsExact'
    <2>1. CASE raced
      BY <1>2, <2>1 DEF ReadsExact
    <2>2. CASE ~ raced
      <3>1. \A q \in Proc : proc'[q].pc \in Using => q = p
        BY <1>2, <1>6, <2>2 DEF IInv, OneUser, Using
      <3>2. Sees(p)
        BY <1>2, <2>2 DEF IInv, ReadsExact, Using
      <3>3. \A a \in nth : a[1] < BUF_LEN => a[2] = Message[a[1] + 1]
        BY <1>4, <2>2, <3>2 DEF Sees
      <3>4. Sees(p)'
        BY <1>2, <1>3, <1>6, <3>2, <3>3 DEF Sees
      <3>5. Asks(p)'
        BY <1>2 DEF Asks
      <3> QED
        BY <3>1, <3>4, <3>5 DEF ReadsExact
    <2> QED
      BY <2>1, <2>2
  <1> QED
    BY <1>7, <1>8, <1>9, <1>10 DEF IInv

\* A round of ioctl_get_nth_byte(): inside of the buffer it stops at the zero and
\* nowhere before it.
LEMMA AskNextInv ==
    ASSUME IInv, NEW p \in Proc, AskNext(p)
    PROVE  IInv'
  <1> DEFINE n == proc[p].i
  <1>1. PICK b \in NthBytes(n) : \E pc \in AfterByte(b, n) :
          proc' = [proc EXCEPT ![p].nth = Noted(@, n, b), ![p].i = n + 1, ![p].pc = pc]
    BY DEF AskNext
  <1>2. PICK pc \in AfterByte(b, n) :
          proc' = [proc EXCEPT ![p].nth = Noted(@, n, b), ![p].i = n + 1, ![p].pc = pc]
    BY <1>1
  <1> DEFINE nth == Noted(proc[p].nth, n, b)
  <1>3. /\ proc[p].pc = "open"
        /\ Device_Open' = Device_Open /\ Message' = Message /\ refs' = refs
        /\ raced' = raced /\ Message_Ptr' = Message_Ptr
    BY DEF AskNext
  <1>4. TextLen' = TextLen /\ (Terminated' <=> Terminated) /\ \A k : ByteAt(k)' = ByteAt(k)
    BY <1>3 DEF TextLen, Terminated, ByteAt
  <1>5. /\ proc \in [Proc -> ProcType] /\ Message \in [1 .. BUF_LEN -> Bytes]
        /\ BUF_LEN \in Nat /\ MaxBehind \in Nat
        /\ n \in Nat /\ n <= BUF_LEN + MaxBehind
    BY <1>3, Numbers DEF IInv, TypeOK, ProcType, AnyByte, Bounded
  <1>6. /\ TextLen \in 0 .. BUF_LEN /\ (~ Terminated => TextLen = BUF_LEN)
        /\ \A j \in 1 .. TextLen : Message[j] # 0
        /\ Terminated => Message[TextLen + 1] = 0
    BY <1>5, TextFacts
  <1>7. /\ nth \in SUBSET (Nat \X AnyByte) /\ (n < BUF_LEN => b = Message[n + 1])
        /\ ~ raced => nth = proc[p].nth \cup {<<n, b>>}
    BY <1>1, <1>5, NthFacts
  <1>8. /\ pc \in {"open", "asked", "failed"} /\ (b = 0 <=> pc = "asked")
        /\ pc = "open" => n + 1 <= BUF_LEN + MaxBehind
    <2>1. b = 0 => pc = "asked"
      BY <1>2, Numbers DEF AfterByte
    <2>2. b = Foreign => pc = "failed" \/ (pc = "open" /\ n < BUF_LEN + MaxBehind)
      BY <1>2, Numbers DEF AfterByte
    <2>3. b # 0 /\ b # Foreign => n < BUF_LEN /\ pc \in {"failed", "open"}
      BY <1>1, <1>2, <1>5 DEF AfterByte, NthBytes
    <2> QED
      BY <1>5, <2>1, <2>2, <2>3, Numbers
  <1>9. /\ proc' = [proc EXCEPT ![p].nth = nth, ![p].i = n + 1, ![p].pc = pc]
        /\ n + 1 \in 0 .. BUF_LEN + MaxBehind + 1 /\ pc \in Using
    BY <1>2, <1>5, <1>8 DEF Using
  <1> HIDE DEF nth, n
  <1>10. /\ proc' \in [Proc -> ProcType]
         /\ \A q \in Proc : q # p => proc'[q] = proc[q]
         /\ proc'[p].pc = pc /\ proc'[p].got = proc[p].got
         /\ proc'[p].eof = proc[p].eof /\ proc'[p].nth = nth /\ proc'[p].i = n + 1
    BY <1>5, <1>7, <1>9 DEF ProcType
  <1>11. TypeOK'
    BY <1>3, <1>10 DEF IInv, TypeOK, ProcType, AnyByte
  <1>12. UseCount' /\ OneUser' /\ Fresh'
    BY <1>3, <1>9, <1>10, UserStep DEF Using
  <1>13. Bounded'
    <2>1. \A q \in Proc : proc'[q].pc = "open" => proc'[q].i <= BUF_LEN + MaxBehind
      <3>1. proc'[p].pc = "open" => proc'[p].i <= BUF_LEN + MaxBehind
        BY <1>8, <1>10
      <3> QED
        BY <1>10, <3>1 DEF IInv, Bounded
    <2> QED
      BY <1>3, <1>4, <2>1 DEF IInv, Bounded
  <1>14. ReadsExact'
    <2>1. CASE raced
      BY <1>3, <2>1 DEF ReadsExact
    <2>2. CASE ~ raced
      <3>1. \A q \in Proc : proc'[q].pc \in Using => q = p
        BY <1>3, <1>10, <2>2 DEF IInv, OneUser, Using
      <3>2. Sees(p) /\ Asks(p) /\ p \in Client
        BY <1>3, <2>2 DEF IInv, ReadsExact, Using, AskNext
      <3>3. \A a \in nth : a[1] < BUF_LEN => a[2] = Message[a[1] + 1]
        BY <1>7, <2>2, <3>2 DEF Sees
      <3>4. {a[1] : a \in nth} = 0 .. (n + 1) - 1
        <4>1. {a[1] : a \in proc[p].nth} = 0 .. n - 1
          BY <1>3, <3>2 DEF Asks, n
        <4>2. nth = proc[p].nth \cup {<<n, b>>}
          BY <1>7, <2>2
        <4>3. {a[1] : a \in nth} = {a[1] : a \in proc[p].nth} \cup {n}
          <5>1. <<n, b>>[1] = n
            OBVIOUS
          <5>2. \A a \in nth : a \in proc[p].nth \/ a = <<n, b>>
            BY <4>2
          <5>3. \A a : a \in proc[p].nth \/ a = <<n, b>> => a \in nth
            BY <4>2
          <5> QED
            BY <5>1, <5>2, <5>3, Zenon
        <4>4. (0 .. n - 1) \cup {n} = 0 .. (n + 1) - 1
          BY <1>5
        <4> QED
          BY <4>1, <4>3, <4>4, Zenon
      <3>5. n <= TextLen \/ ~ Terminated
        BY <1>3, <3>2 DEF Asks, n
      <3>6. pc = "asked" => n + 1 = TextLen + 1 \/ (n + 1 > TextLen /\ ~ Terminated)
        BY <1>5, <1>6, <1>7, <1>8, <3>5
      <3>7. pc = "open" => n + 1 <= TextLen \/ ~ Terminated
        BY <1>5, <1>6, <1>7, <1>8, <3>5 DEF Terminated
      <3>8. Sees(p)'
        <4>1. /\ proc'[p].got = [k \in 1 .. Message_Ptr' |-> ByteAt(k)']
              /\ proc'[p].eof => Message_Ptr' >= TextLen'
              /\ Message_Ptr' > TextLen' => ~ Terminated'
          BY <1>3, <1>4, <1>10, <3>2, Zenon DEF Sees
        <4>2. \A a \in proc'[p].nth : a[1] < BUF_LEN => a[2] = Message'[a[1] + 1]
          BY <1>3, <1>10, <3>3
        <4>3. proc'[p].pc \in {"asked", "got"} => pc = "asked"
          BY <1>8, <1>10
        <4>4. proc'[p].pc \in {"asked", "got"} =>
                /\ {a[1] : a \in proc'[p].nth} = 0 .. proc'[p].i - 1
                /\ proc'[p].i = TextLen' + 1 \/ (proc'[p].i > TextLen' /\ ~ Terminated')
          BY <1>4, <1>10, <3>4, <3>6, <4>3, Zenon
        <4> QED
          BY <4>1, <4>2, <4>4, Zenon DEF Sees
      <3>9. Asks(p)'
        BY <1>4, <1>10, <3>4, <3>7, Zenon DEF Asks
      <3> QED
        BY <3>1, <3>8, <3>9 DEF ReadsExact
    <2> QED
      BY <2>1, <2>2
  <1> QED
    BY <1>11, <1>12, <1>13, <1>14 DEF IInv

-----------------------------------------------------------------------------
LEMMA StepInv == IInv /\ [Next]_vars => IInv'
  <1> SUFFICES ASSUME IInv, [Next]_vars PROVE IInv'
    OBVIOUS
  <1>1. CASE UNCHANGED vars
    <2>1. /\ Device_Open' = Device_Open /\ Message' = Message /\ Message_Ptr' = Message_Ptr
          /\ refs' = refs /\ proc' = proc /\ raced' = raced
      BY <1>1 DEF vars
    <2>2. Users' = Users /\ (\A p \in Proc : Holds(p)' <=> Holds(p)) /\ TextLen' = TextLen
      BY <2>1 DEF Users, Holds, TextLen
    <2>3. TypeOK' /\ UseCount' /\ OneUser'
      BY <2>1, <2>2 DEF IInv, TypeOK, UseCount, OneUser
    <2>4. Bounded' /\ Fresh'
      BY <2>1, <2>2 DEF IInv, Bounded, Fresh, Terminated
    <2>5. ReadsExact'
      BY <2>1, SameView DEF IInv, ReadsExact
    <2> QED
      BY <2>3, <2>4, <2>5 DEF IInv
  <1>2. ASSUME NEW p \in Proc, NEW length \in Sizes, Read(p, length) PROVE IInv'
    <2>1. length \in Nat /\ "open" \in Using \ {"asked"}
      BY CharDevAssumption DEF Using
    <2> QED
      BY <1>2, <2>1, ReadInv DEF Read
  <1>3. ASSUME NEW p \in Proc, GetMsg(p) PROVE IInv'
    <2> DEFINE pc == IF p \in Client THEN "got" ELSE "open"
    <2>1. /\ GET_LEN \in Nat /\ proc[p].pc \in Using /\ pc \in Using \ {"asked"}
          /\ pc = proc[p].pc \/ (proc[p].pc = "asked" /\ pc = "got")
      BY <1>3, Numbers DEF Using, GetMsg
    <2>2. device_read(p, GET_LEN, pc)
      BY <1>3 DEF GetMsg
    <2> HIDE DEF pc
    <2> QED
      BY <2>1, <2>2, ReadInv
  <1>4. ASSUME NEW text \in Texts PROVE set_msg_bytes(text) \in Seq(Bytes)
    <2>1. /\ text \in Seq(Bytes) /\ <<>> \in Seq(Bytes) /\ BUF_LEN \in Nat
          /\ 0 \in Bytes
      BY Numbers, EmptySeq
    <2>2. Append(text, 0) \in Seq(Bytes)
      BY <2>1, AppendProperties
    <2>3. Len(text) >= BUF_LEN => SubSeq(text, 1, BUF_LEN) \in Seq(Bytes)
      BY <2>1, SubSeqProperties
    <2> QED
      BY <2>1, <2>2, <2>3 DEF set_msg_bytes
  <1>5. ASSUME NEW p \in Proc, NEW text \in Texts, Write(p, text) PROVE IInv'
    <2>1. "open" \in Using /\ text \in Seq(Bytes)
      BY Numbers DEF Using
    <2> QED
      BY <1>5, <2>1, WriteInv DEF Write
  <1>6. ASSUME NEW p \in Proc, NEW text \in Texts, SetMsg(p, text) PROVE IInv'
    <2> DEFINE pc == IF p \in Client THEN "set" ELSE "open"
    <2>1. /\ proc[p].pc \in Using /\ pc \in {"open", "set"}
          /\ pc = "open" => p \notin Client /\ proc[p].pc = "open"
      BY <1>6 DEF Using, SetMsg
    <2>2. device_write(p, set_msg_bytes(text), pc)
      BY <1>6 DEF SetMsg
    <2> HIDE DEF pc
    <2> QED
      BY <1>4, <2>1, <2>2, WriteInv
  <1>7. ASSUME NEW p \in Proc, NEW n \in Indices, GetNthByte(p, n) PROVE IInv'
    <2>1. n \in Nat
      BY CharDevAssumption
    <2> QED
      BY <1>7, <2>1, GetNthByteInv
  <1>8. ASSUME NEW p \in Proc, OpenBusy(p) PROVE IInv'
    BY <1>1, <1>8 DEF OpenBusy
  <1> QED
    BY <1>1, <1>2, <1>3, <1>5, <1>6, <1>7, <1>8, OpenInv, OpenResetInv, CloseInv, AskNextInv
       DEF Next

LEMMA Invariance == Spec => []IInv
  BY InitInv, StepInv, PTL DEF Spec

(***************************************************************************)
(* The variables of char-dev.c keep their types, whoever races: the use    *)
(* count never goes below zero, and the reader points behind the message   *)
(* only while no zero ends it, that is, while a text fills the buffer.     *)
(***************************************************************************)
THEOREM TypeCorrect == Spec => [](TypeOK /\ Bounded)
  <1>1. IInv => TypeOK /\ Bounded
    BY DEF IInv
  <1> QED
    BY <1>1, Invariance, PTL

(***************************************************************************)
(* try_module_get() and module_put() match: the use count is the number of *)
(* processes that have the device open, even when device_open() let two    *)
(* of them in.                                                             *)
(***************************************************************************)
THEOREM UseCountCorrect == Spec => []UseCount
  <1>1. IInv => UseCount
    BY DEF IInv
  <1> QED
    BY <1>1, Invariance, PTL

\* The use count of the module is right whoever races; device_open() turns away
\* everybody but the first as long as no two calls of it overlap, and Device_Open
\* is right whenever nobody opens or closes the device.
THEOREM ExclusiveCorrect == Spec => []Exclusive
  <1>1. IInv => Exclusive
    <2> SUFFICES ASSUME IInv PROVE Exclusive
      OBVIOUS
    <2>1. refs = Cardinality(Users)
      BY DEF IInv, UseCount
    <2>2. ASSUME ~ raced PROVE \A p, q \in Users : p = q
      BY <2>2 DEF IInv, OneUser, Users, Holds, Using
    <2>3. ASSUME ~ raced, \A p \in Proc : proc[p].pc \notin Opening \cup {"close"}
          PROVE  Device_Open = Cardinality(Users)
      <3>1. CASE Users = {}
        <4>1. \A p \in Proc : proc[p].pc = "closed"
          BY <2>3, <3>1 DEF IInv, TypeOK, Users, Holds
        <4>2. Device_Open = 0
          BY <2>3, <4>1 DEF IInv, OneUser
        <4> QED
          BY <3>1, <4>2, FS_EmptySet
      <3>2. CASE Users # {}
        <4>1. PICK p \in Proc : Holds(p)
          BY <3>2 DEF Users
        <4>2. Users = {p}
          BY <2>2, <2>3, <4>1 DEF Users
        <4>3. Device_Open = 1
          BY <2>3, <4>1 DEF IInv, OneUser
        <4> QED
          BY <4>2, <4>3, FS_Singleton
      <3> QED
        BY <3>1, <3>2
    <2> QED
      BY <2>1, <2>2, <2>3 DEF Exclusive
  <1> QED
    BY <1>1, Invariance, PTL

\* Any way of cutting device_read() into calls yields the message, each byte once,
\* and the end of the file not before it is complete; asking by number shows the
\* same bytes.  A reader leaves the message only if a text filled the buffer.
THEOREM ReadsWholeCorrect == Spec => []ReadsWhole
  <1>1. IInv => ReadsWhole
    BY DEF IInv, ReadsExact, ReadsWhole
  <1> QED
    BY <1>1, Invariance, PTL
=============================================================================
