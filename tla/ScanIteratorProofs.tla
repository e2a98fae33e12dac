------------------------- MODULE ScanIteratorProofs -------------------------
(***************************************************************************)
(* What ScanIterator's safety properties rest on, for every buffer         *)
(* capacity, every stream length and every set of connections.             *)
(***************************************************************************)
EXTENDS ScanIterator, TLAPS

\* Postgres has had no verdict, and it has not stopped the scan itself.
Live == result \in {"none", "row"}
Stopped == op \in {"end", "abort"}

\* The rows sent are those delivered, buffered, held by the reader or offered to it,
\* in that order; an undecodable row is the only one that can be missing.
InHand == IF reader \in {"metadata", "send"} THEN 1 ELSE 0
OnOffer == IF recv = "row" THEN 1 ELSE 0
Accounted == Len(delivered) + Len(rows) + InHand + OnOffer

RowsInOrder ==
    /\ Accounted <= Len(sent)
    /\ result # "error" /\ result # "panic" => Accounted = Len(sent)
    /\ Live => \A i \in 1..Len(rows) : rows[i] = Len(delivered) + i
    /\ reader \in {"metadata", "send"} => rowResult = Len(sent)
    /\ recv = "row" => offered = Len(sent)

\* Where the receive goroutine can be while the reader is elsewhere.
RecvFollowsReader ==
    /\ recv # "none" => reader \in {"select", "close", "done"}
    /\ recv \in {"nil", "eof"} => ending = recv
    /\ recv = "error" => Stopped \/ ending = "error"
    /\ reader \in {"setStatus", "setErr"} => Stopped \/ ending = "error"
    /\ reader \in {"close", "done"} => Stopped \/ (ending # "open" /\ recv = "none")
    /\ reader \in {"none", "start"} => rows = <<>> /\ sent = <<>>
    /\ reader \in {"none", "start", "metadata", "send", "recv"} => ending = "open"
    /\ reader = "select" /\ recv \in {"waiting", "row"} => ending = "open"
    /\ reader = "select" => recv # "none"
    /\ ending \in {"nil", "eof"} => recv \in {"none", ending, "error"}
    /\ rowsClosed <=> reader = "done"
    /\ ctx = "nil" <=> reader = "none"
    /\ ctx = "cancelled" => Stopped \/ reader = "done"

\* Where the backend can be, and what it has told Postgres by then.
BackendPhases ==
    /\ op = "none" => status = "Ready" /\ result = "none" /\ backend = "idle"
    /\ backend \in {"status", "iterate", "receive"} =>
          op = "next" /\ Live /\ ctx # "cancelled"
    /\ backend = "receive" => ctx = "live"
    /\ op = "next" /\ backend \in {"cancel", "check", "complete", "verdict"} =>
          Live /\ rowsClosed /\ rows = <<>>
    /\ backend = "verdict" => op = "next"
    /\ backend \in {"check", "complete", "verdict"} => ctx # "nil"
    /\ op = "next" /\ backend = "addMetadata" => result = "end"
    /\ op = "next" => backend # "finished"
    /\ ctx = "cancelled" =>
          Stopped \/ ~Live \/ backend \in {"check", "complete", "verdict"}
    /\ result = "panic" => Stopped
    /\ status = "Ready" <=> ctx = "nil"
    /\ result = "end" => reader \in {"setErr", "close", "done"}
    /\ op = "none" => ~running
    /\ op = "next" /\ ctx = "nil" => result = "error" \/ backend \in {"status", "iterate"}
    /\ ctx = "nil" /\ backend \in {"addMetadata", "cancel"} => result = "error"

\* What the status says of the stream, and of err.
StatusTellsEnding ==
    /\ status = "Error" => Stopped \/ ending = "error" \/ result = "error"
    /\ status = "Error" => err \/ reader = "setErr"
    /\ reader = "setErr" => Stopped \/ status = "Error"
    /\ reader = "start" => Stopped \/ status = "Started"
    /\ ending = "error" => \/ Stopped
                           \/ reader = "select" /\ recv = "error"
                           \/ reader \in {"setStatus", "setErr"}
                           \/ err /\ status = "Error"
    /\ status = "Complete" => Stopped \/ ~Live \/ backend = "verdict"
    /\ backend = "complete" /\ op = "next" => status # "Error"
    /\ backend = "complete" /\ result = "error" => ending = "error"

\* The map accounts for each row the reader has taken and written.
MetadataWritten ==
    \A i \in 1..Len(sent) :
        \/ scanMetadata[sent[i]] >= i
        \/ i = Len(sent) /\ (recv = "row" \/ reader = "metadata")

\* The inductive invariant: what holds between any two steps of the three threads.
IInv ==
    /\ TypeOK
    /\ RowsInOrder
    /\ RecvFollowsReader
    /\ BackendPhases
    /\ StatusTellsEnding
    /\ MetadataWritten
    /\ DeliveredIsPrefix
    /\ EndMeansExhausted
    /\ ErrorHasCause

-----------------------------------------------------------------------------
\* A step that leaves the stream, the metadata and the rows delivered alone leaves alone
\* what the invariant says of them.
LEMMA StreamUntouched ==
    ASSUME UNCHANGED <<sent, recv, reader, scanMetadata, delivered>>
    PROVE  (MetadataWritten' <=> MetadataWritten) /\ (DeliveredIsPrefix' <=> DeliveredIsPrefix)
BY DEF MetadataWritten, DeliveredIsPrefix

\* The receive goroutine's steps keep the invariant: a row sent is one row on offer.
LEMMA PluginPreserves == IInv /\ PluginAnswers => IInv'
<1> SUFFICES ASSUME IInv, PluginAnswers PROVE IInv'
  OBVIOUS
<1> USE ScanAssumption
    DEF IInv, TypeOK, RowsInOrder, RecvFollowsReader, BackendPhases, StatusTellsEnding,
        MetadataWritten, DeliveredIsPrefix, EndMeansExhausted, ErrorHasCause,
        Live, Stopped, Accounted, InHand, OnOffer, Row,
        iterVars, readerVars, pluginVars, pgVars
<1>1. CASE RecvRow
  <2>1. PICK c \in Connections : sent' = Append(sent, c)
    BY <1>1 DEF RecvRow
  <2>2. /\ Len(sent') = Len(sent) + 1
        /\ \A i \in 1..Len(sent) : sent'[i] = sent[i]
    BY <2>1
  <2>3. TypeOK'
    <3>1. sent' \in Seq(Connections) /\ Len(sent') \in 1..MaxRows
      BY <1>1, <2>1, <2>2 DEF RecvRow
    <3>2. recv' = "row" /\ offered' = Len(sent')
      BY <1>1 DEF RecvRow
    <3>3. UNCHANGED <<iterVars, rows, rowsClosed, ctx, readerVars, ending, pgVars>>
      BY <1>1 DEF RecvRow
    <3> QED BY <3>1, <3>2, <3>3
  <2>4. RowsInOrder'
    <3>1. recv = "waiting" /\ recv' = "row" /\ offered' = Len(sent')
      BY <1>1 DEF RecvRow
    <3>2. UNCHANGED <<rows, delivered, result, reader, rowResult>>
      BY <1>1 DEF RecvRow
    <3>3. reader \notin {"metadata", "send"}
      BY <3>1
    <3>4. InHand = 0 /\ InHand' = 0 /\ OnOffer = 0 /\ OnOffer' = 1
      BY <3>1, <3>2, <3>3
    <3>5. Accounted' = Accounted + 1
      BY <3>2, <3>4
    <3>6. (Live => \A i \in 1..Len(rows) : rows[i] = Len(delivered) + i)'
      BY <3>2
    <3>7. Accounted \in Nat
      BY DEF TypeOK
    <3>8. /\ (Accounted <= Len(sent))'
          /\ (result # "error" /\ result # "panic" => Accounted = Len(sent))'
      <4> HIDE DEF Accounted
      <4> QED BY <2>2, <3>2, <3>5, <3>7
    <3>9. /\ (reader \in {"metadata", "send"} => rowResult = Len(sent))'
          /\ (recv = "row" => offered = Len(sent))'
      BY <3>1, <3>2, <3>3
    <3> QED BY <3>6, <3>8, <3>9
  <2>5. MetadataWritten'
    <3>1. /\ recv = "waiting" /\ recv' = "row" /\ scanMetadata' = scanMetadata
          /\ reader # "metadata"
      BY <1>1 DEF RecvRow
    <3>2. \A i \in 1..Len(sent) : scanMetadata[sent[i]] >= i
      BY <3>1
    <3>3. ASSUME NEW i \in 1..Len(sent')
          PROVE  scanMetadata'[sent'[i]] >= i \/ (i = Len(sent') /\ recv' = "row")
      <4>1. CASE i \in 1..Len(sent)
        BY <2>2, <3>1, <3>2, <4>1
      <4>2. CASE i = Len(sent')
        BY <3>1, <4>2
      <4>3. Len(sent) \in Nat /\ (i \in 1..Len(sent) \/ i = Len(sent'))
        <5> HIDE DEF IInv
        <5>1. Len(sent) \in Nat
          BY DEF IInv
        <5> QED BY <2>2, <5>1
      <4> HIDE DEF IInv
      <4> QED BY <4>1, <4>2, <4>3
    <3> QED BY <3>3
  <2>6. /\ RecvFollowsReader' /\ BackendPhases' /\ StatusTellsEnding'
        /\ DeliveredIsPrefix'
    BY <1>1 DEF RecvRow
  <2>7. EndMeansExhausted' /\ ErrorHasCause'
    BY <1>1, <2>2 DEF RecvRow
  <2> QED BY <2>3, <2>4, <2>5, <2>6, <2>7
<1>2. CASE RecvEnd
  BY <1>2 DEF RecvEnd
<1>3. CASE RecvCancelled
  BY <1>3 DEF RecvCancelled
<1> QED
    BY <1>1, <1>2, <1>3
    DEF PluginAnswers

\* So do the reader's: it moves each row from the offer to its hand to the buffer, and
\* leaves its loop only when the stream has ended or the backend has cancelled it.
LEMMA ReaderPreserves == IInv /\ ReaderStep => IInv'
<1> SUFFICES ASSUME IInv, ReaderStep PROVE IInv'
  OBVIOUS
<1> USE ScanAssumption
    DEF IInv, TypeOK, RowsInOrder, RecvFollowsReader, BackendPhases, StatusTellsEnding,
        MetadataWritten, DeliveredIsPrefix, EndMeansExhausted, ErrorHasCause,
        Live, Stopped, Accounted, InHand, OnOffer, Row,
        iterVars, readerVars, pluginVars, pgVars
<1>1. CASE ReadThreadStarts
  BY <1>1 DEF ReadThreadStarts
<1>2. CASE SpawnRecv
  BY <1>2 DEF SpawnRecv
<1>3. CASE SelectCancelled
  BY <1>3 DEF SelectCancelled
<1>4. CASE SelectRow
  BY <1>4 DEF SelectRow
<1>5. CASE SelectEnd
  BY <1>5 DEF SelectEnd
<1>6. CASE SelectError
  BY <1>6 DEF SelectError
<1>7. CASE WriteMetadata
  BY <1>7 DEF WriteMetadata
<1>8. CASE SendRow
  <2>1. /\ Len(rows') = Len(rows) + 1
        /\ rows'[Len(rows')] = rowResult
        /\ \A i \in 1..Len(rows) : rows'[i] = rows[i]
    BY <1>8 DEF SendRow
  <2>2. TypeOK'
    BY <1>8, <2>1 DEF SendRow
  <2>3. RowsInOrder'
    <3>1. reader = "send" /\ reader' = "recv" /\ recv = "none"
      BY <1>8 DEF SendRow
    <3>2. UNCHANGED <<sent, delivered, result, recv, offered>>
      BY <1>8 DEF SendRow
    <3>3. Accounted' = Accounted
      BY <2>1, <3>1, <3>2
    <3>4. Live => rowResult = Len(delivered) + Len(rows) + 1
      BY <3>1
    <3>5. ASSUME Live, NEW i \in 1..Len(rows') PROVE rows'[i] = Len(delivered) + i
      <4>1. CASE i = Len(rows')
        BY <2>1, <3>4, <3>5, <4>1
      <4>2. CASE i \in 1..Len(rows)
        BY <2>1, <3>5, <4>2
      <4> QED BY <2>1, <4>1, <4>2
    <3>6. (Live => \A i \in 1..Len(rows) : rows[i] = Len(delivered) + i)'
      BY <3>2, <3>5
    <3> QED BY <3>1, <3>2, <3>3, <3>6
  <2>4. /\ RecvFollowsReader' /\ BackendPhases' /\ StatusTellsEnding'
        /\ MetadataWritten' /\ DeliveredIsPrefix' /\ EndMeansExhausted'
        /\ ErrorHasCause'
    BY <1>8, <2>1 DEF SendRow
  <2> QED BY <2>2, <2>3, <2>4
<1>9. CASE SetErrorStatus
  BY <1>9 DEF SetErrorStatus
<1>10. CASE SetErrorErr
  BY <1>10 DEF SetErrorErr
<1>11. CASE CloseRows
  BY <1>11 DEF CloseRows
<1> QED
    BY <1>1, <1>2, <1>3, <1>4, <1>5, <1>6, <1>7, <1>8, <1>9, <1>10,
        <1>11
    DEF ReaderStep

\* So do the backend's: Next takes the first buffered row, and reaches its verdict only
\* when the reader is done.
LEMMA BackendPreserves == IInv /\ BackendStep => IInv'
<1> SUFFICES ASSUME IInv, BackendStep PROVE IInv'
  OBVIOUS
<1> USE ScanAssumption
    DEF IInv, TypeOK, RowsInOrder, RecvFollowsReader, BackendPhases, StatusTellsEnding,
        MetadataWritten, DeliveredIsPrefix, EndMeansExhausted, ErrorHasCause,
        Live, Stopped, Accounted, InHand, OnOffer, Row,
        iterVars, readerVars, pluginVars, pgVars, Return, AfterClose
<1>1. CASE NextInError
  BY <1>1 DEF NextInError
<1>2. CASE NextNotInError
  BY <1>2 DEF NextNotInError
<1>3. CASE NextCannotIterate
  BY <1>3 DEF NextCannotIterate
<1>4. CASE NextCanIterate
  BY <1>4 DEF NextCanIterate
<1>5. CASE NextRow
  <2>1. /\ Len(rows') = Len(rows) - 1
        /\ \A i \in 1..Len(rows') : rows'[i] = rows[i + 1]
        /\ Len(delivered') = Len(delivered) + 1
        /\ delivered'[Len(delivered')] = rows[1]
        /\ \A i \in 1..Len(delivered) : delivered'[i] = delivered[i]
    BY <1>5 DEF NextRow
  <2>2. TypeOK'
    <3>1. /\ rows' \in Seq(Row) /\ Len(rows') <= Capacity
          /\ delivered' \in Seq(Row)
      BY <1>5, <2>1 DEF NextRow
    <3>2. backend' = "idle" /\ result' = "row"
      BY <1>5 DEF NextRow
    <3>3. UNCHANGED <<iterVars, rowsClosed, ctx, readerVars, pluginVars, op, running,
                      interrupt>>
      BY <1>5 DEF NextRow
    <3> QED BY <3>1, <3>2, <3>3
  <2>3. RowsInOrder'
    BY <1>5, <2>1 DEF NextRow
  <2>4. DeliveredIsPrefix'
    BY <1>5, <2>1 DEF NextRow
  <2>5. RecvFollowsReader' /\ BackendPhases' /\ StatusTellsEnding' /\ MetadataWritten'
    BY <1>5 DEF NextRow
  <2>6. EndMeansExhausted' /\ ErrorHasCause'
    BY <1>5 DEF NextRow
  <2> QED BY <2>2, <2>3, <2>4, <2>5, <2>6
<1>6. CASE NextBadRow
  BY <1>6 DEF NextBadRow
<1>7. CASE NextNoMoreRows
  BY <1>7 DEF NextNoMoreRows
<1>8. CASE NextVerdict
  BY <1>8 DEF NextVerdict
<1>9. CASE CloseNilCancel
  BY <1>9 DEF CloseNilCancel
<1>10. CASE CloseCancel
  BY <1>10 DEF CloseCancel
<1>11. CASE CloseCheck
  BY <1>11 DEF CloseCheck
<1>12. CASE CloseComplete
  BY <1>12 DEF CloseComplete
<1>13. CASE ReadMetadata
  BY <1>13 DEF ReadMetadata
<1> QED
    BY <1>1, <1>2, <1>3, <1>4, <1>5, <1>6, <1>7, <1>8, <1>9, <1>10,
        <1>11, <1>12, <1>13
    DEF BackendStep

\* So do the calls Postgres makes.
LEMMA PostgresPreserves == IInv /\ PostgresStep => IInv'
<1> SUFFICES ASSUME IInv, PostgresStep PROVE IInv'
  OBVIOUS
<1> USE ScanAssumption
    DEF IInv, TypeOK, RowsInOrder, RecvFollowsReader, BackendPhases, StatusTellsEnding,
        MetadataWritten, DeliveredIsPrefix, EndMeansExhausted, ErrorHasCause,
        Live, Stopped, Accounted, InHand, OnOffer, Row,
        iterVars, readerVars, pluginVars, pgVars, PostgresMayIterate
<1>1. CASE StartSucceeds
  BY <1>1 DEF StartSucceeds
<1>2. CASE StartFails
  BY <1>2 DEF StartFails
<1>3. CASE CallNext
  BY <1>3 DEF CallNext
<1>4. CASE EndScan
  <2>1. TypeOK'
    BY <1>4 DEF EndScan
  <2>6. MetadataWritten' /\ DeliveredIsPrefix'
    <3>1. UNCHANGED <<sent, recv, reader, scanMetadata, delivered>>
      BY <1>4 DEF EndScan
    <3> HIDE DEF MetadataWritten, DeliveredIsPrefix
    <3> QED BY <3>1, StreamUntouched
  <2>2. RowsInOrder'
    BY <1>4 DEF EndScan
  <2>3. RecvFollowsReader' /\ StatusTellsEnding'
    BY <1>4 DEF EndScan
  <2>4. BackendPhases'
    BY <1>4 DEF EndScan
  <2>5. EndMeansExhausted' /\ ErrorHasCause'
    BY <1>4 DEF EndScan
  <2> QED BY <2>1, <2>2, <2>3, <2>4, <2>5, <2>6
<1>5. CASE Abort
  <2>1. TypeOK'
    BY <1>5 DEF Abort
  <2>6. MetadataWritten' /\ DeliveredIsPrefix'
    <3>1. UNCHANGED <<sent, recv, reader, scanMetadata, delivered>>
      BY <1>5 DEF Abort
    <3> HIDE DEF MetadataWritten, DeliveredIsPrefix
    <3> QED BY <3>1, StreamUntouched
  <2>2. RowsInOrder'
    BY <1>5 DEF Abort
  <2>3. RecvFollowsReader' /\ StatusTellsEnding'
    BY <1>5 DEF Abort
  <2>4. BackendPhases'
    BY <1>5 DEF Abort
  <2>5. EndMeansExhausted' /\ ErrorHasCause'
    BY <1>5 DEF Abort
  <2> QED BY <2>1, <2>2, <2>3, <2>4, <2>5, <2>6
<1>6. CASE Interrupt
  BY <1>6 DEF Interrupt
<1> QED
    BY <1>1, <1>2, <1>3, <1>4, <1>5, <1>6
    DEF PostgresStep

\* A stuttering step changes nothing the invariant speaks of.
LEMMA StutterPreserves == IInv /\ UNCHANGED vars => IInv'
BY DEF vars, iterVars, readerVars, pluginVars, pgVars, IInv, TypeOK, RowsInOrder,
       RecvFollowsReader, BackendPhases, StatusTellsEnding, MetadataWritten,
       DeliveredIsPrefix, EndMeansExhausted, ErrorHasCause, Live, Stopped, Accounted,
       InHand, OnOffer

\* It holds before the scan starts.
LEMMA InitImpliesIInv == Init => IInv
<1> SUFFICES ASSUME Init PROVE IInv
  OBVIOUS
<1> USE ScanAssumption DEF Init, Live, Stopped
<1>1. TypeOK
  <2>1. <<>> \in Seq(Row) /\ <<>> \in Seq(Connections) /\ Len(<<>>) = 0
    OBVIOUS
  <2>2. 0 \in 0..MaxRows /\ 0 <= Capacity /\ 0 <= MaxRows
    OBVIOUS
  <2> QED BY <2>1, <2>2 DEF TypeOK
<1>2. RowsInOrder
  BY DEF RowsInOrder, Accounted, InHand, OnOffer
<1>3. RecvFollowsReader /\ BackendPhases /\ StatusTellsEnding
  BY DEF RecvFollowsReader, BackendPhases, StatusTellsEnding
<1>4. MetadataWritten /\ DeliveredIsPrefix
  BY DEF MetadataWritten, DeliveredIsPrefix
<1>5. EndMeansExhausted /\ ErrorHasCause
  BY DEF EndMeansExhausted, ErrorHasCause
<1> QED BY <1>1, <1>2, <1>3, <1>4, <1>5 DEF IInv

\* Every step keeps it, whichever thread takes it.
LEMMA NextPreserves == IInv /\ [Next]_vars => IInv'
BY PluginPreserves, ReaderPreserves, BackendPreserves, PostgresPreserves,
   StutterPreserves
   DEF Next, Finished

\* The invariant holds in every state of every scan.
THEOREM Invariance == Spec => []IInv
BY InitImpliesIInv, NextPreserves, PTL DEF Spec

-----------------------------------------------------------------------------
(* What follows from the invariant.                                        *)

\* The variables keep their types; in particular the buffer never exceeds its
\* capacity.
THEOREM TypeCorrect == Spec => []TypeOK
BY Invariance, PTL DEF IInv

\* Postgres receives a prefix of the plugin's stream.
THEOREM InOrder == Spec => []DeliveredIsPrefix
BY Invariance, PTL DEF IInv

\* The end of a scan means the stream is exhausted, or failed.
THEOREM EndIsEnd == Spec => []EndMeansExhausted
BY Invariance, PTL DEF IInv

\* No error comes from nowhere.
THEOREM ErrorsHaveCauses == Spec => []ErrorHasCause
BY Invariance, PTL DEF IInv

\* The scan metadata is never behind the rows Postgres has.
THEOREM MetadataCovers == Spec => []MetadataCoversDelivered
<1>1. IInv => MetadataCoversDelivered
  <2> SUFFICES ASSUME IInv, NEW i \in 1..Len(delivered)
               PROVE  scanMetadata[sent[delivered[i]]] >= delivered[i]
    BY DEF MetadataCoversDelivered
  <2>1. delivered[i] = i
    BY DEF IInv, DeliveredIsPrefix
  <2>2. /\ i <= Len(sent)
        /\ recv = "row" \/ reader = "metadata" => i < Len(sent)
    BY DEF IInv, TypeOK, RowsInOrder, Accounted, InHand, OnOffer
  <2>3. i \in 1..Len(sent)
    BY <2>2 DEF IInv, TypeOK
  <2>4. ~(i = Len(sent) /\ (recv = "row" \/ reader = "metadata"))
    BY <2>2
  <2> QED BY <2>1, <2>3, <2>4 DEF IInv, MetadataWritten
<1> QED BY <1>1, Invariance, PTL

\* The hub reads the metadata of a scan that has ended while the reader is past it.
THEOREM MetadataAlone == Spec => []MetadataReadAloneAtEnd
<1>1. IInv => MetadataReadAloneAtEnd
  BY DEF IInv, BackendPhases, MetadataReadAloneAtEnd
<1> QED BY <1>1, Invariance, PTL

\* A Next that runs into the closed channel never hides the error of the stream.
THEOREM ClosedChannelReports == Spec => ClosedChannelReportsError
<1>1. IInv /\ [Next]_vars =>
        [ backend = "verdict" /\ backend' # "verdict" /\ ending = "error"
              => result' = "error" ]_vars
  <2> SUFFICES ASSUME IInv, Next, backend = "verdict", backend' # "verdict",
                      ending = "error"
               PROVE  result' = "error"
    BY DEF vars
  <2>1. reader = "done" /\ op = "next"
    BY DEF IInv, BackendPhases, RecvFollowsReader
  <2>2. err /\ status = "Error"
    BY <2>1 DEF IInv, StatusTellsEnding, Stopped
  <2>3. NextVerdict
    BY <2>1 DEF Next, PluginAnswers, ReaderStep, BackendStep, PostgresStep, Finished,
                RecvRow, RecvEnd, RecvCancelled, ReadThreadStarts, SpawnRecv,
                SelectCancelled, SelectRow, SelectEnd, SelectError, WriteMetadata,
                SendRow, SetErrorStatus, SetErrorErr, CloseRows, NextInError,
                NextNotInError, NextCannotIterate, NextCanIterate, NextRow, NextBadRow,
                NextNoMoreRows, CloseNilCancel, CloseCancel, CloseCheck, CloseComplete,
                ReadMetadata, StartSucceeds, StartFails, CallNext, EndScan, Abort,
                Interrupt, PostgresMayIterate, vars, pgVars
  <2> QED BY <2>2, <2>3 DEF NextVerdict, Return
<1> QED BY <1>1, Invariance, PTL DEF Spec, ClosedChannelReportsError

-----------------------------------------------------------------------------
(* The refinement: every step is a step of ScanResult or changes nothing   *)
(* that ScanResult speaks of.                                              *)

\* A new iterator is a scan of which nothing has been sent or promised.
LEMMA InitRefines == Init => Promise!Init
BY DEF Init, Promise!Init, Verdict

\* The receive goroutine's steps are the stream's own.
LEMMA PluginRefines ==
    IInv /\ PluginAnswers => [Promise!Next]_(Promise!vars)
<1> SUFFICES ASSUME IInv, PluginAnswers PROVE [Promise!Next]_(Promise!vars)
  OBVIOUS
<1> USE DEF Promise!vars, Promise!Next, Verdict, pgVars
<1>1. CASE RecvRow
  BY <1>1 DEF RecvRow, Promise!PluginSends
<1>2. CASE RecvEnd
  BY <1>2 DEF RecvEnd, Promise!PluginEnds
<1>3. CASE RecvCancelled
  BY <1>3 DEF RecvCancelled
<1> QED BY <1>1, <1>2, <1>3 DEF PluginAnswers

\* The reader's steps are invisible.
LEMMA ReaderRefines == ReaderStep => UNCHANGED Promise!vars
BY DEF Promise!vars, Verdict, pgVars, pluginVars, ReaderStep, ReadThreadStarts,
       SpawnRecv, SelectCancelled, SelectRow, SelectEnd, SelectError, WriteMetadata,
       SendRow, SetErrorStatus, SetErrorErr, CloseRows

\* What Next does to the promise: a row, a verdict, or nothing.
LEMMA BackendRefines ==
    IInv /\ IInv' /\ BackendStep => [Promise!Next]_(Promise!vars)
<1> SUFFICES ASSUME IInv, IInv', BackendStep PROVE [Promise!Next]_(Promise!vars)
  OBVIOUS
<1> USE DEF Promise!vars, Promise!Next, Verdict, pluginVars
<1>1. CASE NextInError \/ NextCannotIterate \/ NextVerdict
  <2>1. Verdict = "none" /\ Verdict' = result' /\ result' \in {"end", "error"}
    BY <1>1 DEF NextInError, NextCannotIterate, NextVerdict, Return, IInv,
                BackendPhases, Live
  <2>2. UNCHANGED <<sent, ending, delivered>>
    BY <1>1 DEF NextInError, NextCannotIterate, NextVerdict
  <2>3. CASE result' = "end"
    BY <2>1, <2>2, <2>3 DEF IInv, EndMeansExhausted, Promise!End,
                            Promise!AllDelivered
  <2>4. CASE result' = "error"
    <3>1. ctx' = "nil" => sent' = <<>>
      BY DEF IInv, RecvFollowsReader
    <3>2. \/ ending = "error" \/ sent = <<>> \/ Len(delivered) # Len(sent)
      BY <2>2, <2>4, <3>1 DEF IInv, ErrorHasCause, TypeOK
    <3> QED BY <2>1, <2>2, <2>4, <3>2 DEF Promise!Fail, Promise!AllDelivered
  <2> QED BY <2>1, <2>3, <2>4
<1>2. CASE NextRow
  <2>1. Verdict = "none" /\ Verdict' = "none" /\ UNCHANGED <<sent, ending>>
    BY <1>2 DEF NextRow, Return, IInv, BackendPhases, Live
  <2>2. Len(rows) > 0 /\ Live /\ delivered' = Append(delivered, Head(rows))
    BY <1>2 DEF NextRow, IInv, TypeOK, BackendPhases
  <2>3. Head(rows) = Len(delivered) + 1
    BY <2>2 DEF IInv, TypeOK, RowsInOrder
  <2>4. Len(delivered) # Len(sent)
    <3>1. InHand \in 0..1 /\ OnOffer \in 0..1
      BY DEF InHand, OnOffer
    <3>2. Len(delivered) \in Nat /\ Len(rows) \in Nat /\ Len(sent) \in Nat
      BY DEF IInv, TypeOK
    <3>3. Len(delivered) + Len(rows) + InHand + OnOffer <= Len(sent)
      BY DEF IInv, RowsInOrder, Accounted
    <3> QED BY <2>2, <3>1, <3>2, <3>3
  <2> QED BY <2>1, <2>2, <2>3, <2>4 DEF Promise!Deliver, Promise!AllDelivered
<1>3. CASE NextBadRow
  <2>1. Verdict = "none" /\ Verdict' = "error"
    BY <1>3 DEF NextBadRow, Return, IInv, BackendPhases, Live
  <2>2. Len(delivered) # Len(sent)
    BY <1>3 DEF NextBadRow, IInv, TypeOK, RowsInOrder, Accounted, InHand, OnOffer
  <2> QED BY <1>3, <2>1, <2>2 DEF NextBadRow, Promise!Fail, Promise!AllDelivered
<1>4. CASE CloseNilCancel
  BY <1>4 DEF CloseNilCancel, IInv, BackendPhases
<1>5. CASE \/ NextNotInError \/ NextCanIterate \/ NextNoMoreRows \/ CloseCancel
           \/ CloseCheck \/ CloseComplete \/ ReadMetadata
  BY <1>5 DEF NextNotInError, NextCanIterate, NextNoMoreRows, CloseCancel, CloseCheck,
              CloseComplete, ReadMetadata
<1> QED BY <1>1, <1>2, <1>3, <1>4, <1>5 DEF BackendStep

\* Ending or aborting a scan that has no verdict yet stops it.
LEMMA PostgresRefines ==
    IInv /\ PostgresStep => [Promise!Next]_(Promise!vars)
<1> SUFFICES ASSUME IInv, PostgresStep PROVE [Promise!Next]_(Promise!vars)
  OBVIOUS
<1> USE DEF Promise!vars, Promise!Next, Verdict, pluginVars
<1>1. CASE StartSucceeds \/ StartFails \/ CallNext \/ Interrupt
  BY <1>1 DEF StartSucceeds, StartFails, CallNext, Interrupt, PostgresMayIterate
<1>2. CASE EndScan \/ Abort
  BY <1>2 DEF EndScan, Abort, Promise!Stop, IInv, BackendPhases
<1> QED BY <1>1, <1>2 DEF PostgresStep

\* A scan keeps the promise of ScanResult.
THEOREM Refinement == Spec => ImplementsScanResult
<1>1. IInv /\ IInv' /\ [Next]_vars => [Promise!Next]_(Promise!vars)
  <2>1. UNCHANGED vars => UNCHANGED Promise!vars
    BY DEF vars, pgVars, pluginVars, Promise!vars, Verdict
  <2> QED BY <2>1, PluginRefines, ReaderRefines, BackendRefines, PostgresRefines
          DEF Next, Finished
<1> QED BY <1>1, InitRefines, Invariance, PTL
        DEF Spec, ImplementsScanResult, Promise!Spec

=============================================================================
