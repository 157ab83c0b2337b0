------------------------------- MODULE Tables -------------------------------
(***************************************************************************)
(* internal/tcp, table_windows.go, and list mode: ListByPIDs from the two  *)
(* calls of GetExtendedTcpTable per address family to the list of          *)
(* connections that -list prints.  A table may change between the call     *)
(* that asks for its size and the call that reads it.  Arithmetic on       *)
(* uint32 is modulo Word.                                                  *)
(*                                                                         *)
(* GetExtendedTcpTable is external: it fills the buffer with a count and   *)
(* that many rows, fails when they do not fit, and may fail anyhow.        *)
(***************************************************************************)
EXTENDS Naturals, Sequences, FiniteSets

CONSTANTS
  Word,  \* values of a uint32
  Byte   \* values of a byte

ASSUME TablesAssumption == Word \in Nat \ {0} /\ Byte \in Nat \ {0}

\* unsafe.Sizeof of the two row types.
RowSize == [IPv4 |-> 24, IPv6 |-> 56]
Families == DOMAIN RowSize

\* What the two calls find of one family: see extendedTCPTable below.
Row == [OwningPID : Nat, RemotePort : 0 .. Word - 1]
Query == [size : 0 .. Word - 1, fails : {"neither", "first", "second"}, table : Seq(Row)]

SizeOf(family, table) == 4 + RowSize[family] * Len(table)

-----------------------------------------------------------------------------
(* Buffers.  count is the DWORD the buffer begins with, rows what follows.  *)

\* Fault: the size is computed in 32 bits.
tableEntries32(len, count, rowSize) == len >= 4 /\ len >= (4 + count * rowSize) % Word

\* The second result; the first one is count.
tableEntries(len, count, rowSize) == len >= 4 /\ len >= 4 + count * rowSize

\* Where the loop of parseV4Table and parseV6Table finds row i: offset is a
\* uint32 that starts at 4.
Offset(i, rowSize) == (4 + (i - 1) * rowSize) % Word

\* The row at an offset of a buffer that GetExtendedTcpTable has filled.
RowAt(buf, offset, rowSize) == buf.rows[((offset - 4) \div rowSize) + 1]

parseTable(buf, rowSize) ==
  IF tableEntries(buf.len, buf.count, rowSize)
    THEN [i \in 1 .. buf.count |-> RowAt(buf, Offset(i, rowSize), rowSize)]
    ELSE <<>>

-----------------------------------------------------------------------------
(* Rows.                                                                    *)

ntohs(v) == ((v \div Byte) % Byte) + ((v % Byte) * Byte)

\* The upper half of the DWORD of a port is undefined.
connectionFromRow(family, row) ==
  [PID |-> row.OwningPID, Family |-> family,
   RemotePort |-> ntohs(row.RemotePort % (Byte * Byte))]

-----------------------------------------------------------------------------
(* The calls, the filter by process id and list mode.                       *)

\* Windows: the buffers the second call may fill, none when it fails.
Fill(family, query) ==
  IF query.fails # "second" /\ SizeOf(family, query.table) <= query.size
    THEN {[len |-> query.size, count |-> Len(query.table), rows |-> query.table]}
    ELSE {}

\* The buffer of extendedTCPTable; nothing when a call fails.  query.size is
\* the answer of the first call and query.table the table when the second is made,
\* which it is not for a size of 0.  query.fails is the call that returns an error
\* whatever the size, or does not find the DLL.
extendedTCPTable(family, query) ==
  IF query.fails = "first" THEN {}
  ELSE IF query.size = 0 THEN {[len |-> 0, count |-> 0, rows |-> <<>>]}
  ELSE Fill(family, query)

\* The loop over the rows of one family, after each of its turns.
Collected(family, rows, pids) ==
  LET conns[i \in 0 .. Len(rows)] ==
        IF i = 0 THEN <<>>
        ELSE IF rows[i].OwningPID \in pids
          THEN Append(conns[i - 1], connectionFromRow(family, rows[i]))
        ELSE conns[i - 1]
  IN  conns

\* The connections of one family, without an error or with one.
ListFamily(family, query, pids) ==
  LET bufs == extendedTCPTable(family, query)
      rows == IF bufs = {} THEN <<>>
              ELSE parseTable(CHOOSE buf \in bufs : TRUE, RowSize[family])
  IN  [conns |-> Collected(family, rows, pids)[Len(rows)], err |-> bufs = {}]

\* Fault: the first family that fails ends the list.
ListByPIDsFirst(queries, pids) ==
  LET four == ListFamily("IPv4", queries.IPv4, pids)
      six == ListFamily("IPv6", queries.IPv6, pids)
  IN  [conns |-> IF four.err THEN <<>> ELSE four.conns \o six.conns,
       errs |-> IF four.err THEN {"IPv4"} ELSE IF six.err THEN {"IPv6"} ELSE {}]

ListByPIDs(queries, pids) ==
  LET four == ListFamily("IPv4", queries.IPv4, pids)
      six == ListFamily("IPv6", queries.IPv6, pids)
  IN  [conns |-> four.conns \o six.conns,
       errs |-> {f \in Families : IF f = "IPv4" THEN four.err ELSE six.err}]

\* What -list prints when FindByName returns these processes: the connections,
\* and a warning for each family that could not be read.
listConnections(procs, queries) ==
  IF procs = {} THEN [conns |-> <<>>, errs |-> {}] ELSE ListByPIDs(queries, procs)

-----------------------------------------------------------------------------
(* Properties.                                                              *)

\* Whatever count a buffer begins with, a count that tableEntries accepts
\* keeps every row inside the buffer, and no offset wraps around.
InBounds(len, count, rowSize) ==
  tableEntries(len, count, rowSize) =>
    \A i \in 1 .. count :
      /\ Offset(i, rowSize) = 4 + (i - 1) * rowSize
      /\ Offset(i, rowSize) + rowSize <= len

\* The port as the two bytes in memory, the first one first: the low byte of
\* the little-endian DWORD is the high byte of the port.
PortOnWire(raw) == (Byte * (raw % Byte)) + ((raw \div Byte) % Byte)

\* The how-manieth of some places one of them is.
Rank(place, places) == Cardinality({p \in places : p <= place})

\* A family that cannot be read: one of the calls fails for its own reasons, or the
\* table has outgrown the buffer.
Unreadable(family, query) ==
  \/ query.fails = "first"
  \/ /\ query.size # 0
     /\ query.fails = "second" \/ SizeOf(family, query.table) > query.size

\* The rows a read can show.  When the first call answers 0 there is no second one,
\* and the read shows a family without a row and without an error.
Visible(query) == IF query.size = 0 THEN <<>> ELSE query.table

\* There is a warning for each family that could not be read, and for no other.
\* The list has, for each family without one, the connections of the wanted
\* processes at the moment the table was read, all of them, in order and with
\* their ports decoded, and nothing of the others.
NoSilentLoss(procs, queries) ==
  LET answer == listConnections(procs, queries)
      Listed(f) == {k \in DOMAIN answer.conns : answer.conns[k].Family = f}
      Rows(f) == Visible(queries[f])
      Mine(f) == {i \in DOMAIN Rows(f) : Rows(f)[i].OwningPID \in procs}
  IN  \A f \in Families :
        /\ f \in answer.errs <=> procs # {} /\ Unreadable(f, queries[f])
        /\ IF f \in answer.errs
             THEN Listed(f) = {}
             ELSE /\ Cardinality(Listed(f)) = Cardinality(Mine(f))
                  /\ \A k \in Listed(f), i \in Mine(f) :
                       Rank(k, Listed(f)) = Rank(i, Mine(f)) =>
                         answer.conns[k] =
                           [PID |-> Rows(f)[i].OwningPID, Family |-> f,
                            RemotePort |-> PortOnWire(Rows(f)[i].RemotePort)]
=============================================================================
