-------------------------- MODULE DelistedArchive --------------------------
(***************************************************************************)
(* fetchLastTimestampForDelistedSymbol() of bybit_rest_client.cpp: when a  *)
(* delisted spot symbol last traded, from the archive of daily files at    *)
(* public.bybit.com.  The directory is read, its newest file downloaded,   *)
(* inflated piece by piece and its last line parsed; an exception anywhere *)
(* starts over, on a new session, three times at most.  The status of an   *)
(* answer is not looked at: an error page is read like a directory or a    *)
(* file.                                                                   *)
(*                                                                         *)
(* A file is its lines, one per piece that comes out of inflate(), and     *)
(* what inflate() says when there are no more: the end of the stream, bad  *)
(* data, or, of a body that is empty or cut short, no progress possible.   *)
(***************************************************************************)
EXTENDS Integers, Sequences, FiniteSets, FiniteSetsExt

CONSTANTS
  maxRetries,
  Days,       \* bound: the dates there may be files of
  Tails       \* what inflate() may say at the end of a body

VARIABLES
  dir, file,  \* the archive: the files it lists, in some order, and what is in them
  attempt,
  latest,     \* latestDate, 0 if there is none
  body, out,  \* the file downloaded, and how many pieces of it are inflated
  result, at

archive == <<dir, file>>
vars == <<archive, attempt, latest, body, out, result, at>>

\* A line is the time of a trade, 0 if it is blank, -1 if it is no record.
Blank == 0
NoRecord == -1
Lines(d) == {<<>>, <<Blank>>, <<NoRecord>>, <<2 * d, 2 * d + 1>>, <<2 * d, Blank>>}
File(d) == [lines : Lines(d), tail : Tails]
NoFile == [lines |-> <<>>, tail |-> "Z_DATA_ERROR"]

Init ==
  /\ dir \in {s \in UNION {[1..n -> Days] : n \in 0..Cardinality(Days)} :
                \A i, j \in DOMAIN s : s[i] = s[j] => i = j}
  /\ file \in {f \in [Days -> UNION {File(d) : d \in Days}] : \A d \in Days : f[d] \in File(d)}
  /\ attempt = 0 /\ latest = 0 /\ body = NoFile /\ out = 0
  /\ result = 0 /\ at = "directory"

\* An exception: once more, after a pause, or nothing.
AfterFailure == IF attempt + 1 < maxRetries THEN "directory" ELSE "done"
Failed ==
  /\ attempt' = attempt + 1 /\ at' = AfterFailure
  /\ latest' = 0 /\ body' = NoFile /\ out' = 0
  /\ UNCHANGED <<archive, result>>

\* The newest of the dates listed, in whatever order they are; an error page lists none.
Newest(listing) == Max({0} \cup {listing[i] : i \in DOMAIN listing})
ReadDirectory ==
  /\ at = "directory"
  /\ \E listing \in {dir, <<>>} :
       /\ latest' = Newest(listing)
       /\ at' = IF latest' = 0 THEN "done" ELSE "file"
  /\ UNCHANGED <<archive, attempt, body, out, result>>

\* The file, or an error page, which does not inflate.
Download ==
  /\ at = "file"
  /\ body' \in {file[latest], NoFile} /\ out' = 0 /\ at' = "inflate"
  /\ UNCHANGED <<archive, attempt, latest, result>>

RequestFails == at \in {"directory", "file"} /\ Failed

\* decompressGzip(): one round of its loop, left at the end of the stream and with the
\* errors it knows.  A round without progress changes nothing.
Fatal == {"Z_STREAM_ERROR", "Z_DATA_ERROR", "Z_MEM_ERROR"}
ret == IF out < Len(body.lines) THEN "Z_OK" ELSE body.tail
Inflate ==
  /\ at = "inflate" /\ ret \notin Fatal
  /\ out' = IF out < Len(body.lines) THEN out + 1 ELSE out
  /\ at' = IF ret = "Z_STREAM_END" THEN "parse" ELSE at
  /\ UNCHANGED <<archive, attempt, latest, body, result>>
InflateFails == at = "inflate" /\ ret \in Fatal /\ Failed

\* lastCsvTimestamp(): the last line that is not blank.
LastLine(lines) == LET full == {i \in DOMAIN lines : lines[i] # Blank}
                   IN  IF full = {} THEN NoRecord ELSE lines[Max(full)]
Parse ==
  /\ at = "parse"
  /\ IF LastLine(body.lines) = NoRecord THEN Failed
     ELSE /\ result' = LastLine(body.lines) /\ at' = "done"
          /\ UNCHANGED <<archive, attempt, latest, body, out>>

Step == ReadDirectory \/ Download \/ Inflate \/ InflateFails \/ Parse
Next == Step \/ RequestFails

\* One thread, and every request ends.
Spec == Init /\ [][Next]_vars /\ WF_vars(Step)

-----------------------------------------------------------------------------
\* The call returns, whatever the archive has to offer ("Returns the timestamp (ms) of
\* the last record, or 0 on failure").
FetchReturns == <>(at = "done")

============================================================================
