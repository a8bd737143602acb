----------------------------- MODULE HttpResponse -----------------------------
(***************************************************************************)
(* One HTTP request from the router to the last byte of its response:      *)
(* Server::handle_request_get_, Router, the handlers of ocs_pipeline, and  *)
(* what they answer with, ResponseWriter, Header, ResponseOps and the      *)
(* stream from a file of the web GUI to the chunks of the response.        *)
(*                                                                         *)
(* A handler either sends a whole response or streams a file in chunks.    *)
(* A chunk without data is the end of a chunked response (HTTP); httpd     *)
(* (external) sends whatever it is told to.  If the handler fails, the     *)
(* server sends an error, whatever has been sent before.  Memory may run   *)
(* out, a formatter or a file may fail and the client may be gone at any   *)
(* step.  The texts and the other headers are left out.                    *)
(***************************************************************************)
EXTENDS Naturals, Sequences

CONSTANTS
  MaxFile,  \* bound: the size of a file, in units
  Buffer    \* buffer_size_ of the stream, in the same units

ASSUME StreamAssumption == MaxFile \in Nat /\ Buffer \in Nat \ {0}

\* The endpoints, by what their handlers do: format data as JSON (telemetry,
\* registration, system report), tell or set the time, run an operation on the main
\* task, reboot, redirect to the dashboard, and stream a file.
Endpoint == {"data", "time", "operation", "reboot", "root", "file"}

VARIABLES
  uri,      \* the request: an endpoint, or "unknown"
  step,     \* where the handler is
  chunked,  \* Header::chunked_
  code,     \* the handler's status
  size,     \* the size of the file
  pos,      \* the position in it
  eof,      \* the end-of-file indicator of the FILE
  buffered, \* units read and not yet written
  sent      \* what httpd was given: "whole", "part", "end" or "error"

respVars == <<uri, step, chunked, code, size, pos, eof, buffered, sent>>
fileVars == <<size, pos, eof, buffered>>

RespTypeOK ==
  /\ uri \in Endpoint \cup {"unknown"}
  /\ step \in {"match", "prepare", "write", "written", "open", "read", "chunk",
               "close", "finish", "done"}
  /\ chunked \in BOOLEAN /\ eof \in BOOLEAN
  /\ code \in {"OK", "InvalidArg", "InvalidState", "NoMem", "Timeout", "Error"}
  /\ size \in 0..MaxFile /\ pos \in 0..size /\ buffered \in 0..Buffer
  /\ sent \in Seq({"whole", "part", "end", "error"})

RespInit == /\ uri \in Endpoint \cup {"unknown"}
            /\ size \in 0..MaxFile
            /\ step = "match" /\ chunked = FALSE /\ code = "OK"
            /\ pos = 0 /\ eof = FALSE /\ buffered = 0 /\ sent = <<>>

\* return c;
Return(c) == step' = "finish" /\ code' = c

-----------------------------------------------------------------------------
(* The router and the handlers *)

Match == /\ step = "match"
         /\ IF uri \in Endpoint THEN step' = "prepare" /\ UNCHANGED code
                                ELSE Return("InvalidArg")
         /\ UNCHANGED <<uri, chunked, fileVars, sent>>

\* How the handler of an endpoint may refuse before it answers.  An "operation" is one the
\* handler waits for and answers itself; AnalogConfigStoreHandler has its function write the
\* response on the main task.  That this function may still write when the handler has
\* given up, over a request that is gone, is undefined and not modelled.
Refusals(e) ==
  CASE e = "data"      -> {"NoMem", "Error"}         \* cJSON, the formatters, the buffer
    [] e = "time"      -> {"InvalidArg", "Error"}    \* TimeOps
    [] e = "operation" -> {"InvalidState", "Timeout", "InvalidArg", "Error"}
    [] e = "file"      -> {"InvalidState", "Error"}  \* no file system, header not set
    [] OTHER           -> {"Error"}                  \* header or status not set

Prepare == /\ step = "prepare"
           /\ \/ \E c \in Refusals(uri) : Return(c) /\ UNCHANGED chunked
              \/ /\ step' = IF uri = "file" THEN "open" ELSE "write"
                 /\ chunked' = (uri = "file")
                 /\ UNCHANGED code
           /\ UNCHANGED <<uri, fileVars, sent>>

\* ResponseWriter::write(n units): httpd_resp_send_chunk or httpd_resp_send.
Send(n) == sent' = Append(sent, CASE ~chunked -> "whole"
                                  [] chunked /\ n = 0 -> "end"
                                  [] chunked /\ n > 0 -> "part")

\* ResponseOps::write_text, write_json; handle_root_ sends headers only.
WriteWhole == /\ step = "write"
              /\ \/ Send(1) /\ step' = "written" /\ UNCHANGED code
                 \/ UNCHANGED sent /\ Return("Error")
              /\ UNCHANGED <<uri, chunked, fileVars>>

\* SystemHandler returns what the reboot task returns.
Written == /\ step = "written"
           /\ \E c \in {"OK"} \cup (IF uri = "reboot" THEN {"Timeout", "InvalidState"}
                                                      ELSE {}) : Return(c)
           /\ UNCHANGED <<uri, chunked, fileVars, sent>>

-----------------------------------------------------------------------------
(* StreamTransceiver::transceive, FileStreamReader, ChunkStreamWriter *)

\* The transceiver goes out of scope with the code c.
Close(c) == step' = "close" /\ code' = c

OpenFile == /\ step = "open"
            /\ \/ step' = "read" /\ UNCHANGED code
               \/ Close("Error")
            /\ UNCHANGED <<uri, chunked, fileVars, sent>>

Least(a, b) == IF a < b THEN a ELSE b

\* feof before fread: the indicator is set by the fread that comes up short, not by
\* the one that takes the last unit.  Mutant: the file has ended when all is read.
ReadEnds_early == /\ step = "read" /\ (eof \/ pos + Buffer >= size)
                  /\ Close("OK")
                  /\ UNCHANGED <<uri, chunked, fileVars, sent>>
ReadEnds == /\ step = "read" /\ eof
            /\ Close("OK")
            /\ UNCHANGED <<uri, chunked, fileVars, sent>>

ReadChunk == /\ step = "read" /\ ~eof
             /\ LET n == Least(Buffer, size - pos)
                IN /\ pos' = pos + n /\ buffered' = n /\ eof' = (n < Buffer)
             /\ step' = "chunk"
             /\ UNCHANGED <<uri, chunked, code, size, sent>>

ReadFails == /\ step = "read" /\ ~eof
             /\ Close("Error")
             /\ UNCHANGED <<uri, chunked, fileVars, sent>>

WriteChunk == /\ step = "chunk"
              /\ \/ Send(buffered) /\ step' = "read" /\ UNCHANGED code
                 \/ UNCHANGED sent /\ Close("Error")
              /\ buffered' = 0
              /\ UNCHANGED <<uri, chunked, size, pos, eof>>

\* ~StreamTransceiver: both ends, whose errors are logged.
CloseFile == /\ step = "close"
             /\ step' = "finish"
             /\ Send(0) \/ UNCHANGED sent
             /\ UNCHANGED <<uri, chunked, code, fileVars>>

-----------------------------------------------------------------------------
(* Server::handle_request_get_ *)

Finish == /\ step = "finish"
          /\ step' = "done"
          /\ \/ code # "OK" /\ sent' = Append(sent, "error")
             \/ UNCHANGED sent   \* or httpd_resp_send_err fails
          /\ UNCHANGED <<uri, chunked, code, fileVars>>

RespNext == \/ Match \/ Prepare \/ WriteWhole \/ Written
            \/ OpenFile \/ ReadEnds \/ ReadChunk \/ ReadFails \/ WriteChunk \/ CloseFile
            \/ Finish

RespSpec == RespInit /\ [][RespNext]_respVars

-----------------------------------------------------------------------------
(* Properties *)

Position(what) == {i \in DOMAIN sent : sent[i] = what}

\* What the client takes for a whole file is one: if the stream was a success, the
\* chunks before the first end carry all of it, for every size of the file, the
\* multiples of the buffer included.
SuccessIsWhole ==
  step = "done" /\ uri = "file" /\ code = "OK" /\ Position("end") # {} =>
    /\ pos = size
    /\ \A e \in Position("end"), p \in Position("part") : p < e
=============================================================================
