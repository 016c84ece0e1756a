------------------------------ MODULE MhlFile ------------------------------
(***************************************************************************)
(* 'mhl hash ... | mhl file -s -o folder': two programs that run at the    *)
(* same time, connected by a pipe.  The first one's lines stay in its      *)
(* stdio buffer for a while, and it waits when there is no room in it; the *)
(* second one reads line after line (process_input), asks for each file's  *)
(* size and date itself, and makes the list when the input has ended.      *)
(***************************************************************************)
EXTENDS MhlHash

CONSTANTS
  Covered,    \* the files in the folder given with -o
  BufferSize, \* the number of lines the writer's buffer holds
  PipeSize,   \* the number of lines the pipe holds
  NoList      \* stands in "list" as long as there is none

ASSUME FileAssumption ==
  /\ Covered \subseteq Files
  /\ BufferSize \in Nat \ {0} /\ PipeSize \in Nat \ {0}

VARIABLES
  sent,    \* the number of lines written to the pipe; of the last one the
           \* newline may be missing, which fill_data_from_input does without
  cut,     \* whether a shorter part of one more line was written at the end
  taken,   \* the number of lines read from it
  records, \* files_data_array
  list,    \* the records of the list, once it has been made
  reader,  \* "read", "create" or "exited"
  answer   \* the exit status of 'mhl file'

pipeVars == <<sent, cut>>
fileVars == <<taken, records, list, reader, answer>>
vars == <<diskVars, walkVars, hashVars, pipeVars, fileVars>>

PipeInit ==
  /\ HashInit
  /\ sent = 0 /\ cut = FALSE
  /\ taken = 0 /\ records = <<>> /\ list = NoList
  /\ reader = "read" /\ answer = "OK"

(***************************************************************************)
(* 'mhl hash' and its standard output.                                     *)
(***************************************************************************)
\* A printf that finds the buffer full waits for the pipe.
HashStep ==
  /\ HashProgram
  /\ lines' # lines => Len(lines) - sent < BufferSize
  /\ UNCHANGED <<pipeVars, fileVars>>

\* A line leaves the buffer, as far as there is room in the pipe; after the
\* program's end, until all have left.
Flush ==
  /\ pass # "killed" /\ reader # "exited"
  /\ sent < Len(lines) /\ sent - taken < PipeSize
  /\ sent' = sent + 1
  /\ UNCHANGED <<diskVars, walkVars, hashVars, cut, fileVars>>

\* Nobody reads any more: SIGPIPE.
BrokenPipe ==
  /\ pass # "killed" /\ reader = "exited" /\ sent < Len(lines)
  /\ pass' = "killed"
  /\ UNCHANGED <<diskVars, walkVars, order, stream, done, lines, total, processed,
                 status, pipeVars, fileVars>>

\* Killed, by a user for instance: what is in the buffer is lost.
KillHash ==
  /\ pass \notin {"exited", "killed"}
  /\ pass' = "killed"
  /\ cut' \in BOOLEAN /\ (cut' => sent < Len(lines))
  /\ UNCHANGED <<diskVars, walkVars, order, stream, done, lines, total, processed,
                 status, sent, fileVars>>

EndOfInput ==
  /\ taken = sent
  /\ pass = "killed" \/ (pass = "exited" /\ sent = Len(lines))

(***************************************************************************)
(* process_input of 'mhl file'.                                            *)
(***************************************************************************)
End(res) == reader' = "exited" /\ answer' = res

\* The signs fill_data_from_input knows.
Known == {"MD5", "SHA1", "xxHash", "xxHash64", "xxHash64BE", "NULL"}

ReadResult(line) ==
  IF line.sign \notin Known           THEN "WRONG_INPUT_FORMAT"
  ELSE IF ~Exists(line.file)          THEN "NO_SUCH_FILE"
  ELSE IF line.file \notin Covered    THEN "WRONG_FILE_LOCATION" ELSE "OK"

BadLinesAreSkipped == \* mutated form: an error of a line does not end the loop
  /\ reader = "read" /\ taken < sent
  /\ taken' = taken + 1
  /\ LET line == lines[taken + 1]
     IN records' = IF ReadResult(line) = "OK"
                     THEN Append(records, [line |-> line, size |-> SizeOf[disk[line.file]]])
                     ELSE records
  /\ UNCHANGED <<diskVars, walkVars, hashVars, pipeVars, list, reader, answer>>

ReadLine ==
  /\ reader = "read" /\ taken < sent
  /\ taken' = taken + 1
  /\ LET line == lines[taken + 1]
     IN IF ReadResult(line) = "OK"
          THEN /\ records' = Append(records,
                               [line |-> line, size |-> SizeOf[disk[line.file]]])
               /\ UNCHANGED <<reader, answer>>
          ELSE End(ReadResult(line)) /\ UNCHANGED records
  /\ UNCHANGED <<diskVars, walkVars, hashVars, pipeVars, list>>

\* A part of a line lacks a part of its sum at least; no line at all is an
\* error too.
EndInput ==
  /\ reader = "read" /\ EndOfInput
  /\ IF cut \/ records = <<>>
       THEN End("WRONG_INPUT_FORMAT")
       ELSE reader' = "create" /\ UNCHANGED answer
  /\ UNCHANGED <<diskVars, walkVars, hashVars, pipeVars, taken, records, list>>

\* create_mhl_files, the subject of MhlSeal.
CreateList ==
  /\ reader = "create"
  /\ \/ list' = records /\ End("OK")
     \/ End("IO_ERROR") /\ UNCHANGED list
  /\ UNCHANGED <<diskVars, walkVars, hashVars, pipeVars, taken, records>>

FileProgram == ReadLine \/ EndInput \/ CreateList

FileChanges == HashFileChanges /\ UNCHANGED <<pipeVars, fileVars>>

Stopped == (pass \in {"exited", "killed"} /\ reader = "exited") /\ UNCHANGED vars

Next == HashStep \/ Flush \/ BrokenPipe \/ KillHash \/ FileProgram \/ FileChanges \/ Stopped

Spec == PipeInit /\ [][Next]_vars

\* Both programs run on, and what is printed reaches the pipe when it can.
Fairness ==
  WF_vars(HashStep) /\ WF_vars(Flush \/ BrokenPipe) /\ WF_vars(FileProgram)

FairSpec == Spec /\ Fairness

(***************************************************************************)
(* Properties.                                                             *)
(***************************************************************************)
TypeOK ==
  /\ HashTypeOK
  /\ taken <= sent /\ sent <= Len(lines)
  /\ Len(records) <= taken
  /\ reader \in {"read", "create", "exited"}

\* If both programs exit with 0, the list has, for every file of the command
\* line that nobody touched and every type selected, a record with the sum
\* and the size of its content; the reader, which asks for the size later
\* than the writer has hashed, cannot notice by itself what is missing.
PipelineSealsAll ==
  order.mode = "calculate" /\ pass = "exited" /\ status = "OK"
  /\ reader = "exited" /\ answer = "OK" =>
    \A i \in DOMAIN args : \A f \in FilesOf(args[i]) \ touched : Exists(f) =>
      \A t \in order.types :
        \E k \in DOMAIN list :
          list[k] = [line |-> Line(t, f, disk[f]), size |-> SizeOf[disk[f]]]

\* A list is made of complete lines only, all of those that were sent, in
\* order, and of all that were printed unless the writer was killed.  No
\* record holds a sum its file never had while nobody touched it.
ListIsWhatWasPrinted ==
  list # NoList =>
    /\ [k \in DOMAIN list |-> list[k].line] = SubSeq(lines, 1, sent)
    /\ pass # "killed" => sent = Len(lines)
    /\ ~cut
    /\ \A k \in DOMAIN list :
         LET f == list[k].line.file
         IN f \notin touched => list[k].line.sum[2] = disk[f]

\* Neither program waits for the other for ever, although buffer and pipe are
\* small and either can fail first.
PipelineEnds == <>(reader = "exited" /\ pass \in {"exited", "killed"})

\* What 'mhl help hash_syntax' says of the syntax of sums: "This holds true for
\* both input via stdin, file input, as well as output.  Hash input with this
\* syntax is generated by both the 'mhl hash' or openssl command."
HashOutputIsInput ==
  order.mode = "calculate" /\ order.level < Verbose /\ pass = "exited" /\ status = "OK"
  /\ lines # <<>> => answer # "WRONG_INPUT_FORMAT"
=============================================================================
