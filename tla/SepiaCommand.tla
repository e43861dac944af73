---------------------------- MODULE SepiaCommand ----------------------------
(***************************************************************************)
(* main of laboratory work 5 around the filters of Sepia.  Its from_bmp    *)
(* and to_bmp are the ones of laboratory work 3 to the letter, which       *)
(* ImageTransformer has step by step: here each is one step that succeeds  *)
(* or not.  The pixels of the source are src, from the top row down.       *)
(***************************************************************************)
EXTENDS Sepia, Sequences

VARIABLES
  step,        \* what main is about to do
  argument,    \* argv[3], or "missing": argc is not 4
  streams,     \* streams that are open
  buffers,     \* images whose data is allocated
  target,      \* the bytes of the pixels in the target file
  write,       \* what to_bmp returned
  unsaved,     \* history: fclose failed to write the rest of the target
  exitStatus

mainVars == <<step, argument, streams, buffers, target, write, unsaved, exitStatus>>
fileVars == <<streams, buffers, target, write, unsaved>>
allVars == <<vars, mainVars>>

mode_is_valid(a) == a \in {"c", "sse"}

CommandInit ==
  /\ Init
  /\ count > 0
  /\ argument \in {"c", "sse", "other", "missing"}
  /\ mode = IF mode_is_valid(argument) THEN argument ELSE "c"
  /\ step = "arguments" /\ streams = {} /\ buffers = {} /\ target = <<>>
  /\ write = "none" /\ unsaved = FALSE /\ exitStatus = -1

Exits(status) == step' = "exit" /\ exitStatus' = status
Goto(s) == step' = s /\ UNCHANGED exitStatus

ChecksArguments ==
  /\ step = "arguments"
  /\ IF mode_is_valid(argument) THEN Goto("open_source") ELSE Exits(1)
  /\ UNCHANGED <<vars, argument, fileVars>>

OpensSource ==
  /\ step = "open_source"
  /\ \/ streams' = {"source"} /\ Goto("from_bmp")
     \/ Exits(1) /\ UNCHANGED streams
  /\ UNCHANGED <<vars, argument, buffers, target, write, unsaved>>

\* from_bmp keeps the image only if it returns READ_OK; the source is closed.
from_bmp ==
  /\ step = "from_bmp"
  /\ streams' = {}
  /\ \/ buffers' = {"source"} /\ Goto("filter")
     \/ Exits(1) /\ UNCHANGED buffers
  /\ UNCHANGED <<vars, argument, target, write, unsaved>>

\* image_sepia_c or image_sepia_sse runs.
Filters ==
  /\ step = "filter" /\ pc \notin {"done", "failed"}
  /\ Next
  /\ UNCHANGED mainVars

\* It has returned an image, or one without data.
FilterReturns ==
  /\ step = "filter" /\ pc \in {"done", "failed"}
  /\ IF pc = "done" THEN buffers' = buffers \union {"result"} /\ Goto("open_target")
     ELSE buffers' = {} /\ Exits(1)
  /\ UNCHANGED <<vars, argument, streams, target, write, unsaved>>

OpensTarget ==
  /\ step = "open_target"
  /\ \/ streams' = {"target"} /\ Goto("to_bmp") /\ UNCHANGED buffers
     \/ buffers' = {} /\ Exits(1) /\ UNCHANGED streams
  /\ UNCHANGED <<vars, argument, target, write, unsaved>>

\* Variant: the source is written.
WrittenImage_source == [k \in 1 .. 3 * count |-> src[k - 1]]

\* The image to_bmp is given, as a sequence of bytes.
WrittenImage == [k \in 1 .. 3 * count |-> dst[k - 1]]

to_bmp ==
  /\ step = "to_bmp"
  /\ \/ target' = WrittenImage /\ write' = "WRITE_OK"
     \/ /\ \E k \in 0 .. Len(WrittenImage) : target' = SubSeq(WrittenImage, 1, k)
        /\ write' = "WRITE_ERROR"
  /\ Goto("close_target")
  /\ UNCHANGED <<vars, argument, streams, buffers, unsaved>>

\* The result of fclose is not looked at; to_bmp's is the program's.
ClosesTarget ==
  /\ step = "close_target"
  /\ streams' = {} /\ buffers' = {}
  /\ \/ UNCHANGED <<target, unsaved>>
     \/ /\ \E k \in 0 .. Len(target) - 1 : target' = SubSeq(target, 1, k)
        /\ unsaved' = TRUE
  /\ Exits(IF write = "WRITE_OK" THEN 0 ELSE 1)
  /\ UNCHANGED <<vars, argument, write>>

Exited == step = "exit" /\ UNCHANGED allVars

CommandNext ==
  \/ ChecksArguments \/ OpensSource \/ from_bmp \/ Filters \/ FilterReturns
  \/ OpensTarget \/ to_bmp \/ ClosesTarget \/ Exited

CommandSpec == CommandInit /\ [][CommandNext]_allVars
-----------------------------------------------------------------------------
(* What must hold *)

\* However the program ends, nothing stays open or allocated; whichever mode was
\* asked for, what is in the target is a beginning of the picture the scalar filter
\* makes, and all of it if the status is 0 and closing the target saved it.
ExitTellsResult ==
  step = "exit" =>
    /\ streams = {} /\ buffers = {}
    /\ \A k \in DOMAIN target : target[k] = sepia_pixel_c(3 * ((k - 1) \div 3))[((k - 1) % 3) + 1]
    /\ exitStatus = 0 /\ ~unsaved => Len(target) = 3 * count
=============================================================================
