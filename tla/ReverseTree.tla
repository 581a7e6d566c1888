------------------------------ MODULE ReverseTree ------------------------------
(***************************************************************************)
(* The reverser of src/sem1/lab3/task3_1 (reverse.c): next to a directory  *)
(* it creates one with the reversed name and, in it, the same tree with    *)
(* all names and all file contents reversed.                               *)
(*                                                                         *)
(* A path is a sequence of names, a name a sequence of letters, a content  *)
(* a sequence of bytes.  readdir may or may not return what was added to   *)
(* the directory while it is read.  Every call that can fail may fail, if  *)
(* MayFail says so; broken then remembers it.                              *)
(***************************************************************************)
EXTENDS SequencesExt

CONSTANTS
  BufSize,   \* BUF_SIZE
  Trees,     \* the trees at the start: records of dirs, files and the root
  MayFail

VARIABLES
  dirs,      \* the paths of the directories
  files,     \* a function from the paths of the files to their contents
  root,      \* absSrcPath
  stack,     \* the activations of reverseFiles, the innermost first
  copy,      \* the locals of copyContent
  pc,        \* "start", "scan", "copy", "done" or "failed"
  broken,
  before     \* history: the files of the source tree at the start

vars == <<dirs, files, root, stack, copy, pc, broken, before>>

NoCopy == [from |-> <<>>, to |-> <<>>, remaining |-> 0]

Under(p, q) == Len(q) > Len(p) /\ SubSeq(q, 1, Len(p)) = p

Init ==
  \E t \in Trees :
    /\ dirs = t.dirs
    /\ files = t.files
    /\ root = t.root
    /\ stack = <<>>
    /\ copy = NoCopy
    /\ pc = "start"
    /\ broken = FALSE
    /\ before = [p \in {q \in DOMAIN t.files : Under(t.root, q)} |-> t.files[p]]

Target == Front(root) \o <<Reverse(Last(root))>>

Children(p) ==
  {Last(q) : q \in {d \in dirs \union DOMAIN files :
                      Under(p, d) /\ Len(d) = Len(p) + 1}}

(* what readdir must return, and what it has returned *)
Activation(src, dst) ==
  [src |-> src, dst |-> dst, must |-> Children(src), seen |-> {}]

(* createReverseDir: ALREADY_EXIST and the success of mkdir are both 0 *)
CreateReverseDir(p) ==
  /\ p \notin DOMAIN files
  /\ dirs' = dirs \union {p}

Fails(why) == (why \/ MayFail) /\ broken' = TRUE

Start ==
  /\ pc = "start"
  /\ \/ /\ CreateReverseDir(Target)
        /\ stack' = <<Activation(root, Target)>>
        /\ pc' = "scan"
        /\ UNCHANGED broken
     \/ /\ Fails(Target \in DOMAIN files)
        /\ CreateReverseDir(Target) \/ UNCHANGED dirs
        /\ pc' = "failed"
        /\ UNCHANGED stack
  /\ UNCHANGED <<files, root, copy, before>>

-----------------------------------------------------------------------------
Top == Head(stack)

Entry(name) ==
  /\ pc = "scan"
  /\ name \in Top.must \union (Children(Top.src) \ Top.seen)

Source(name) == Append(Top.src, name)
Dest(name) == Append(Top.dst, Reverse(name))

Returned(name) ==
  <<[Top EXCEPT !.must = @ \ {name}, !.seen = @ \union {name}]>> \o Tail(stack)

(* stat, mkdir, opendir or fopen fails: the entry is skipped, a directory  *)
(* possibly after its target has been created                              *)
Skip(name) ==
  /\ Entry(name)
  /\ Fails(\/ Source(name) \in dirs /\ Dest(name) \in DOMAIN files
           \/ Source(name) \in DOMAIN files /\ Dest(name) \in dirs)
  /\ UNCHANGED dirs \/ (Source(name) \in dirs /\ CreateReverseDir(Dest(name)))
  /\ stack' = Returned(name)
  /\ UNCHANGED <<files, root, copy, pc, before>>

(* createReverseFile: the destination is truncated, then copied to *)
OpenFile(name) ==
  /\ Entry(name)
  /\ Source(name) \in DOMAIN files
  /\ Dest(name) \notin dirs
  /\ files' = [p \in DOMAIN files \union {Dest(name)} |->
                 IF p = Dest(name) THEN <<>> ELSE files[p]]
  /\ copy' = [from |-> Source(name), to |-> Dest(name),
              remaining |-> LET size == Len(files'[Source(name)])
                            IN  IF size = 2 THEN 0 ELSE size]
  /\ stack' = Returned(name)
  /\ pc' = "copy"
  /\ UNCHANGED <<dirs, root, broken, before>>

(* Mutant: the chunks are taken from the front. *)
CopyChunkForward ==
  /\ pc = "copy"
  /\ copy.remaining > 0
  /\ LET toRead == IF copy.remaining >= BufSize THEN BufSize ELSE copy.remaining
         pos == Len(files[copy.from]) - copy.remaining
     IN  /\ files' = [files EXCEPT ![copy.to] =
                        @ \o Reverse(SubSeq(files[copy.from], pos + 1, pos + toRead))]
         /\ copy' = [copy EXCEPT !.remaining = @ - toRead]
  /\ UNCHANGED <<dirs, root, stack, pc, broken, before>>

(* a round of copyContent, from the end of the source to its beginning *)
CopyChunk ==
  /\ pc = "copy"
  /\ copy.remaining > 0
  /\ LET toRead == IF copy.remaining >= BufSize THEN BufSize ELSE copy.remaining
         pos == copy.remaining - toRead
     IN  /\ files' = [files EXCEPT ![copy.to] =
                        @ \o Reverse(SubSeq(files[copy.from], pos + 1, pos + toRead))]
         /\ copy' = [copy EXCEPT !.remaining = pos]
  /\ UNCHANGED <<dirs, root, stack, pc, broken, before>>

(* copyContent reports no failure: createReverseFile succeeds anyway *)
CopyEnds ==
  /\ pc = "copy"
  /\ \/ copy.remaining = 0 /\ UNCHANGED broken
     \/ Fails(FALSE)
  /\ copy' = NoCopy
  /\ pc' = "scan"
  /\ UNCHANGED <<dirs, files, root, stack, before>>

EnterDir(name) ==
  /\ Entry(name)
  /\ Source(name) \in dirs
  /\ CreateReverseDir(Dest(name))
  /\ stack' = <<Activation(Source(name), Dest(name))>> \o Returned(name)
  /\ UNCHANGED <<files, root, copy, pc, broken, before>>

(* readdir returns NULL at the end, or on an error: reverseFiles does not  *)
(* tell the one from the other                                             *)
LeaveDir ==
  /\ pc = "scan"
  /\ \/ Top.must = {} /\ UNCHANGED broken
     \/ Fails(FALSE)
  /\ stack' = Tail(stack)
  /\ pc' = IF stack' = <<>> THEN "done" ELSE "scan"
  /\ UNCHANGED <<dirs, files, root, copy, before>>

Next ==
  \/ Start
  \/ /\ pc = "scan"
     /\ \E name \in Top.must \union Children(Top.src) :
          Skip(name) \/ OpenFile(name) \/ EnterDir(name)
  \/ CopyChunk \/ CopyEnds
  \/ LeaveDir

Spec == Init /\ [][Next]_vars

-----------------------------------------------------------------------------
Palindrome == Target = root

(* where the copy of a file of the source tree belongs *)
Mirror(p) ==
  Target \o [k \in 1 .. Len(p) - Len(root) |-> Reverse(p[Len(root) + k])]

(* Unless the name of the root is a palindrome, the source tree is not     *)
(* touched, whatever fails; and if nothing failed, every file ends up at   *)
(* the mirrored path with its bytes in reverse order, with one exception:  *)
(* a file of exactly two bytes is taken for a failed fseek (FSEEK_ERROR is *)
(* 2) and becomes an empty file.  This includes a second run over an       *)
(* existing target, which is not refused.                                  *)
CopyIsMirror ==
  ~Palindrome =>
    /\ \A p \in DOMAIN before : p \in DOMAIN files /\ files[p] = before[p]
    /\ pc = "done" /\ ~broken =>
         \A p \in DOMAIN before :
           /\ Mirror(p) \in DOMAIN files
           /\ files[Mirror(p)] =
                IF Len(before[p]) = 2 THEN <<>> ELSE Reverse(before[p])
=============================================================================
