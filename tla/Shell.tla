------------------------------- MODULE Shell -------------------------------
(***************************************************************************)
(* What kernel_main (kernel/src/all/kernel/kernel.c) does once the initial *)
(* ramdisk is mounted: it prints the banner and runs the shell             *)
(* (kernel/src/all/test/shell.c), over the files of Vfs.                   *)
(*                                                                         *)
(* A buffer is its size and how much of it is used; what a line says is    *)
(* chosen when it is parsed: the command, the path it names and the number *)
(* of its words.  The heap is the number of its chunks.  Instead of the    *)
(* shell, the first task may be any other program that uses files.         *)
(***************************************************************************)
EXTENDS Vfs

CONSTANTS
  Banner,             \* the path of banner.conf
  MESSAGE_SIZE,       \* of message in print_banner (77); stars has 4 more
  LINE_BUFFER_SIZE, ARGS_BUFFER_SIZE,
  CAT_BUFFER_SIZE,    \* the first size of the buffer of builtin_cat (16)
  MaxLine,            \* bound: the longest line typed
  MaxOpens            \* bound: how many files the commands open

ASSUME ShellAssumption ==
  /\ Banner \in Seq(STRING)
  /\ \A n \in {MESSAGE_SIZE, LINE_BUFFER_SIZE, ARGS_BUFFER_SIZE, CAT_BUFFER_SIZE} :
       n \in Nat \ {0}

VARIABLES
  program,     \* "shell", or "files": calls of stdio in any order
  at,          \* where kernel_main or the shell is
  fp,          \* the file that print_banner or builtin_cat has open
  message, line, argv, buffer,   \* the buffers
  chunks,      \* how many chunks of the heap the first task has
  opened,      \* history: how many files were opened
  overrun      \* history: was a buffer written behind its end?

files == <<tarfs, handles, file, got>>
shell == <<program, at, fp, message, line, argv, buffer, chunks, opened, overrun>>
allvars == <<files, shell>>

Buffer(n) == [size |-> n, used |-> 0]

\* The store buf[buf.used] = c is inside the buffer.
Room(buf) == buf.used < buf.size

ShellInit ==
  /\ Init
  /\ program \in {"shell", "files"}
  /\ at = "banner"
  /\ fp = NULL
  /\ message = Buffer(MESSAGE_SIZE)
  /\ line = Buffer(0) /\ argv = Buffer(0) /\ buffer = Buffer(0)
  /\ chunks = 0
  /\ opened = 0
  /\ overrun = FALSE

Goto(from, to) ==
  /\ program = "shell" /\ phase = "run"
  /\ at = from
  /\ at' = to

\* fopen: the handle and, for ever, the pointer node of vn_open.
Opens(path) ==
  /\ fopen(path)
  /\ fp' = CHOOSE h \in Handles : h \in DOMAIN file' \ Open
  /\ opened' = opened + 1

\* One fgetc; it does not return EOF.
Reads == Len(got'[fp]) > Len(got[fp])

-----------------------------------------------------------------------------
(* print_banner                                                            *)

BannerOpen ==
  \/ /\ Goto("banner", "banner_read")
     /\ Opens(Banner)
     /\ chunks' = chunks + 2
     /\ UNCHANGED <<program, message, line, argv, buffer, overrun>>
  \/ /\ at = "banner" /\ program = "shell" /\ phase = "run"
     /\ Walk(Banner) = NULL
     /\ phase' = "panic_banner"
     /\ UNCHANGED <<archive, header, entries, handles, file, got, shell>>

MoreBanner == message.used < MESSAGE_SIZE

BannerRead ==
  /\ at = "banner_read"
  /\ fgetc(fp)
  /\ \/ /\ Reads /\ MoreBanner
        /\ Goto("banner_read", "banner_read")
        /\ overrun' = (overrun \/ ~Room(message))
        /\ message' = [message EXCEPT !.used = @ + 1]
     \/ /\ ~(Reads /\ MoreBanner)
        /\ Goto("banner_read", "banner_print")
        /\ UNCHANGED <<message, overrun>>
  /\ UNCHANGED <<program, fp, line, argv, buffer, chunks, opened>>

\* message[i] = 0; a directory cannot be read: panic; stars[i + 4] = 0.
BannerPrint ==
  /\ at = "banner_print"
  /\ overrun' = (overrun \/ ~Room(message))
  /\ \/ /\ file[fp].error = 0
        /\ fclose(fp)
        /\ Goto("banner_print", "prompt")
        /\ fp' = NULL
        /\ chunks' = chunks - 1
     \/ /\ file[fp].error # 0
        /\ phase' = "panic_banner"
        /\ UNCHANGED <<archive, header, entries, handles, file, got, at, fp, chunks>>
  /\ UNCHANGED <<program, message, line, argv, buffer, opened>>

-----------------------------------------------------------------------------
(* readline and parseline                                                  *)

ReadLine ==
  /\ Goto("prompt", "line")
  /\ line' = Buffer(LINE_BUFFER_SIZE)
  /\ chunks' = chunks + 1
  /\ UNCHANGED <<files, program, fp, message, argv, buffer, opened, overrun>>

(* A store, and a larger buffer when this one is full.  Bad... are the     *)
(* mistakes the properties are tried on.                                   *)
BadStored(buf, grown) == [buf EXCEPT !.used = @ + 1]  \* never grows

Stored(buf, grown) ==
  [used |-> buf.used + 1, size |-> IF buf.used + 1 = buf.size THEN grown ELSE buf.size]

Typed ==
  /\ line.used < MaxLine
  /\ Goto("line", "line")
  /\ overrun' = (overrun \/ ~Room(line))
  /\ line' = Stored(line, line.size + LINE_BUFFER_SIZE)
  /\ UNCHANGED <<files, program, fp, message, argv, buffer, chunks, opened>>

\* The newline: buffer[position] = 0.  parseline allocates argv.
Enter ==
  /\ Goto("line", "parse")
  /\ overrun' = (overrun \/ ~Room(line))
  /\ argv' = Buffer(ARGS_BUFFER_SIZE)
  /\ chunks' = chunks + 1
  /\ UNCHANGED <<files, program, fp, message, line, buffer, opened>>

\* The next word; between two words there is a space.
Argument ==
  /\ 2 * argv.used + 1 <= line.used
  /\ Goto("parse", "parse")
  /\ overrun' = (overrun \/ ~Room(argv))
  /\ argv' = Stored(argv, argv.size + ARGS_BUFFER_SIZE)
  /\ UNCHANGED <<files, program, fp, message, line, buffer, chunks, opened>>

-----------------------------------------------------------------------------
(* execute                                                                 *)

(* An empty line, an invalid command, help, echo, pcb; cat with another    *)
(* number of arguments, or with a file that vn_open does not find: they    *)
(* print something.                                                        *)
Simple ==
  /\ Goto("parse", "free")
  /\ UNCHANGED <<files, program, fp, message, line, argv, buffer, chunks, opened,
                 overrun>>

Cat ==
  /\ argv.used = 2
  /\ opened < MaxOpens
  /\ Goto("parse", "cat")
  /\ \E path \in Paths : Opens(path)
  /\ buffer' = Buffer(CAT_BUFFER_SIZE)
  /\ chunks' = chunks + 3
  /\ UNCHANGED <<program, message, line, argv, overrun>>

CatRead ==
  /\ at = "cat"
  /\ fgetc(fp)
  /\ \/ /\ Reads /\ Room(buffer)
        /\ Goto("cat", "cat")
        /\ buffer' = Stored(buffer, 2 * buffer.size)
     \/ /\ ~(Reads /\ Room(buffer))
        /\ Goto("cat", "cat_print")
        /\ UNCHANGED buffer
  /\ UNCHANGED <<program, fp, message, line, argv, chunks, opened, overrun>>

\* buffer[i] = 0; what can be printed is, then fclose and free.
BadCatFreed == 1  \* the buffer is not freed

CatFreed == 2

CatPrint ==
  /\ Goto("cat_print", "free")
  /\ overrun' = (overrun \/ ~Room(buffer))
  /\ fclose(fp)
  /\ fp' = NULL
  /\ chunks' = chunks - CatFreed
  /\ UNCHANGED <<program, message, line, argv, buffer, opened>>

FreeLine ==
  /\ Goto("free", "prompt")
  /\ chunks' = chunks - 2
  /\ line' = Buffer(0) /\ argv' = Buffer(0) /\ buffer' = Buffer(0)
  /\ UNCHANGED <<files, program, fp, message, opened, overrun>>

test_shell ==
  \/ ReadLine \/ Typed \/ Enter \/ Argument \/ Simple \/ Cat \/ CatRead
  \/ CatPrint \/ FreeLine

-----------------------------------------------------------------------------
ShellNext ==
  \/ Mount /\ UNCHANGED shell
  \/ BannerOpen \/ BannerRead \/ BannerPrint
  \/ test_shell
  \/ program = "files" /\ Next /\ UNCHANGED shell

ShellSpec == ShellInit /\ [][ShellNext]_allvars

-----------------------------------------------------------------------------
(* Properties.                                                             *)

(* print_banner, readline, parseline and builtin_cat write inside their    *)
(* buffers, whatever is typed and however long the files are, except for   *)
(* a banner that fills its buffer: the 0 behind it is written outside.     *)
BuffersInBounds ==
  overrun => Walk(Banner) # NULL /\ Size(Walk(Banner)) >= MESSAGE_SIZE

(* Between two commands no file is open and the heap is as before, apart   *)
(* from one chunk for each file that was opened, which vn_open loses.      *)
CommandsGiveBack ==
  program = "shell" /\ at = "prompt" => Open = {} /\ chunks = opened

(* builtin_cat shows the whole of a file, however often its buffer has to  *)
(* grow, and nothing of a directory.                                       *)
CatShowsFile ==
  at = "cat_print" =>
    LET vp == file[fp].node IN
    IF Type(vp) = REGTYPE THEN buffer.used = Size(vp) /\ file[fp].eof = 1
    ELSE buffer.used = 0 /\ file[fp].error # 0

=============================================================================
