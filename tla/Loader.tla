------------------------------- MODULE Loader -------------------------------
(***************************************************************************)
(* App RAM from the request to the end of an app: the ELF loader           *)
(* (elf_loader.c, run by the SD driver's thread while exec waits for it),  *)
(* the parameter block and the wrapper threads of exec.c.                  *)
(*                                                                         *)
(* exec and the SD driver outrank every app, so wrappers step only while   *)
(* exec waits for a request or for the end of a foreground app.            *)
(* Every read of the file may fail.                                        *)
(***************************************************************************)
EXTENDS AppMemory, SequencesExt

CONSTANTS
    WORDS,          \* addresses and values wrap here: 2^32
    Files,          \* the ELF files on the card, as records (see LoaderMC)
    Threads,        \* slots the kernel has for apps
    PARAM_SIZE,     \* sizeof(app_param_t)
    NULL

ASSUME ParamAssumption == required_pages(PARAM_SIZE) = 1

(* What app_memory_alloc hands out, what the loader makes of it, and what  *)
(* a wrapper thread is started with.                                       *)
Region  == {r \in [first_page : Pages, page_count : Int] :
              r.first_page + r.page_count <= APP_PAGE_COUNT}
Image   == [file : Files, memory : Region]
Param   == [image : Image, background : BOOLEAN]
Wrapper == [param : Pages, started : BOOLEAN, image : Image, background : BOOLEAN]

ASSUME NullAssumption == NULL \notin Pages /\ NULL \notin Wrapper

VARIABLES
    ram,            \* contents of app RAM
    at,             \* how far exec, or the driver on its behalf, has got
    job,            \* file, background, next segment, image, wrapper's id
    param_memory,   \* exec_main's param_memory.base, as a page
    params,         \* page -> the app_param_t written there
    apps,           \* wrapper threads
    abandoned,      \* history: pages of background apps that are gone
    short           \* history: an allocation of a parameter block has failed

lvars == <<page_used, ram, at, job, param_memory, params, apps, abandoned, short>>

Wild == -1          \* whatever a word of RAM holds that nobody has set

Init ==
    /\ page_used = {}
    /\ ram = [a \in Address |-> Wild]
    /\ at = "recv"
    /\ job = NULL
    /\ param_memory = NULL
    /\ params = <<>>
    /\ apps = [t \in Threads |-> NULL]
    /\ abandoned = {} /\ short = FALSE
-----------------------------------------------------------------------------
(* A file.  The linker placed it at an address; a word of a segment is     *)
(* given by what it means, so that a value can be written for any address: *)
(* a pointer to an offset of the image, the distance to an offset, or a    *)
(* number.                                                                 *)
Linked(word, offset, address) ==
    (CASE word.kind = "pointer"  -> address + word.n
       [] word.kind = "distance" -> word.n - offset
       [] word.kind = "number"   -> word.n) % WORDS

loadable(file) == {s \in ToSet(file.segments) : s.memsz > 0}

image_start(file) == Min({s.vaddr : s \in loadable(file)})
image_end(file)   == Max({s.vaddr + s.memsz : s \in loadable(file)})
image_size(file)  == image_end(file) - image_start(file)
alignment(file)   == Max({s.align : s \in loadable(file)} \cup {1})

acceptable(file) ==
    /\ loadable(file) # {}
    /\ image_start(file) <= file.entry /\ file.entry < image_end(file)

(* The entries of the sections that are in RAM; debug sections keep theirs *)
(* in the file.                                                            *)
relocations(file) == {e \in file.relocations : e.alloc}

(* What the linker sees to in a file whose headers are accepted: segments  *)
(* lie apart and below the top of the address space; a word that is an     *)
(* address in the image, or of its end, has an ABS32 entry; any other word *)
(* that has one, the zeroes behind a segment's words included, does not    *)
(* look like such an address.                                              *)
FileWord    == [kind : {"pointer", "distance", "number"}, n : Int]
FileSegment == [vaddr : Nat, words : Seq(FileWord), memsz : Nat, align : Nat]

IsPointer(s, i) == i <= Len(s.words) /\ s.words[i].kind = "pointer"

Value(s, i, file, address) ==
    IF i <= Len(s.words)
    THEN Linked(s.words[i], s.vaddr - image_start(file) + i - 1, address)
    ELSE 0

WellLinked(file) ==
    /\ file.segments \in Seq(FileSegment)
    /\ \A k, l \in DOMAIN file.segments :
         LET s == file.segments[k]  z == file.segments[l] IN
         k # l /\ s.memsz > 0 /\ z.memsz > 0 =>
             s.vaddr + s.memsz <= z.vaddr \/ z.vaddr + z.memsz <= s.vaddr
    /\ \A s \in loadable(file) :
         /\ s.vaddr + s.memsz < WORDS /\ Len(s.words) <= s.memsz
         /\ \A i \in 1 .. s.memsz :
              LET listed == \E e \in relocations(file) :
                               e.type = "ABS32" /\ e.offset = s.vaddr + i - 1
              IN  IF IsPointer(s, i)
                  THEN listed /\ s.words[i].n \in 0 .. image_size(file)
                  ELSE listed => Value(s, i, file, image_start(file))
                                   \notin image_start(file) .. image_end(file)

ASSUME LinkerAssumption ==
    /\ WORDS \in Nat \ {0}
    /\ \A file \in Files : acceptable(file) => WellLinked(file)

(* The words of a loadable segment in RAM: those of the file, then zeroes. *)
loaded(file, s, b, memory) ==
    LET to == b + s.vaddr - image_start(file) IN
    [a \in Address |->
        IF a \notin to .. to + s.memsz - 1 THEN memory[a]
        ELSE IF a - to < Len(s.words)
             THEN Linked(s.words[a - to + 1], a - b, image_start(file))
             ELSE 0]

zeroed(r) == [a \in Address |-> IF a \in extent(r) THEN 0 ELSE ram[a]]
-----------------------------------------------------------------------------
(* exec_main takes a request; command_run sent it.                         *)
request(file, background) ==
    /\ at = "recv"
    /\ at' = "scan"
    /\ job' = [file |-> file, background |-> background, next |-> 1,
               image |-> NULL, id |-> NULL]
    /\ UNCHANGED <<page_used, ram, param_memory, params, apps, abandoned, short>>

(* The headers and the first pass over the segments take no memory.        *)
scan ==
    /\ at = "scan"
    /\ \/ at' = "alloc" /\ acceptable(job.file)
       \/ at' = "recv"
    /\ UNCHANGED <<page_used, ram, job>>

allocate ==
    /\ at = "alloc"
    /\ \/ \E r \in candidates(image_size(job.file), alignment(job.file)) :
            /\ app_memory_alloc(image_size(job.file), alignment(job.file), r)
            /\ ram' = zeroed(r)
            /\ job' = [job EXCEPT !.image = [file |-> job.file, memory |-> r]]
            /\ at' = "copy"
       \/ /\ alloc_fails(image_size(job.file), alignment(job.file))
          /\ at' = "recv"
          /\ UNCHANGED <<ram, job>>

load_error_keeps_pages ==
    /\ at' = "recv"
    /\ ram' = zeroed(job.image.memory)
    /\ UNCHANGED <<page_used, job>>

load_error ==
    /\ at' = "recv"
    /\ app_memory_free(job.image.memory)
    /\ ram' = zeroed(job.image.memory)
    /\ UNCHANGED job

copy_segment ==
    /\ at = "copy"
    /\ \/ /\ job.next <= Len(job.file.segments)
          /\ LET s == job.file.segments[job.next] IN
             \/ /\ s.memsz = 0 /\ UNCHANGED ram
             \/ /\ s.memsz > 0
                /\ ram' = loaded(job.file, s, base(job.image.memory), ram)
          /\ job' = [job EXCEPT !.next = @ + 1]
          /\ UNCHANGED <<at, page_used>>
       \/ job.next <= Len(job.file.segments) /\ load_error
       \/ /\ job.next > Len(job.file.segments)
          /\ at' = "relocate"
          /\ UNCHANGED <<ram, page_used, job>>

unsupported(e, file) ==
    \/ e.type = "other"
    \/ e.type # "NONE" /\ e.offset \notin image_start(file) .. image_end(file) - 1

(* ABS32 words that point into the image, its end included, move with it;  *)
(* a distance between two of its words stays.                              *)
relocated(file, b, memory) ==
    LET start == image_start(file)
        delta == (b - start) % WORDS
        sites == {(b + e.offset - start) : e \in {e \in relocations(file) : e.type = "ABS32"}}
    IN  [a \in Address |->
            IF a \in sites /\ start <= memory[a] /\ memory[a] <= image_end(file)
            THEN (memory[a] + delta) % WORDS
            ELSE memory[a]]

apply_relocations ==
    /\ at = "relocate"
    /\ LET unmoved == base(job.image.memory) = image_start(job.file)
           refused == \E e \in relocations(job.file) : unsupported(e, job.file)
       IN  \/ /\ unmoved \/ ~refused
              /\ ram' = IF unmoved THEN ram
                        ELSE relocated(job.file, base(job.image.memory), ram)
              /\ at' = "param"
              /\ UNCHANGED <<page_used, job>>
           \/ ~unmoved /\ load_error

elf_loader_load ==
    /\ scan \/ allocate \/ copy_segment \/ apply_relocations
    /\ UNCHANGED <<param_memory, params, apps, abandoned, short>>
-----------------------------------------------------------------------------
(* exec_main after a load.  Whether the parameter block was allocated is   *)
(* not looked at: if not, param_memory is still the block of the last run, *)
(* or, on the first run, whatever the stack held.                          *)
Block(page) == [first_page |-> page, page_count |-> 1]

alloc_param_once ==
    \/ /\ param_memory # NULL
       /\ UNCHANGED <<page_used, param_memory, short>>
    \/ /\ param_memory = NULL
       /\ \E r \in candidates(PARAM_SIZE, 1) :
            app_memory_alloc(PARAM_SIZE, 1, r) /\ param_memory' = r.first_page
       /\ UNCHANGED short

alloc_param ==
    \/ \E r \in candidates(PARAM_SIZE, 1) :
         /\ app_memory_alloc(PARAM_SIZE, 1, r)
         /\ param_memory' = r.first_page
         /\ UNCHANGED short
    \/ /\ alloc_fails(PARAM_SIZE, 1)
       /\ short' = TRUE
       /\ UNCHANGED param_memory

make_param ==
    /\ at = "param"
    /\ alloc_param
    /\ \/ /\ param_memory' = NULL
          /\ at' = "wild"
          /\ UNCHANGED <<ram, params>>
       \/ /\ param_memory' # NULL
          /\ at' = "run"
          /\ ram' = [a \in Address |-> IF a \in extent(Block(param_memory')) THEN Wild ELSE ram[a]]
          /\ params' = [p \in DOMAIN params \cup {param_memory'} |->
                 IF p = param_memory'
                 THEN [image |-> job.image, background |-> job.background]
                 ELSE params[p]]
    /\ UNCHANGED <<job, apps, abandoned>>

(* A run that is refused never returns to exec.                            *)
run_app ==
    /\ at = "run"
    /\ \/ \E t \in Threads :
            /\ apps[t] = NULL
            /\ apps' = [apps EXCEPT ![t] = [param |-> param_memory, started |-> FALSE,
                                            image |-> job.image, background |-> job.background]]
            /\ at' = IF job.background THEN "recv" ELSE "await"
            /\ job' = [job EXCEPT !.id = t]
       \/ /\ \A t \in Threads : apps[t] # NULL
          /\ at' = "lost"
          /\ UNCHANGED <<apps, job>>
    /\ UNCHANGED <<page_used, ram, param_memory, params, abandoned, short>>

(* An APPEVENT arrives, from the app's end or a Ctrl-C at any time.        *)
finish_app_unloads_first ==
    \/ /\ at = "await" /\ at' = "kill"
       /\ ram' = zeroed(params[param_memory].image.memory)
       /\ app_memory_free(params[param_memory].image.memory)
       /\ UNCHANGED apps
    \/ /\ at = "kill" /\ at' = "recv"
       /\ apps' = [apps EXCEPT ![job.id] = NULL]
       /\ UNCHANGED <<ram, page_used>>

finish_app ==
    \/ /\ at = "await" /\ at' = "kill"
       /\ UNCHANGED <<apps, ram, page_used>>
    \/ /\ at = "kill" /\ at' = "unload"
       /\ apps' = [apps EXCEPT ![job.id] = NULL]
       /\ UNCHANGED <<ram, page_used>>
    \/ /\ at = "unload" /\ at' = "recv"
       /\ app_memory_free(params[param_memory].image.memory)
       /\ ram' = zeroed(params[param_memory].image.memory)
       /\ UNCHANGED apps

exec_main ==
    \/ make_param
    \/ run_app
    \/ finish_app /\ UNCHANGED <<job, param_memory, params, abandoned, short>>

(* exec_app: the wrapper copies what it needs from the block, then runs    *)
(* the entry.  A background app that returns, or is killed from the shell, *)
(* leaves its image behind.                                                *)
exec_app(t) ==
    /\ at \in {"recv", "await"} /\ apps[t] # NULL
    /\ \/ /\ ~apps[t].started
          /\ apps' = [apps EXCEPT ![t] =
                 [param |-> @.param, started |-> TRUE, image |-> params[@.param].image,
                  background |-> params[@.param].background]]
          /\ UNCHANGED abandoned
       \/ /\ apps[t].background
          /\ apps[t].started \/ at = "recv"
          /\ apps' = [apps EXCEPT ![t] = NULL]
          /\ abandoned' = abandoned \cup pages(apps[t].image.memory)
    /\ UNCHANGED <<page_used, ram, at, job, param_memory, params, short>>

Next ==
    \/ \E file \in Files, background \in BOOLEAN : request(file, background)
    \/ elf_loader_load
    \/ exec_main
    \/ \E t \in Threads : exec_app(t)

Spec == Init /\ [][Next]_lvars
-----------------------------------------------------------------------------
(* The ranges of the variables.  Pages are only taken inside app RAM.      *)
TypeOK ==
    /\ page_used \subseteq Pages
    /\ DOMAIN ram = Address
    /\ at \in {"recv", "scan", "alloc", "copy", "relocate", "param", "run", "await",
              "kill", "unload", "lost", "wild"}
    /\ DOMAIN params \subseteq Pages
    /\ params \in [DOMAIN params -> Param]
    /\ param_memory \in DOMAIN params \cup {NULL}
    /\ apps \in [Threads -> Wrapper \cup {NULL}]
    /\ abandoned \subseteq Pages

(* The properties below hold until an allocation of a parameter block      *)
(* fails; after that exec reuses a block another wrapper may not have read *)
(* yet, and nothing is promised.                                           *)

Loading  == at \notin {"recv", "scan", "alloc"}
InMemory == (IF Loading THEN {job.image.memory} ELSE {})
              \cup {apps[t].image.memory : t \in {u \in Threads : apps[u] # NULL}}

(* Every page in use has one owner: the image being loaded or running, a   *)
(* parameter block (never freed, one page a run), or the image of a        *)
(* background app that is gone (never freed either).  So a load that fails *)
(* gives back what it took, and nothing else is lost (exec.c, load_error). *)
OneOwner ==
    ~short =>
        LET regions == {pages(r) : r \in InMemory} \cup {DOMAIN params, abandoned} IN
        /\ page_used = UNION regions
        /\ \A p, q \in regions : p = q \/ p \cap q = {}

(* What the linker would have written, had it linked the file for where it *)
(* was loaded: pointers into the image, distances, numbers, zeroed rest.   *)
InPlace(image) ==
    LET b == base(image.memory) IN
    \A s \in loadable(image.file) : \A i \in 1 .. s.memsz :
        ram[b + (s.vaddr - image_start(image.file)) + i - 1] = Value(s, i, image.file, b)

(* An image is right when its load is done and stays so for as long as its *)
(* wrapper exists: no other load, block, free or relocation touches it.    *)
Intact ==
    ~short =>
        /\ at \in {"param", "run"} => InPlace(job.image)
        /\ \A t \in Threads : apps[t] # NULL => InPlace(apps[t].image)

(* A wrapper that has not run yet will find in its block the image and the *)
(* kind of run it was made for, however many runs are asked for meanwhile  *)
(* (exec.c 25-27 against 58-64).                                           *)
OwnBlock ==
    ~short => \A t \in Threads : apps[t] # NULL /\ ~apps[t].started =>
        params[apps[t].param] = [image |-> apps[t].image, background |-> apps[t].background]
=============================================================================
