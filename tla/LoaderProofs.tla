------------------------------ MODULE LoaderProofs ------------------------------
(***************************************************************************)
(* Who owns app RAM, for every number of pages and slots and every set of  *)
(* files: types, one owner for each page, and a parameter block for each   *)
(* wrapper that has not run.  And what lies there: images in place.        *)
(*                                                                         *)
(* The three hold together.  A page that is handed out belonged to nobody, *)
(* a page that is given back belongs to the image in hand, and when a      *)
(* foreground app ends, the block names that image because no other run    *)
(* has been asked for meanwhile.                                           *)
(***************************************************************************)
EXTENDS Loader, WellFoundedInduction, NaturalsInduction, TLAPS

(* What TypeOK leaves open of exec's locals: a request is in hand from its *)
(* receipt on, an image from its allocation on, a block from its making on. *)
JobOK ==
    /\ at # "recv" => /\ job = [file |-> job.file, background |-> job.background,
                                next |-> job.next, image |-> job.image, id |-> job.id]
                      /\ job.file \in Files /\ job.background \in BOOLEAN
    /\ at = "alloc" => acceptable(job.file)
    /\ Loading => job.image \in Image
    /\ at \in {"run", "await", "kill", "unload"} => param_memory # NULL
    /\ \A t \in Threads : apps[t] # NULL => apps[t].param \in DOMAIN params

Types == TypeOK /\ JobOK

Live == {t \in Threads : apps[t] # NULL}

owned(t) == pages(apps[t].image.memory)
mine     == pages(job.image.memory)

(* The wrapper exec waits for or is about to kill.                         *)
Fore(t) == at \in {"await", "kill"} /\ job.id = t

(* The block of the last run is that of the image in hand.                 *)
BlockInHand ==
    at \in {"run", "await", "kill", "unload", "lost"} =>
        params[param_memory] = [image |-> job.image, background |-> job.background]

(* Every page in use has an owner.                                         *)
Covered ==
    \A p : p \in page_used <=>
        \/ Loading /\ p \in mine
        \/ \E t \in Live : p \in owned(t)
        \/ p \in DOMAIN params
        \/ p \in abandoned

(* The owners are apart, but that the image of the wrapper that exec waits *)
(* for is still the image in hand.                                         *)
Disjoint ==
    /\ DOMAIN params \cap abandoned = {}
    /\ \A t \in Live : owned(t) \cap (DOMAIN params \cup abandoned) = {}
    /\ \A t, u \in Live : t # u => owned(t) \cap owned(u) = {}
    /\ Loading => mine \cap (DOMAIN params \cup abandoned) = {}
    /\ \A t \in Live : Loading => Fore(t) \/ owned(t) \cap mine = {}

ForeInHand ==
    at \in {"await", "kill"} =>
        /\ job.id \in Live
        /\ apps[job.id].image = job.image /\ ~apps[job.id].background

Owners == BlockInHand /\ Covered /\ Disjoint /\ ForeInHand /\ OwnBlock

IInv == Types /\ (~short => Owners)
---------------------------------------------------------------------------------
USE PageAssumption

(* A non-empty set of naturals has a least element, and if it is bounded a *)
(* greatest one.                                                           *)
LEMMA LeastOne ==
    ASSUME NEW S \in SUBSET Nat, S # {}
    PROVE  Min(S) \in S /\ \A n \in S : Min(S) <= n
<1> DEFINE less == {ss \in Nat \X Nat : ss[1] < ss[2]}
<1>1. IsWellFoundedOn(less, Nat)
  BY NatLessThanWellFounded DEF OpToRel
<1>2. PICK m \in S : \A n \in S : ~(<<n, m>> \in less)
  <2> HIDE DEF less
  <2> QED BY <1>1, WFMin
<1>3. ASSUME NEW n \in S PROVE m <= n
  BY <1>2, m \in Nat, n \in Nat, <<n, m>> \in Nat \X Nat
<1> QED BY <1>3 DEF Min

LEMMA GreatestOne ==
    ASSUME NEW S \in SUBSET Nat, S # {}, NEW bound \in Nat, \A n \in S : n <= bound
    PROVE  Max(S) \in S /\ \A n \in S : n <= Max(S)
<1> DEFINE D == {bound - n : n \in S}
<1>1. D \in SUBSET Nat /\ D # {}
  <2>1. \A n \in S : n \in Nat /\ n <= bound
    OBVIOUS
  <2>2. \A n \in S : bound - n \in Nat
    BY <2>1
  <2> QED BY <2>2
<1>2. PICK d \in D : \A o \in D : d <= o
  <2> HIDE DEF D
  <2> QED BY <1>1, LeastOne
<1>3. PICK m \in S : d = bound - m
  BY <1>2
<1>4. ASSUME NEW n \in S PROVE m >= n
  <2>1. d <= bound - n
    BY <1>2
  <2>2. n \in Nat /\ m \in Nat
    BY <1>3
  <2> QED BY <1>3, <2>1, <2>2
<1> QED BY <1>4 DEF Max

(* Where an accepted file begins and ends.                                 *)
LEMMA Bounds ==
    ASSUME NEW file \in Files, acceptable(file)
    PROVE  /\ image_start(file) \in Nat /\ image_end(file) \in Nat
           /\ image_start(file) < image_end(file) /\ image_end(file) < WORDS
           /\ image_size(file) \in Nat \ {0}
           /\ \A s \in loadable(file) :
                 /\ s \in FileSegment
                 /\ image_start(file) <= s.vaddr /\ s.vaddr + s.memsz <= image_end(file)
<1> DEFINE starts == {s.vaddr : s \in loadable(file)}
           ends   == {s.vaddr + s.memsz : s \in loadable(file)}
<1>1. WellLinked(file) /\ loadable(file) # {} /\ WORDS \in Nat
  BY LinkerAssumption DEF acceptable
<1>2. \A s \in loadable(file) :
         s \in FileSegment /\ s.memsz > 0 /\ s.vaddr + s.memsz < WORDS
  BY <1>1 DEF WellLinked, loadable, ToSet
<1>3. starts \in SUBSET Nat /\ starts # {}
  BY <1>1, <1>2 DEF FileSegment
<1>4. ends \in SUBSET Nat /\ ends # {} /\ \A n \in ends : n <= WORDS
  BY <1>1, <1>2 DEF FileSegment
<1>5. image_start(file) \in starts /\ \A n \in starts : image_start(file) <= n
  BY <1>3, LeastOne DEF image_start
<1>6. image_end(file) \in ends /\ \A n \in ends : n <= image_end(file)
  BY <1>1, <1>4, GreatestOne DEF image_end
<1>7. \A s \in loadable(file) :
         image_start(file) <= s.vaddr /\ s.vaddr + s.memsz <= image_end(file)
  BY <1>5, <1>6
<1>8. image_end(file) < WORDS
  BY <1>2, <1>6
<1>9. image_start(file) < image_end(file)
  <2>1. PICK s \in loadable(file) : TRUE
    BY <1>1
  <2>2. s.vaddr \in Nat /\ s.memsz \in Nat /\ s.memsz > 0
    BY <1>2 DEF FileSegment
  <2>3. image_start(file) <= s.vaddr /\ s.vaddr + s.memsz <= image_end(file)
    BY <1>7
  <2>4. image_start(file) \in Nat /\ image_end(file) \in Nat
    BY <1>3, <1>4, <1>5, <1>6
  <2> QED BY <2>2, <2>3, <2>4
<1>10. image_start(file) \in Nat /\ image_end(file) \in Nat
  BY <1>3, <1>4, <1>5, <1>6
<1>11. image_size(file) \in Nat \ {0}
  BY <1>9, <1>10 DEF image_size
<1> QED BY <1>2, <1>7, <1>8, <1>9, <1>10, <1>11

LEMMA PagesInside ==
    ASSUME NEW r \in Region
    PROVE  pages(r) \subseteq Pages
BY DEF Region, Pages, pages

LEMMA ImagePages ==
    ASSUME NEW image \in Image
    PROVE  image.memory \in Region /\ pages(image.memory) \subseteq Pages
BY PagesInside DEF Image

(* What app_memory_alloc may return: a region inside, of free pages.       *)
LEMMA Chosen ==
    ASSUME NEW size \in Int, NEW al, NEW r \in candidates(size, al)
    PROVE  r \in Region /\ pages(r) \cap page_used = {}
<1>1. required_pages(size) \in Int
  BY DEF required_pages
<1> QED BY <1>1 DEF candidates, Region

(* A parameter block is one page.                                          *)
LEMMA ChosenBlock ==
    ASSUME NEW r \in candidates(PARAM_SIZE, 1)
    PROVE  r.first_page \in Pages /\ pages(r) = {r.first_page} /\ r.first_page \notin page_used
<1>1. r.first_page \in Pages /\ r.page_count = 1 /\ pages(r) \cap page_used = {}
  BY ParamAssumption DEF candidates
<1>2. pages(r) = {r.first_page}
  BY <1>1 DEF pages, Pages
<1> QED BY <1>1, <1>2
---------------------------------------------------------------------------------
(* Types.                                                                  *)
LEMMA RequestTypes ==
    ASSUME Types, NEW file \in Files, NEW background \in BOOLEAN, request(file, background)
    PROVE  Types'
BY DEF Types, TypeOK, JobOK, request, Loading

LEMMA AllocateTypes ==
    ASSUME Types, allocate, UNCHANGED <<param_memory, params, apps, abandoned, short>>
    PROVE  Types'
<1>1. CASE \E r \in candidates(image_size(job.file), alignment(job.file)) :
            /\ page_used' = page_used \cup pages(r)
            /\ ram' = zeroed(r)
            /\ job' = [job EXCEPT !.image = [file |-> job.file, memory |-> r]]
            /\ at' = "copy"
  <2>1. image_size(job.file) \in Int /\ job.file \in Files
    BY Bounds DEF Types, JobOK, allocate
  <2>2. PICK r \in candidates(image_size(job.file), alignment(job.file)) :
            /\ page_used' = page_used \cup pages(r)
            /\ ram' = zeroed(r)
            /\ job' = [job EXCEPT !.image = [file |-> job.file, memory |-> r]]
            /\ at' = "copy"
    BY <1>1
  <2>3. r \in Region /\ pages(r) \subseteq Pages
    BY <2>1, Chosen, PagesInside
  <2>4. TypeOK'
    BY <2>2, <2>3 DEF Types, TypeOK, zeroed
  <2>5. JobOK'
    BY <2>1, <2>2, <2>3 DEF Types, JobOK, Loading, Image, allocate
  <2> QED BY <2>4, <2>5 DEF Types
<1>2. CASE at' = "recv" /\ UNCHANGED <<page_used, ram, job>>
  BY <1>2 DEF Types, TypeOK, JobOK, Loading
<1> QED BY <1>1, <1>2 DEF allocate, app_memory_alloc, alloc_fails

LEMMA LoadErrorTypes ==
    ASSUME Types, load_error, UNCHANGED <<param_memory, params, apps, abandoned, short>>
    PROVE  Types'
BY DEF Types, TypeOK, JobOK, Loading, load_error, app_memory_free, zeroed

(* The other steps of a load take and give back no page.                   *)
LEMMA LoadTypes ==
    ASSUME Types, elf_loader_load
    PROVE  Types'
<1> USE DEF elf_loader_load
<1>1. CASE scan
  BY <1>1 DEF scan, Types, TypeOK, JobOK, Loading
<1>2. CASE allocate
  BY <1>2, AllocateTypes
<1>3. CASE load_error
  BY <1>3, LoadErrorTypes
<1>4. ASSUME at \in {"copy", "relocate"}, at' \in {"copy", "relocate", "param"},
             DOMAIN ram' = Address, UNCHANGED page_used,
             job' = job \/ job' = [job EXCEPT !.next = @ + 1]
      PROVE  Types'
  BY <1>4 DEF Types, TypeOK, JobOK, Loading
<1>5. CASE copy_segment
  BY <1>3, <1>4, <1>5 DEF copy_segment, loaded, Types, TypeOK
<1>6. CASE apply_relocations
  BY <1>3, <1>4, <1>6 DEF apply_relocations, relocated, Types, TypeOK
<1> QED BY <1>1, <1>2, <1>5, <1>6

(* make_param, by whether a block was allocated.                           *)
LEMMA MadeParam ==
    ASSUME Types, make_param
    PROVE  /\ \/ /\ short' = short
                 /\ param_memory' \in Pages \ page_used
                 /\ page_used' = page_used \cup {param_memory'}
              \/ short' /\ UNCHANGED <<page_used, param_memory>>
           /\ \/ at' = "wild" /\ param_memory' = NULL /\ UNCHANGED <<ram, params>>
              \/ /\ at' = "run" /\ param_memory' # NULL
                 /\ DOMAIN ram' = Address
                 /\ params' = [p \in DOMAIN params \cup {param_memory'} |->
                        IF p = param_memory'
                        THEN [image |-> job.image, background |-> job.background]
                        ELSE params[p]]
<1>1. \/ /\ short' = short
         /\ param_memory' \in Pages \ page_used
         /\ page_used' = page_used \cup {param_memory'}
      \/ short' /\ UNCHANGED <<page_used, param_memory>>
  BY ChosenBlock DEF make_param, alloc_param, app_memory_alloc, alloc_fails
<1> QED BY <1>1 DEF make_param

LEMMA MakeParamTypes ==
    ASSUME Types, make_param
    PROVE  Types'
<1>1. job.image \in Image /\ job.background \in BOOLEAN
  BY DEF Types, JobOK, Loading, make_param
<1>2. UNCHANGED <<job, apps, abandoned>>
  BY DEF make_param
<1>3. page_used' \subseteq Pages /\ param_memory' \in Pages \cup {NULL}
  BY MadeParam DEF Types, TypeOK
<1>4. CASE at' = "wild" /\ param_memory' = NULL /\ UNCHANGED <<ram, params>>
  BY <1>1, <1>2, <1>3, <1>4 DEF Types, TypeOK, JobOK, Loading, make_param
<1>5. CASE /\ at' = "run" /\ param_memory' # NULL
           /\ DOMAIN ram' = Address
           /\ params' = [p \in DOMAIN params \cup {param_memory'} |->
                  IF p = param_memory'
                  THEN [image |-> job.image, background |-> job.background]
                  ELSE params[p]]
  <2>1. /\ DOMAIN params' = DOMAIN params \cup {param_memory'}
        /\ DOMAIN params' \subseteq Pages
    BY <1>3, <1>5 DEF Types, TypeOK
  <2>2. params' \in [DOMAIN params' -> Param]
    BY <1>1, <1>5, <2>1 DEF Types, TypeOK, Param
  <2>3. TypeOK'
    BY <1>2, <1>3, <1>5, <2>1, <2>2 DEF Types, TypeOK
  <2>4. JobOK'
    BY <1>1, <1>2, <1>5, <2>1 DEF Types, JobOK, Loading, make_param
  <2> QED BY <2>3, <2>4 DEF Types
<1> QED BY <1>4, <1>5, MadeParam

LEMMA RunAppTypes ==
    ASSUME Types, run_app
    PROVE  Types'
<1>1. param_memory \in DOMAIN params /\ param_memory \in Pages
  BY DEF Types, TypeOK, JobOK, run_app
<1>2. job.image \in Image /\ job.background \in BOOLEAN
  BY DEF Types, JobOK, Loading, run_app
<1>3. CASE \E t \in Threads :
            /\ apps[t] = NULL
            /\ apps' = [apps EXCEPT ![t] = [param |-> param_memory, started |-> FALSE,
                                            image |-> job.image, background |-> job.background]]
            /\ at' = IF job.background THEN "recv" ELSE "await"
            /\ job' = [job EXCEPT !.id = t]
  <2>1. PICK t \in Threads :
            /\ apps' = [apps EXCEPT ![t] = [param |-> param_memory, started |-> FALSE,
                                            image |-> job.image, background |-> job.background]]
            /\ at' \in {"recv", "await"}
            /\ job' = [job EXCEPT !.id = t]
    BY <1>3
  <2>2. [param |-> param_memory, started |-> FALSE,
         image |-> job.image, background |-> job.background] \in Wrapper
    BY <1>1, <1>2 DEF Wrapper
  <2>3. TypeOK'
    BY <2>1, <2>2 DEF Types, TypeOK, run_app
  <2>4. JobOK'
    BY <1>1, <1>2, <2>1, NullAssumption DEF Types, TypeOK, JobOK, Loading, run_app
  <2> QED BY <2>3, <2>4 DEF Types
<1>4. CASE at' = "lost" /\ UNCHANGED <<apps, job>>
  BY <1>4 DEF Types, TypeOK, JobOK, Loading, run_app
<1> QED BY <1>3, <1>4 DEF run_app

LEMMA FinishTypes ==
    ASSUME Types, finish_app, UNCHANGED <<job, param_memory, params, abandoned, short>>
    PROVE  Types'
<1>1. CASE at = "await" /\ at' = "kill" /\ UNCHANGED <<apps, ram, page_used>>
  BY <1>1 DEF Types, TypeOK, JobOK, Loading
<1>2. CASE /\ at = "kill" /\ at' = "unload"
           /\ apps' = [apps EXCEPT ![job.id] = NULL]
           /\ UNCHANGED <<ram, page_used>>
  BY <1>2 DEF Types, TypeOK, JobOK, Loading
<1>3. CASE /\ at = "unload" /\ at' = "recv"
           /\ app_memory_free(params[param_memory].image.memory)
           /\ ram' = zeroed(params[param_memory].image.memory)
           /\ UNCHANGED apps
  BY <1>3 DEF Types, TypeOK, JobOK, Loading, app_memory_free, zeroed
<1> QED BY <1>1, <1>2, <1>3 DEF finish_app

LEMMA ExecAppTypes ==
    ASSUME Types, NEW t \in Threads, exec_app(t)
    PROVE  Types'
<1>1. apps[t] \in Wrapper /\ apps[t].param \in DOMAIN params
  BY DEF Types, TypeOK, JobOK, exec_app
<1>2. CASE /\ apps' = [apps EXCEPT ![t] =
                  [param |-> apps[t].param, started |-> TRUE,
                   image |-> params[apps[t].param].image,
                   background |-> params[apps[t].param].background]]
           /\ UNCHANGED abandoned
  <2>1. params[apps[t].param] \in Param
    BY <1>1 DEF Types, TypeOK
  <2>3. [param |-> apps[t].param, started |-> TRUE,
         image |-> params[apps[t].param].image,
         background |-> params[apps[t].param].background] \in Wrapper
    BY <1>1, <2>1 DEF Wrapper, Param
  <2>4. TypeOK'
    BY <1>2, <2>3 DEF Types, TypeOK, exec_app
  <2>5. JobOK'
    BY <1>1, <1>2, NullAssumption DEF Types, TypeOK, JobOK, Loading, exec_app
  <2> QED BY <2>4, <2>5 DEF Types
<1>3. CASE /\ apps' = [apps EXCEPT ![t] = NULL]
           /\ abandoned' = abandoned \cup pages(apps[t].image.memory)
  <2>1. pages(apps[t].image.memory) \subseteq Pages
    BY <1>1, ImagePages DEF Wrapper
  <2> QED BY <1>3, <2>1 DEF Types, TypeOK, JobOK, Loading, exec_app
<1> QED BY <1>2, <1>3 DEF exec_app
---------------------------------------------------------------------------------
(* Owners.                                                                 *)
LEMMA NothingInHand ==
    ASSUME Owners, ~Loading, ~Loading', UNCHANGED <<page_used, params, apps, abandoned, short>>
    PROVE  Owners'
<1>1. Live' = Live /\ \A t \in Live : owned(t)' = owned(t)
  BY DEF Live, owned
<1>2. BlockInHand' /\ ForeInHand'
  BY DEF BlockInHand, ForeInHand, Loading
<1>3. OwnBlock'
  BY DEF Owners, OwnBlock
<1>4. Covered'
  BY <1>1 DEF Owners, Covered
<1>5. Disjoint'
  BY <1>1 DEF Owners, Disjoint
<1> QED BY <1>2, <1>3, <1>4, <1>5 DEF Owners

LEMMA StillInHand ==
    ASSUME Owners, Loading, at \in {"copy", "relocate"}, at' \in {"copy", "relocate", "param"},
           job'.image = job.image, UNCHANGED <<page_used, params, apps, abandoned, short>>
    PROVE  Owners'
<1>1. /\ Live' = Live /\ \A t \in Live : owned(t)' = owned(t)
      /\ mine' = mine /\ Loading'
  BY DEF Live, owned, mine, Loading
<1>2. BlockInHand' /\ ForeInHand'
  BY DEF BlockInHand, ForeInHand
<1>3. OwnBlock'
  BY DEF Owners, OwnBlock
<1>4. Covered'
  BY <1>1 DEF Owners, Covered
<1>5. Disjoint'
  BY <1>1 DEF Owners, Disjoint, Fore
<1> QED BY <1>2, <1>3, <1>4, <1>5 DEF Owners

(* Free pages belong to nobody, so an image made of them is apart.         *)
LEMMA AllocateOwners ==
    ASSUME Types, ~short => Owners, allocate,
           UNCHANGED <<param_memory, params, apps, abandoned, short>>, ~short
    PROVE  Owners'
<1>0. Owners
  OBVIOUS
<1>1. CASE at' = "recv" /\ UNCHANGED <<page_used, ram, job>>
  BY <1>0, <1>1, NothingInHand DEF allocate, Loading
<1>2. CASE \E r \in candidates(image_size(job.file), alignment(job.file)) :
            /\ page_used' = page_used \cup pages(r)
            /\ ram' = zeroed(r)
            /\ job' = [job EXCEPT !.image = [file |-> job.file, memory |-> r]]
            /\ at' = "copy"
  <2>1. image_size(job.file) \in Int
    BY Bounds DEF Types, JobOK, allocate
  <2>2. PICK r \in candidates(image_size(job.file), alignment(job.file)) :
            /\ page_used' = page_used \cup pages(r)
            /\ job' = [job EXCEPT !.image = [file |-> job.file, memory |-> r]]
            /\ at' = "copy"
    BY <1>2
  <2>3. pages(r) \cap page_used = {}
    BY <2>1, Chosen
  <2>4. mine' = pages(r) /\ Loading' /\ ~Loading
    BY <2>2 DEF mine, Loading, Types, JobOK, allocate
  <2>5. \A t \in Live : owned(t) \subseteq page_used
    BY <1>0 DEF Owners, Covered
  <2>6. DOMAIN params \subseteq page_used /\ abandoned \subseteq page_used
    BY <1>0 DEF Owners, Covered
  <2>7. Live' = Live /\ \A t \in Live : owned(t)' = owned(t)
    BY DEF Live, owned
  <2>8. Covered'
    BY <1>0, <2>2, <2>4, <2>7 DEF Owners, Covered
  <2>9. Disjoint'
    BY <1>0, <2>3, <2>4, <2>5, <2>6, <2>7 DEF Owners, Disjoint
  <2>10. BlockInHand' /\ ForeInHand' /\ OwnBlock'
    BY <1>0, <2>2 DEF Owners, BlockInHand, ForeInHand, OwnBlock
  <2> QED BY <2>8, <2>9, <2>10 DEF Owners
<1> QED BY <1>1, <1>2 DEF allocate, app_memory_alloc, alloc_fails

(* A failed load gives back its own pages and no others.                   *)
LEMMA LoadErrorOwners ==
    ASSUME Owners, at \in {"copy", "relocate"}, load_error,
           UNCHANGED <<params, apps, abandoned, short>>
    PROVE  Owners'
<1>1. page_used' = page_used \ mine /\ Loading /\ ~Loading' /\ at' = "recv"
  BY DEF load_error, app_memory_free, mine, Loading
<1>2. Live' = Live /\ \A t \in Live : owned(t)' = owned(t)
  BY DEF Live, owned
<1>3. \A t \in Live : owned(t) \cap mine = {}
  BY <1>1 DEF Owners, Disjoint, Fore
<1>4. mine \cap (DOMAIN params \cup abandoned) = {}
  BY <1>1 DEF Owners, Disjoint
<1>5. Covered'
  BY <1>1, <1>2, <1>3, <1>4 DEF Owners, Covered
<1>6. Disjoint'
  BY <1>1, <1>2 DEF Owners, Disjoint
<1>7. BlockInHand' /\ ForeInHand' /\ OwnBlock'
  BY <1>1 DEF Owners, BlockInHand, ForeInHand, OwnBlock
<1> QED BY <1>5, <1>6, <1>7 DEF Owners

LEMMA LoadOwners ==
    ASSUME Types, ~short => Owners, elf_loader_load, ~short'
    PROVE  Owners'
<1>0. Owners /\ ~short /\ UNCHANGED <<param_memory, params, apps, abandoned, short>>
  BY DEF elf_loader_load
<1>1. CASE scan
  BY <1>0, <1>1, NothingInHand DEF scan, Loading
<1>2. CASE allocate
  BY <1>0, <1>2, AllocateOwners
<1>3. CASE at \in {"copy", "relocate"} /\ load_error
  BY <1>0, <1>3, LoadErrorOwners
<1>4. CASE /\ at \in {"copy", "relocate"} /\ at' \in {"copy", "relocate", "param"}
           /\ UNCHANGED page_used
           /\ job' = job \/ job' = [job EXCEPT !.next = @ + 1]
  <2>1. job'.image = job.image /\ Loading
    BY <1>4 DEF Types, JobOK, Loading
  <2> QED BY <1>0, <1>4, <2>1, StillInHand
<1>5. CASE copy_segment
  BY <1>3, <1>4, <1>5 DEF copy_segment
<1>6. CASE apply_relocations
  BY <1>3, <1>4, <1>6 DEF apply_relocations
<1> QED BY <1>1, <1>2, <1>5, <1>6 DEF elf_loader_load

(* The block is a page of its own, and names the image in hand.            *)
LEMMA MakeParamOwners ==
    ASSUME Types, ~short => Owners, make_param, ~short'
    PROVE  Owners'
<1>1. /\ short' = short /\ ~short
      /\ param_memory' \in Pages \ page_used
      /\ page_used' = page_used \cup {param_memory'}
  BY MadeParam DEF Types, TypeOK
<1>2. param_memory' # NULL
  BY <1>1, NullAssumption
<1>3. /\ at = "param" /\ at' = "run"
      /\ params' = [p \in DOMAIN params \cup {param_memory'} |->
                        IF p = param_memory'
                        THEN [image |-> job.image, background |-> job.background]
                        ELSE params[p]]
  BY <1>2, MadeParam DEF make_param
<1>4. UNCHANGED <<job, apps, abandoned>>
  BY DEF make_param
<1>5. /\ Live' = Live /\ \A t \in Live : owned(t)' = owned(t)
      /\ mine' = mine /\ Loading /\ Loading'
  BY <1>3, <1>4 DEF Live, owned, mine, Loading
<1>6. /\ DOMAIN params' = DOMAIN params \cup {param_memory'}
      /\ DOMAIN params \subseteq page_used /\ abandoned \subseteq page_used
      /\ mine \subseteq page_used /\ \A t \in Live : owned(t) \subseteq page_used
  BY <1>1, <1>3, <1>5 DEF Owners, Covered
<1>7. Covered'
  BY <1>1, <1>4, <1>5, <1>6 DEF Owners, Covered
<1>8. Disjoint'
  BY <1>1, <1>3, <1>4, <1>5, <1>6 DEF Owners, Disjoint, Fore
<1>9. BlockInHand' /\ ForeInHand'
  BY <1>3, <1>4 DEF BlockInHand, ForeInHand
<1>10. OwnBlock'
  BY <1>1, <1>3, <1>4, <1>6 DEF Types, JobOK, Owners, OwnBlock
<1> QED BY <1>1, <1>7, <1>8, <1>9, <1>10 DEF Owners

(* The image passes from exec to the wrapper, or is shared while exec      *)
(* waits for it.                                                           *)
LEMMA RunAppOwners ==
    ASSUME Types, ~short => Owners, run_app, ~short'
    PROVE  Owners'
<1>1. /\ Owners /\ ~short /\ at = "run" /\ Loading
      /\ UNCHANGED <<page_used, param_memory, params, abandoned, short>>
  BY DEF run_app, Loading
<1>2. CASE at' = "lost" /\ UNCHANGED <<apps, job>>
  <2>1. /\ Live' = Live /\ \A t \in Live : owned(t)' = owned(t)
        /\ mine' = mine /\ Loading'
    BY <1>2 DEF Live, owned, mine, Loading
  <2>2. Covered'
    BY <1>1, <2>1 DEF Owners, Covered
  <2>3. Disjoint'
    BY <1>1, <2>1 DEF Owners, Disjoint, Fore
  <2>4. BlockInHand' /\ ForeInHand' /\ OwnBlock'
    BY <1>1, <1>2 DEF Owners, BlockInHand, ForeInHand, OwnBlock
  <2> QED BY <2>2, <2>3, <2>4 DEF Owners
<1>3. ASSUME NEW t \in Threads, apps[t] = NULL,
             apps' = [apps EXCEPT ![t] = [param |-> param_memory, started |-> FALSE,
                                          image |-> job.image, background |-> job.background]],
             at' = IF job.background THEN "recv" ELSE "await",
             job' = [job EXCEPT !.id = t]
      PROVE  Owners'
  <2> DEFINE w == [param |-> param_memory, started |-> FALSE,
                   image |-> job.image, background |-> job.background]
  <2>1. w \in Wrapper
    BY <1>1 DEF Types, TypeOK, JobOK, Loading, Wrapper
  <2>2. w # NULL
    BY <2>1, NullAssumption
  <2>3. apps' = [u \in Threads |-> IF u = t THEN w ELSE apps[u]]
    BY <1>3 DEF Types, TypeOK
  <2>4. t \notin Live /\ Live' = Live \cup {t}
    BY <1>3, <2>2, <2>3 DEF Live
  <2>5. owned(t)' = mine /\ \A u \in Live : owned(u)' = owned(u)
    BY <2>3, <2>4 DEF owned, mine, Live
  <2>6. /\ job'.id = t /\ job'.image = job.image /\ mine' = mine
        /\ job.background \in BOOLEAN
        /\ job'.background = job.background
    BY <1>1, <1>3 DEF Types, JobOK, mine
  <2>7. OwnBlock'
    <3>1. params[param_memory] = [image |-> job.image, background |-> job.background]
      BY <1>1 DEF Owners, BlockInHand
    <3>2. SUFFICES ASSUME NEW u \in Threads, apps'[u] # NULL, ~apps'[u].started
                   PROVE  params[apps'[u].param] =
                            [image |-> apps'[u].image, background |-> apps'[u].background]
      BY <1>1 DEF OwnBlock
    <3>3. CASE u = t
      BY <2>3, <3>1, <3>3
    <3>4. CASE u # t
      BY <1>1, <2>3, <3>2, <3>4 DEF Owners, OwnBlock
    <3> QED BY <3>3, <3>4
  <2>8. CASE job.background
    <3>1. at' = "recv" /\ ~Loading'
      BY <1>3, <2>8 DEF Loading
    <3>2. Covered'
      BY <1>1, <2>4, <2>5, <3>1 DEF Owners, Covered
    <3>3. Disjoint'
      BY <1>1, <2>4, <2>5, <3>1 DEF Owners, Disjoint, Fore
    <3>4. BlockInHand' /\ ForeInHand'
      BY <3>1 DEF BlockInHand, ForeInHand
    <3> QED BY <2>7, <3>2, <3>3, <3>4 DEF Owners
  <2>9. CASE ~job.background
    <3>1. at' = "await" /\ Loading'
      BY <1>3, <2>9 DEF Loading
    <3>2. Covered'
      BY <1>1, <2>4, <2>5, <2>6, <3>1 DEF Owners, Covered
    <3>3. Disjoint'
      BY <1>1, <2>4, <2>5, <2>6, <3>1 DEF Owners, Disjoint, Fore
    <3>4. BlockInHand'
      BY <1>1, <2>6 DEF Owners, BlockInHand
    <3>5. apps'[t] = w /\ t \in Live'
      BY <2>3, <2>4
    <3>6. ForeInHand'
      BY <2>6, <2>9, <3>5 DEF ForeInHand
    <3> QED BY <2>7, <3>2, <3>3, <3>4, <3>6 DEF Owners
  <2> QED BY <2>8, <2>9
<1> QED BY <1>2, <1>3 DEF run_app

(* A foreground app ends: first the wrapper goes, and only exec holds the  *)
(* image; then the image goes, the one the block of the last run names.    *)
LEMMA FinishOwners ==
    ASSUME Types, ~short => Owners, finish_app,
           UNCHANGED <<job, param_memory, params, abandoned, short>>, ~short'
    PROVE  Owners'
<1>1. Owners /\ ~short /\ mine' = mine
  BY DEF mine
<1>2. CASE at = "await" /\ at' = "kill" /\ UNCHANGED <<apps, ram, page_used>>
  <2>1. /\ Live' = Live /\ \A t \in Live : owned(t)' = owned(t)
        /\ Loading /\ Loading'
    BY <1>2 DEF Live, owned, Loading
  <2>2. Covered'
    BY <1>1, <1>2, <2>1 DEF Owners, Covered
  <2>3. Disjoint'
    BY <1>1, <1>2, <2>1 DEF Owners, Disjoint, Fore
  <2>4. BlockInHand' /\ OwnBlock'
    BY <1>1, <1>2 DEF Owners, BlockInHand, OwnBlock
  <2>5. ForeInHand'
    BY <1>1, <1>2, <2>1 DEF Owners, ForeInHand
  <2> QED BY <2>2, <2>3, <2>4, <2>5 DEF Owners
<1>3. CASE /\ at = "kill" /\ at' = "unload"
           /\ apps' = [apps EXCEPT ![job.id] = NULL]
           /\ UNCHANGED <<ram, page_used>>
  <2>1. /\ job.id \in Live /\ owned(job.id) = mine
        /\ Loading /\ Loading'
    BY <1>1, <1>3 DEF Owners, ForeInHand, owned, mine, Loading
  <2>2. apps' = [u \in Threads |-> IF u = job.id THEN NULL ELSE apps[u]]
    BY <1>3 DEF Types, TypeOK
  <2>3. Live' = Live \ {job.id} /\ \A t \in Live' : owned(t)' = owned(t)
    BY <2>2 DEF Live, owned
  <2>4. Covered'
    BY <1>1, <1>3, <2>1, <2>3 DEF Owners, Covered
  <2>5. Disjoint'
    BY <1>1, <1>3, <2>1, <2>3 DEF Owners, Disjoint, Fore
  <2>6. BlockInHand' /\ ForeInHand'
    BY <1>1, <1>3 DEF Owners, BlockInHand, ForeInHand
  <2>7. OwnBlock'
    BY <1>1, <2>2 DEF Owners, OwnBlock
  <2> QED BY <2>4, <2>5, <2>6, <2>7 DEF Owners
<1>4. CASE /\ at = "unload" /\ at' = "recv"
           /\ app_memory_free(params[param_memory].image.memory)
           /\ UNCHANGED apps
  <2>1. page_used' = page_used \ mine /\ Loading /\ ~Loading'
    BY <1>1, <1>4 DEF Owners, BlockInHand, app_memory_free, mine, Loading
  <2>2. Live' = Live /\ \A t \in Live : owned(t)' = owned(t)
    BY <1>4 DEF Live, owned
  <2>3. \A t \in Live : owned(t) \cap mine = {}
    BY <1>1, <1>4, <2>1 DEF Owners, Disjoint, Fore
  <2>4. mine \cap (DOMAIN params \cup abandoned) = {}
    BY <1>1, <2>1 DEF Owners, Disjoint
  <2>5. Covered'
    BY <1>1, <2>1, <2>2, <2>3, <2>4 DEF Owners, Covered
  <2>6. Disjoint'
    BY <1>1, <2>1, <2>2 DEF Owners, Disjoint
  <2>7. BlockInHand' /\ ForeInHand' /\ OwnBlock'
    BY <1>1, <1>4 DEF Owners, BlockInHand, ForeInHand, OwnBlock
  <2> QED BY <2>5, <2>6, <2>7 DEF Owners
<1> QED BY <1>2, <1>3, <1>4 DEF finish_app

(* A wrapper's own copy is what it was made for; one that goes without     *)
(* being waited for leaves its image to nobody.                            *)
LEMMA ExecAppOwners ==
    ASSUME Types, ~short => Owners, NEW t \in Threads, exec_app(t), ~short'
    PROVE  Owners'
<1>1. /\ Owners /\ ~short /\ t \in Live /\ mine' = mine /\ Loading' = Loading
      /\ UNCHANGED <<page_used, at, job, param_memory, params, short>>
  BY DEF exec_app, Live, mine, Loading
<1>2. apps[t] \in Wrapper /\ apps \in [Threads -> Wrapper \cup {NULL}]
  BY <1>1 DEF Types, TypeOK, Live
<1>3. ASSUME ~apps[t].started,
             apps' = [apps EXCEPT ![t] =
                  [param |-> apps[t].param, started |-> TRUE,
                   image |-> params[apps[t].param].image,
                   background |-> params[apps[t].param].background]],
             UNCHANGED abandoned
      PROVE  Owners'
  <2> DEFINE w == [param |-> apps[t].param, started |-> TRUE,
                   image |-> apps[t].image, background |-> apps[t].background]
  <2>1. params[apps[t].param] = [image |-> apps[t].image, background |-> apps[t].background]
    BY <1>1, <1>3 DEF Owners, OwnBlock, Live
  <2> HIDE DEF w
  <2>2. apps' = [u \in Threads |-> IF u = t THEN w ELSE apps[u]]
    <3>1. /\ params[apps[t].param].image = apps[t].image
          /\ params[apps[t].param].background = apps[t].background
      BY <2>1
    <3> QED BY <1>2, <1>3, <3>1 DEF w
  <2>3. /\ w \in Wrapper /\ w # NULL
        /\ w.image = apps[t].image /\ w.background = apps[t].background /\ w.started
    <3>1. /\ apps[t].param \in Pages /\ apps[t].image \in Image
          /\ apps[t].background \in BOOLEAN
      BY <1>2 DEF Wrapper
    <3>2. w \in Wrapper
      BY <3>1 DEF Wrapper, w
    <3>3. w # NULL
      BY <3>2, NullAssumption
    <3> QED BY <3>2, <3>3 DEF w
  <2>4. Live' = Live /\ \A u \in Live : /\ apps'[u].image = apps[u].image
                                        /\ apps'[u].background = apps[u].background
    BY <1>1, <2>2, <2>3 DEF Live
  <2>5. \A u \in Live : owned(u)' = owned(u)
    BY <2>4 DEF owned
  <2>6. Covered'
    BY <1>1, <1>3, <2>4, <2>5 DEF Owners, Covered
  <2>7. Disjoint'
    BY <1>1, <1>3, <2>4, <2>5 DEF Owners, Disjoint, Fore
  <2>8. BlockInHand' /\ ForeInHand'
    BY <1>1, <2>4 DEF Owners, BlockInHand, ForeInHand
  <2>9. OwnBlock'
    BY <1>1, <2>2, <2>3 DEF Owners, OwnBlock
  <2> QED BY <2>6, <2>7, <2>8, <2>9 DEF Owners
<1>4. ASSUME apps[t].background, apps' = [apps EXCEPT ![t] = NULL],
             abandoned' = abandoned \cup owned(t)
      PROVE  Owners'
  <2>1. apps' = [u \in Threads |-> IF u = t THEN NULL ELSE apps[u]]
    BY <1>2, <1>4
  <2>2. Live' = Live \ {t} /\ \A u \in Live' : owned(u)' = owned(u)
    BY <2>1 DEF Live, owned
  <2>3. ~Fore(t)
    BY <1>1, <1>4 DEF Owners, ForeInHand, Fore
  <2>4. Covered'
    BY <1>1, <1>4, <2>2 DEF Owners, Covered
  <2>5. Disjoint'
    BY <1>1, <1>4, <2>2, <2>3 DEF Owners, Disjoint, Fore
  <2>6. BlockInHand'
    BY <1>1 DEF Owners, BlockInHand
  <2>7. ForeInHand'
    <3>1. SUFFICES ASSUME at \in {"await", "kill"}
                   PROVE  /\ job.id \in Live' /\ apps'[job.id].image = job.image
                          /\ ~apps'[job.id].background
      BY <1>1 DEF ForeInHand
    <3>2. /\ job.id \in Live /\ apps[job.id].image = job.image
          /\ ~apps[job.id].background
      BY <1>1, <3>1 DEF Owners, ForeInHand
    <3>3. job.id # t
      BY <2>3, <3>1 DEF Fore
    <3>4. apps'[job.id] = apps[job.id]
      BY <2>1, <3>2, <3>3 DEF Live
    <3> QED BY <2>2, <3>2, <3>3, <3>4
  <2>8. OwnBlock'
    BY <1>1, <2>1 DEF Owners, OwnBlock
  <2> QED BY <2>4, <2>5, <2>6, <2>7, <2>8 DEF Owners
<1>5. CASE /\ ~apps[t].started
           /\ apps' = [apps EXCEPT ![t] =
                  [param |-> apps[t].param, started |-> TRUE,
                   image |-> params[apps[t].param].image,
                   background |-> params[apps[t].param].background]]
           /\ UNCHANGED abandoned
  BY <1>3, <1>5
<1>6. CASE /\ apps[t].background
           /\ apps' = [apps EXCEPT ![t] = NULL]
           /\ abandoned' = abandoned \cup pages(apps[t].image.memory)
  BY <1>4, <1>6 DEF owned
<1> QED BY <1>5, <1>6 DEF exec_app

LEMMA RequestOwners ==
    ASSUME ~short => Owners, NEW file, NEW background, request(file, background), ~short'
    PROVE  Owners'
BY NothingInHand DEF request, Loading
---------------------------------------------------------------------------------
LEMMA Initially ==
    ASSUME Init
    PROVE  IInv
<1>1. DOMAIN params = {}
  BY DEF Init
<1>2. Types
  BY <1>1 DEF Init, Types, TypeOK, JobOK, Loading
<1>3. Live = {}
  BY DEF Init, Live
<1>4. Owners
  BY <1>1, <1>3 DEF Init, Owners, BlockInHand, Covered, Disjoint, ForeInHand, OwnBlock, Loading
<1> QED BY <1>2, <1>4 DEF IInv

LEMMA Step ==
    ASSUME IInv, [Next]_lvars
    PROVE  IInv'
<1>0. Types /\ (~short => Owners)
  BY DEF IInv
<1>1. ASSUME NEW file \in Files, NEW background \in BOOLEAN, request(file, background)
      PROVE  IInv'
  BY <1>0, <1>1, RequestTypes, RequestOwners DEF IInv
<1>2. CASE elf_loader_load
  BY <1>0, <1>2, LoadTypes, LoadOwners DEF IInv
<1>3. CASE make_param
  BY <1>0, <1>3, MakeParamTypes, MakeParamOwners DEF IInv
<1>4. CASE run_app
  BY <1>0, <1>4, RunAppTypes, RunAppOwners DEF IInv
<1>5. CASE finish_app /\ UNCHANGED <<job, param_memory, params, abandoned, short>>
  BY <1>0, <1>5, FinishTypes, FinishOwners DEF IInv
<1>6. ASSUME NEW t \in Threads, exec_app(t)
      PROVE  IInv'
  BY <1>0, <1>6, ExecAppTypes, ExecAppOwners DEF IInv
<1>7. CASE UNCHANGED lvars
  <2>1. Types'
    BY <1>0, <1>7 DEF lvars, Types, TypeOK, JobOK, Loading
  <2>2. Owners' = Owners
    BY <1>7 DEF lvars, Owners, BlockInHand, Covered, Disjoint, ForeInHand, OwnBlock,
                Loading, Live, Fore, owned, mine
  <2> QED BY <1>0, <1>7, <2>1, <2>2 DEF IInv, lvars
<1> QED BY <1>1, <1>2, <1>3, <1>4, <1>5, <1>6, <1>7 DEF Next, exec_main

LEMMA Invariance == Spec => []IInv
<1>1. Init => IInv
  BY Initially
<1>2. IInv /\ [Next]_lvars => IInv'
  BY Step
<1> QED BY <1>1, <1>2, PTL DEF Spec

(* Covered and Disjoint say what OneOwner says by regions.                 *)
LEMMA ByRegions ==
    ASSUME IInv
    PROVE  OneOwner
<1> DEFINE regions == {pages(r) : r \in InMemory} \cup {DOMAIN params, abandoned}
<1>1. SUFFICES ASSUME Owners
               PROVE  /\ page_used = UNION regions
                      /\ \A p, q \in regions : p = q \/ p \cap q = {}
  BY DEF IInv, OneOwner
<1>2. \A p : p \in regions <=> \/ Loading /\ p = mine
                               \/ \E t \in Live : p = owned(t)
                               \/ p = DOMAIN params
                               \/ p = abandoned
  BY DEF InMemory, Live, mine, owned
<1>3. page_used = UNION regions
  <2>1. \A p : p \in UNION regions <=>
            \/ Loading /\ p \in mine
            \/ \E t \in Live : p \in owned(t)
            \/ p \in DOMAIN params
            \/ p \in abandoned
    BY <1>2
  <2> QED BY <1>1, <2>1 DEF Owners, Covered
<1>4. \A t \in Live : Fore(t) => owned(t) = mine
  BY <1>1 DEF Owners, ForeInHand, Fore, owned, mine
<1>5. \A p, q \in regions : p = q \/ p \cap q = {}
  BY <1>1, <1>2, <1>4 DEF Owners, Disjoint
<1> QED BY <1>3, <1>5

(* Every variable keeps its type: in particular every page taken is a page *)
(* of app RAM, and the block exec keeps, like that of each wrapper, is one *)
(* that was written (app_memory.c, exec.c).                                *)
THEOREM TypeCorrect == Spec => []TypeOK
<1>1. IInv => TypeOK
  BY DEF IInv, Types
<1> QED BY <1>1, Invariance, PTL

(* Every page in use has exactly one owner, whatever loads fail, apps end  *)
(* and in whatever order, until a parameter block cannot be allocated:     *)
(* no load takes pages of another app, none is freed twice, and only the   *)
(* blocks and the images of ended background apps are lost (app_memory.c,  *)
(* elf_loader.c load_error, exec.c).                                       *)
THEOREM PagesOwned == Spec => []OneOwner
<1>1. IInv => OneOwner
  BY ByRegions
<1> QED BY <1>1, Invariance, PTL

(* A wrapper that has not run finds in its block the image and the kind of *)
(* run it was made for, however many runs follow it (exec.c 25-27, 58-64). *)
THEOREM BlocksKept == Spec => []OwnBlock
<1>1. IInv => OwnBlock
  BY DEF IInv, Owners, OwnBlock
<1> QED BY <1>1, Invariance, PTL
---------------------------------------------------------------------------------
(* What RAM holds.                                                         *)
(* Division with a remainder, for any modulus.                             *)
LEMMA Remainder ==
    ASSUME NEW w \in Nat \ {0}, NEW x \in Int
    PROVE  x \div w \in Int /\ x % w \in 0 .. w - 1 /\ x = (w * (x \div w)) + (x % w)
OBVIOUS

LEMMA OneRemainder ==
    ASSUME NEW w \in Nat \ {0}, NEW k \in Int, NEW l \in Int,
           NEW r \in 0 .. w - 1, NEW q \in 0 .. w - 1, (w * k) + r = (w * l) + q
    PROVE  r = q
<1>1. CASE k < l
  <2>1. (w * k) + w <= w * l
    BY <1>1
  <2> QED BY <2>1
<1>2. CASE k > l
  <2>1. (w * l) + w <= w * k
    BY <1>2
  <2> QED BY <2>1
<1>3. CASE k = l
  BY <1>3
<1> QED BY <1>1, <1>2, <1>3

(* Moving by a distance that has wrapped.                                  *)
LEMMA MovedBy ==
    ASSUME NEW w \in Nat \ {0}, NEW x \in Int, NEW y \in Int
    PROVE  (x + (y % w)) % w = (x + y) % w
<1>1. PICK k \in Int, r \in Int : y = (w * k) + r /\ r = y % w
  <2>1. y \div w \in Int /\ y % w \in 0 .. w - 1 /\ y = (w * (y \div w)) + (y % w)
    BY Remainder
  <2> QED BY <2>1
<1>2. PICK l \in Int, q \in 0 .. w - 1 : x + r = (w * l) + q /\ q = (x + r) % w
  <2>1. PICK z \in Int : z = x + r
    BY <1>1
  <2>2. z \div w \in Int /\ z % w \in 0 .. w - 1 /\ z = (w * (z \div w)) + (z % w)
    BY Remainder
  <2> QED BY <2>1, <2>2
<1>3. PICK m \in Int, p \in 0 .. w - 1 : x + y = (w * m) + p /\ p = (x + y) % w
  <2>1. PICK z \in Int : z = x + y
    OBVIOUS
  <2>2. z \div w \in Int /\ z % w \in 0 .. w - 1 /\ z = (w * (z \div w)) + (z % w)
    BY Remainder
  <2> QED BY <2>1, <2>2
<1>4. (w * m) + p = (w * (k + l)) + q
  <2>1. PICK wk, wl, wm \in Int : wk = w * k /\ wl = w * l /\ wm = w * m
    BY <1>1, <1>2, <1>3
  <2>2. w * (k + l) = wk + wl
    BY <2>1
  <2>3. y = wk + r /\ x + r = wl + q /\ x + y = wm + p
    BY <1>1, <1>2, <1>3, <2>1
  <2>4. wm + p = (wk + wl) + q
    BY <2>3
  <2> QED BY <2>1, <2>2, <2>4
<1>5. p = q
  <2>1. PICK n \in Int : n = k + l
    OBVIOUS
  <2>2. (w * m) + p = (w * n) + q
    BY <1>4, <2>1
  <2> QED BY <2>2, OneRemainder
<1> QED BY <1>1, <1>2, <1>3, <1>5

LEMMA Small ==
    ASSUME NEW w \in Nat \ {0}, NEW x \in 0 .. w - 1
    PROVE  x % w = x
OBVIOUS

(* The words of a segment of an image are what they would be had the file  *)
(* been linked for an address.                                             *)
Holds(memory, s, image, address) ==
    \A i \in 1 .. s.memsz :
        memory[base(image.memory) + (s.vaddr - image_start(image.file)) + i - 1]
            = Value(s, i, image.file, address)

Right(memory, image) ==
    \A s \in loadable(image.file) : Holds(memory, s, image, base(image.memory))

LEMMA RightIsInPlace ==
    \A image : InPlace(image) <=> Right(ram, image)
BY DEF InPlace, Right, Holds

(* An image whose region is as large as its file asks for.                 *)
Fits(image) ==
    /\ image \in Image /\ acceptable(image.file)
    /\ image.memory.page_count \in Nat \ {0}
    /\ image_size(image.file) <= image.memory.page_count * APP_PAGE_SIZE

LEMMA Sized ==
    ASSUME NEW file \in Files, acceptable(file), NEW al, NEW r \in candidates(image_size(file), al)
    PROVE  Fits([file |-> file, memory |-> r])
<1>1. image_size(file) \in Nat \ {0}
  BY Bounds
<1>2. r \in Region
  BY <1>1, Chosen
<1>3. PICK k \in Int : k = required_pages(image_size(file)) /\ k > 0
                      /\ image_size(file) <= k * APP_PAGE_SIZE
  <2>1. PICK n \in Nat \ {0}, z \in Int : n = image_size(file) /\ z = n + APP_PAGE_SIZE - 1
    BY <1>1
  <2>2. PICK k \in Int, q \in 0 .. APP_PAGE_SIZE - 1 :
          k = z \div APP_PAGE_SIZE /\ z = (APP_PAGE_SIZE * k) + q
    <3>1. /\ z \div APP_PAGE_SIZE \in Int /\ z % APP_PAGE_SIZE \in 0 .. APP_PAGE_SIZE - 1
          /\ z = (APP_PAGE_SIZE * (z \div APP_PAGE_SIZE)) + (z % APP_PAGE_SIZE)
      BY Remainder
    <3> QED BY <3>1
  <2>3. n <= APP_PAGE_SIZE * k
    BY <2>1, <2>2
  <2>4. k > 0
    <3>1. CASE k <= 0
      <4>1. APP_PAGE_SIZE * k <= 0
        BY <3>1
      <4> QED BY <2>1, <2>3, <4>1
    <3> QED BY <3>1
  <2>5. k = required_pages(image_size(file))
    BY <2>1, <2>2 DEF required_pages
  <2>6. APP_PAGE_SIZE * k = k * APP_PAGE_SIZE
    OBVIOUS
  <2> QED BY <2>1, <2>3, <2>4, <2>5, <2>6
<1>4. r.page_count = k
  BY <1>3 DEF candidates
<1> QED BY <1>2, <1>3, <1>4 DEF Fits, Image

(* Regions without a page in common have no word in common.                *)
LEMMA WordsApart ==
    ASSUME NEW r \in Region, NEW q \in Region, pages(r) \cap pages(q) = {},
           r.page_count \in Nat \ {0}, q.page_count \in Nat \ {0}
    PROVE  extent(r) \cap extent(q) = {}
<1>1. PICK f, g, m, n \in Int :
         /\ f = r.first_page /\ g = q.first_page
         /\ m = r.page_count /\ n = q.page_count /\ m > 0 /\ n > 0
  BY DEF Region, Pages
<1>2. f + m <= g \/ g + n <= f
  <2>1. f \in pages(r) /\ g \in pages(q)
    BY <1>1 DEF pages
  <2>2. f \notin g .. g + n - 1 /\ g \notin f .. f + m - 1
    BY <1>1, <2>1 DEF pages
  <2> QED BY <1>1, <2>2
<1>3. PICK fp, gp, mp, np \in Int :
         /\ fp = f * APP_PAGE_SIZE /\ gp = g * APP_PAGE_SIZE
         /\ mp = m * APP_PAGE_SIZE /\ np = n * APP_PAGE_SIZE
         /\ fp + mp <= gp \/ gp + np <= fp
  <2>1. (f + m) * APP_PAGE_SIZE <= g * APP_PAGE_SIZE \/ (g + n) * APP_PAGE_SIZE <= f * APP_PAGE_SIZE
    BY <1>2
  <2>2. /\ (f + m) * APP_PAGE_SIZE = f * APP_PAGE_SIZE + m * APP_PAGE_SIZE
        /\ (g + n) * APP_PAGE_SIZE = g * APP_PAGE_SIZE + n * APP_PAGE_SIZE
    OBVIOUS
  <2> QED BY <2>1, <2>2
<1>4. /\ extent(r) = APP_LOAD_START + fp .. APP_LOAD_START + fp + mp - 1
      /\ extent(q) = APP_LOAD_START + gp .. APP_LOAD_START + gp + np - 1
  BY <1>1, <1>3 DEF extent, base
<1> QED BY <1>3, <1>4

(* The words of an image lie in its region, and that in app RAM.           *)
LEMMA ExtentInside ==
    ASSUME NEW r \in Region, r.page_count \in Nat \ {0}
    PROVE  extent(r) \subseteq Address /\ base(r) \in Nat
<1>1. PICK f, m \in Int :
         f = r.first_page /\ m = r.page_count /\ m > 0 /\ f >= 0 /\ f + m <= APP_PAGE_COUNT
  BY DEF Region, Pages
<1>2. PICK fp, mp, end \in Int :
         /\ fp = f * APP_PAGE_SIZE /\ mp = m * APP_PAGE_SIZE
         /\ end = APP_PAGE_COUNT * APP_PAGE_SIZE
         /\ 0 <= fp /\ fp + mp <= end
  <2>1. /\ 0 <= f * APP_PAGE_SIZE
        /\ (f + m) * APP_PAGE_SIZE <= APP_PAGE_COUNT * APP_PAGE_SIZE
    BY <1>1
  <2>2. (f + m) * APP_PAGE_SIZE = f * APP_PAGE_SIZE + m * APP_PAGE_SIZE
    OBVIOUS
  <2> QED BY <2>1, <2>2
<1>3. /\ base(r) = APP_LOAD_START + fp
      /\ extent(r) = APP_LOAD_START + fp .. APP_LOAD_START + fp + mp - 1
  BY <1>1, <1>2 DEF extent, base
<1>4. Address = APP_LOAD_START .. APP_LOAD_START + end - 1
  BY <1>2 DEF Address
<1> QED BY <1>2, <1>3, <1>4

LEMMA WordsInside ==
    ASSUME NEW image, Fits(image), NEW s \in loadable(image.file), NEW i \in 1 .. s.memsz
    PROVE  base(image.memory) + (s.vaddr - image_start(image.file)) + i - 1
             \in extent(image.memory)
<1>1. /\ image.file \in Files /\ image.memory \in Region
      /\ image.memory.page_count \in Nat \ {0}
      /\ image_size(image.file) <= image.memory.page_count * APP_PAGE_SIZE
  BY DEF Fits, Image
<1>2. PICK v, m, a, b \in Int :
         /\ v = s.vaddr /\ m = s.memsz /\ a = image_start(image.file) /\ b = image_end(image.file)
         /\ a <= v /\ v + m <= b /\ image_size(image.file) = b - a
  BY <1>1, Bounds DEF Fits, FileSegment, image_size
<1>3. PICK c, n \in Int : c = base(image.memory) /\ n = image.memory.page_count * APP_PAGE_SIZE
  BY <1>1, ExtentInside
<1>4. b - a <= n
  BY <1>1, <1>2, <1>3
<1>5. c + (v - a) + i - 1 \in c .. c + n - 1
  BY <1>2, <1>3, <1>4
<1> QED BY <1>2, <1>3, <1>5 DEF extent

(* An image stays right as long as nothing is written into its region.     *)
LEMMA StaysRight ==
    ASSUME NEW memory, NEW after, NEW image, Fits(image), Right(memory, image),
           \A a \in extent(image.memory) : after[a] = memory[a]
    PROVE  Right(after, image)
BY WordsInside DEF Right, Holds

(* What an image that fits says of its file and its region.                *)
LEMMA FileFacts ==
    ASSUME NEW image, Fits(image)
    PROVE  /\ image.file \in Files /\ WellLinked(image.file) /\ WORDS \in Nat \ {0}
           /\ base(image.memory) \in Nat /\ extent(image.memory) \subseteq Address
           /\ \A s \in loadable(image.file) :
                 s.vaddr \in Nat /\ s.memsz \in Nat /\ s.words \in Seq(FileWord)
           /\ image_start(image.file) \in Nat /\ image_end(image.file) \in Nat
BY LinkerAssumption, Bounds, ExtentInside DEF Fits, Image, FileSegment

(* A segment that is copied holds what the file says, for the address it   *)
(* was linked for; no other segment and no other word is touched.          *)
LEMMA CopiedHolds ==
    ASSUME NEW image, Fits(image), NEW memory, NEW k \in DOMAIN image.file.segments,
           NEW s, s = image.file.segments[k], s.memsz > 0, NEW m,
           m = loaded(image.file, s, base(image.memory), memory)
    PROVE  /\ Holds(m, s, image, image_start(image.file))
           /\ \A l \in DOMAIN image.file.segments \ {k} :
                 LET z == image.file.segments[l] IN
                 z.memsz > 0 /\ Holds(memory, z, image, image_start(image.file))
                   => Holds(m, z, image, image_start(image.file))
           /\ \A a \in Address \ extent(image.memory) : m[a] = memory[a]
<1>1. s \in loadable(image.file)
  BY DEF loadable, ToSet
<1>2. PICK b, v, n, st \in Int :
         /\ b = base(image.memory) /\ v = s.vaddr /\ n = s.memsz /\ st = image_start(image.file)
  BY <1>1, FileFacts
<1>3. s.words \in Seq(FileWord) /\ extent(image.memory) \subseteq Address /\ b \in Nat
  BY <1>1, <1>2, FileFacts
<1>4. m = [a \in Address |->
             IF a \notin b + v - st .. b + v - st + n - 1 THEN memory[a]
             ELSE IF a - (b + v - st) < Len(s.words)
                  THEN Linked(s.words[a - (b + v - st) + 1], a - b, st)
                  ELSE 0]
  BY <1>2 DEF loaded
<1>5. \A i \in 1 .. n : b + (v - st) + i - 1 \in extent(image.memory)
  BY <1>1, <1>2, WordsInside
<1>6. Holds(m, s, image, st)
  <2>1. SUFFICES ASSUME NEW i \in 1 .. n
                 PROVE  m[b + (v - st) + i - 1] = Value(s, i, image.file, st)
    BY <1>2 DEF Holds
  <2>2. PICK a \in Address : a = b + (v - st) + i - 1
    BY <1>3, <1>5
  <2>3. /\ a \in b + v - st .. b + v - st + n - 1
        /\ a - (b + v - st) + 1 = i /\ a - b = v - st + i - 1
        /\ (a - (b + v - st) < Len(s.words) <=> i <= Len(s.words))
    BY <1>3, <2>2
  <2>4. m[a] = IF i <= Len(s.words) THEN Linked(s.words[i], v - st + i - 1, st) ELSE 0
    BY <1>4, <2>3
  <2> QED BY <1>2, <2>2, <2>4 DEF Value
<1>7. ASSUME NEW l \in DOMAIN image.file.segments \ {k}, NEW z, z = image.file.segments[l],
             z.memsz > 0, Holds(memory, z, image, st)
      PROVE  Holds(m, z, image, st)
  <2>1. z \in loadable(image.file)
    BY <1>7 DEF loadable, ToSet
  <2>2. PICK w, o \in Int : w = z.vaddr /\ o = z.memsz
    BY <2>1, FileFacts
  <2>3. v + n <= w \/ w + o <= v
    BY <1>2, <1>7, <2>2, FileFacts DEF WellLinked
  <2>4. SUFFICES ASSUME NEW i \in 1 .. o
                 PROVE  m[b + (w - st) + i - 1] = memory[b + (w - st) + i - 1]
    BY <1>2, <1>7, <2>2 DEF Holds
  <2>5. b + (w - st) + i - 1 \in extent(image.memory)
    BY <1>2, <2>1, <2>2, WordsInside
  <2>6. PICK a \in Address : a = b + (w - st) + i - 1
    BY <1>3, <2>5
  <2>7. a \notin b + v - st .. b + v - st + n - 1
    BY <1>2, <2>2, <2>3, <2>6
  <2> QED BY <1>4, <2>6, <2>7
<1>8. ASSUME NEW a \in Address \ extent(image.memory)
      PROVE  m[a] = memory[a]
  <2>1. ASSUME a \in b + v - st .. b + v - st + n - 1
        PROVE  FALSE
    <3>1. a \in Int /\ a - (b + v - st) + 1 \in 1 .. n
      BY <2>1
    <3>2. b + (v - st) + (a - (b + v - st) + 1) - 1 = a
      BY <3>1
    <3> QED BY <1>5, <1>8, <3>1, <3>2
  <2> QED BY <1>4, <2>1
<1> QED BY <1>2, <1>6, <1>7, <1>8

(* Relocation turns an image that holds its file as it was linked into one *)
(* that is right where it lies, and touches no word outside it.            *)
LEMMA PointerMoves ==
    ASSUME NEW image, Fits(image), NEW s \in loadable(image.file), NEW i \in 1 .. s.memsz,
           IsPointer(s, i)
    PROVE  LET st == image_start(image.file)  b == base(image.memory)
               old == Value(s, i, image.file, st)
           IN  /\ st <= old /\ old <= image_end(image.file)
               /\ (old + ((b - st) % WORDS)) % WORDS = Value(s, i, image.file, b)
               /\ \E e \in relocations(image.file) :
                     e.type = "ABS32" /\ e.offset = s.vaddr + i - 1
<1>1. PICK b, st, end, n \in Int :
         /\ b = base(image.memory) /\ st = image_start(image.file) /\ end = image_end(image.file)
         /\ n = s.words[i].n /\ 0 <= n /\ st + n <= end /\ 0 <= st /\ end < WORDS
  <2>1. s.words[i].n \in 0 .. image_size(image.file)
    BY FileFacts DEF WellLinked
  <2>2. /\ image_start(image.file) \in Nat /\ image_end(image.file) \in Nat
        /\ image_size(image.file) = image_end(image.file) - image_start(image.file)
        /\ image_end(image.file) < WORDS
    BY Bounds DEF Fits, Image, image_size
  <2> QED BY <2>1, <2>2, FileFacts
<1>2. \A x : Value(s, i, image.file, x) = (x + n) % WORDS
  BY <1>1 DEF Value, Linked, IsPointer
<1>3. Value(s, i, image.file, st) = st + n
  <2>1. WORDS \in Nat \ {0} /\ st + n \in 0 .. WORDS - 1
    <3>1. WORDS \in Nat \ {0}
      BY FileFacts
    <3>2. st \in Int /\ n \in Int /\ end \in Int
      OBVIOUS
    <3>3. 0 <= st /\ 0 <= n /\ st + n <= end /\ end < WORDS
      BY <1>1
    <3> QED BY ONLY <3>1, <3>2, <3>3
  <2>2. PICK x \in 0 .. WORDS - 1 : x = st + n
    BY <2>1
  <2>3. x % WORDS = x
    BY <2>1, Small
  <2> QED BY <1>2, <2>2, <2>3
<1>4. ((st + n) + ((b - st) % WORDS)) % WORDS = (b + n) % WORDS
  <2>1. PICK x, y \in Int : x = st + n /\ y = b - st
    BY <1>1
  <2>2. (x + (y % WORDS)) % WORDS = (x + y) % WORDS
    BY FileFacts, MovedBy
  <2>3. x + y = b + n
    BY <1>1, <2>1
  <2> QED BY <2>1, <2>2, <2>3
<1>5. \E e \in relocations(image.file) : e.type = "ABS32" /\ e.offset = s.vaddr + i - 1
  BY FileFacts DEF WellLinked
<1> QED BY <1>1, <1>2, <1>3, <1>4, <1>5

LEMMA OthersStay ==
    ASSUME NEW image, Fits(image), NEW s \in loadable(image.file), NEW i \in 1 .. s.memsz,
           ~IsPointer(s, i)
    PROVE  LET st == image_start(image.file)  old == Value(s, i, image.file, st) IN
           /\ old = Value(s, i, image.file, base(image.memory))
           /\ (\E e \in relocations(image.file) : e.type = "ABS32" /\ e.offset = s.vaddr + i - 1)
                => ~(st <= old /\ old <= image_end(image.file))
<1>1. \A x, y : Value(s, i, image.file, x) = Value(s, i, image.file, y)
  <2>1. CASE i <= Len(s.words)
    <3>1. s.words[i].kind \in {"distance", "number"}
      <4>1. s.words[i] \in FileWord
        BY <2>1, FileFacts
      <4> QED BY <2>1, <4>1 DEF FileWord, IsPointer
    <3> QED BY <2>1, <3>1 DEF Value, Linked
  <2>2. CASE ~(i <= Len(s.words))
    BY <2>2 DEF Value
  <2> QED BY <2>1, <2>2
<1>2. Value(s, i, image.file, image_start(image.file)) \in Int
  <2>1. CASE i <= Len(s.words)
    <3>1. s.words[i] \in FileWord /\ s.vaddr \in Int /\ image_start(image.file) \in Int
      BY <2>1, FileFacts
    <3>2. PICK x, y \in Int : x = s.words[i].n /\ y = s.vaddr - image_start(image.file) + i - 1
      BY <3>1 DEF FileWord
    <3>3. Value(s, i, image.file, image_start(image.file))
            = IF s.words[i].kind = "distance" THEN (x - y) % WORDS ELSE x % WORDS
      <4>1. s.words[i].kind \in {"distance", "number"}
        BY <2>1, <3>1 DEF FileWord, IsPointer
      <4> QED BY <2>1, <3>2, <4>1 DEF Value, Linked
    <3>4. (x - y) % WORDS \in Int /\ x % WORDS \in Int
      <4>1. PICK z \in Int : z = x - y
        BY <3>2
      <4>2. WORDS \in Nat \ {0}
        BY FileFacts
      <4>3. z % WORDS \in 0 .. WORDS - 1 /\ x % WORDS \in 0 .. WORDS - 1
        BY <3>2, <4>1, <4>2, Remainder
      <4> QED BY <4>1, <4>2, <4>3
    <3> QED BY <3>3, <3>4
  <2>2. CASE ~(i <= Len(s.words))
    BY <2>2 DEF Value
  <2> QED BY <2>1, <2>2
<1>3. (\E e \in relocations(image.file) : e.type = "ABS32" /\ e.offset = s.vaddr + i - 1)
        => Value(s, i, image.file, image_start(image.file))
             \notin image_start(image.file) .. image_end(image.file)
  BY FileFacts DEF WellLinked
<1>4. image_start(image.file) \in Int /\ image_end(image.file) \in Int
  BY FileFacts
<1> QED BY <1>1, <1>2, <1>3, <1>4

LEMMA RelocatedRight ==
    ASSUME NEW image, Fits(image), NEW memory, NEW m,
           m = relocated(image.file, base(image.memory), memory),
           \A e \in relocations(image.file) : ~unsupported(e, image.file),
           \A s \in loadable(image.file) : Holds(memory, s, image, image_start(image.file))
    PROVE  /\ Right(m, image)
           /\ \A a \in Address \ extent(image.memory) : m[a] = memory[a]
<1>1. PICK b, st, end \in Int :
         b = base(image.memory) /\ st = image_start(image.file) /\ end = image_end(image.file)
  BY FileFacts
<1> DEFINE listed(o) == \E e \in relocations(image.file) : e.type = "ABS32" /\ e.offset = o
           sites == {(b + e.offset - st) : e \in {e \in relocations(image.file) : e.type = "ABS32"}}
<1>2. m = [a \in Address |->
             IF a \in sites /\ st <= memory[a] /\ memory[a] <= end
             THEN (memory[a] + ((b - st) % WORDS)) % WORDS
             ELSE memory[a]]
  BY <1>1 DEF relocated
<1>3. \A e \in relocations(image.file) : e.type = "ABS32" => e.offset \in st .. end - 1
  BY <1>1 DEF unsupported
<1>4. \A o \in Int : b + (o - st) \in sites <=> listed(o)
  <2> TAKE o \in Int
  <2>1. ASSUME b + (o - st) \in sites PROVE listed(o)
    <3>1. PICK e \in relocations(image.file) :
             e.type = "ABS32" /\ b + e.offset - st = b + (o - st)
      BY <2>1
    <3>2. e.offset = o
      BY <1>3, <3>1
    <3> QED BY <3>1, <3>2
  <2>2. ASSUME listed(o) PROVE b + (o - st) \in sites
    <3>1. PICK e \in relocations(image.file) : e.type = "ABS32" /\ e.offset = o
      BY <2>2
    <3>2. b + e.offset - st = b + (o - st)
      BY <3>1
    <3> QED BY <3>1, <3>2
  <2> QED BY <2>1, <2>2
<1> HIDE DEF sites, listed
<1>5. ASSUME NEW s \in loadable(image.file), NEW i \in 1 .. s.memsz
      PROVE  m[b + (s.vaddr - st) + i - 1] = Value(s, i, image.file, b)
  <2>1. PICK o \in Int, a \in Address :
           /\ o = s.vaddr + i - 1
           /\ a = b + (s.vaddr - st) + i - 1 /\ a = b + (o - st)
    <3>1. b + (s.vaddr - st) + i - 1 \in Address
      BY <1>1, FileFacts, WordsInside
    <3>2. s.vaddr \in Int
      BY FileFacts
    <3> QED BY <3>1, <3>2
  <2>2. memory[a] = Value(s, i, image.file, st)
    BY <1>1, <2>1 DEF Holds
  <2>3. a \in sites <=> listed(o)
    BY <1>4, <2>1
  <2>4. CASE IsPointer(s, i)
    <3>1. /\ st <= memory[a] /\ memory[a] <= end /\ listed(o)
          /\ (memory[a] + ((b - st) % WORDS)) % WORDS = Value(s, i, image.file, b)
      BY <1>1, <2>1, <2>2, <2>4, PointerMoves DEF listed
    <3> QED BY <1>2, <2>1, <2>3, <3>1
  <2>5. CASE ~IsPointer(s, i)
    <3>1. /\ memory[a] = Value(s, i, image.file, b)
          /\ listed(o) => ~(st <= memory[a] /\ memory[a] <= end)
      BY <1>1, <2>1, <2>2, <2>5, OthersStay DEF listed
    <3> QED BY <1>2, <2>1, <2>3, <3>1
  <2> QED BY <2>4, <2>5
<1>6. ASSUME NEW a \in Address \ extent(image.memory)
      PROVE  m[a] = memory[a]
  <2>1. a \notin sites
    <3>1. SUFFICES ASSUME NEW e \in relocations(image.file), e.type = "ABS32",
                          a = b + e.offset - st
                   PROVE  FALSE
      BY DEF sites
    <3>2. PICK o \in Int : o = e.offset /\ st <= o /\ o <= end - 1
      BY <1>3, <3>1
    <3>3. PICK n \in Int : /\ n = image.memory.page_count * APP_PAGE_SIZE
                           /\ end - st <= n
                           /\ extent(image.memory) = b .. b + n - 1
      BY <1>1 DEF Fits, extent, image_size
    <3>4. b + o - st \in b .. b + n - 1
      <4>1. b \in Int /\ st \in Int /\ end \in Int /\ n \in Int /\ o \in Int
        OBVIOUS
      <4>2. st <= o /\ o <= end - 1 /\ end - st <= n
        BY <3>2, <3>3
      <4> QED BY ONLY <4>1, <4>2
    <3> QED BY <1>6, <3>1, <3>2, <3>3, <3>4
  <2> QED BY <1>2, <2>1
<1> QED BY <1>1, <1>5, <1>6 DEF Right, Holds

(* The images of wrappers are right, and so is the image in hand from its  *)
(* relocation to its start; until then each segment that has been copied   *)
(* is what it would be at the address the file was linked for.             *)
Copied(next) ==
    \A k \in DOMAIN job.file.segments :
        k < next /\ job.file.segments[k].memsz > 0
          => Holds(ram, job.file.segments[k], job.image, image_start(job.file))

Placed ==
    /\ at \in {"scan", "alloc"} => job.next = 1
    /\ Loading => Fits(job.image) /\ job.image.file = job.file
    /\ at = "copy" => job.next \in Nat \ {0} /\ Copied(job.next)
    /\ at = "relocate" =>
         \A s \in loadable(job.file) : Holds(ram, s, job.image, image_start(job.file))
    /\ at \in {"param", "run"} => Right(ram, job.image)
    /\ \A t \in Live : Fits(apps[t].image) /\ Right(ram, apps[t].image)

(* No wrapper's image is touched by what is written in a region without a  *)
(* page of theirs.                                                         *)
LEMMA WrappersStay ==
    ASSUME \A t \in Live : Fits(apps[t].image) /\ Right(ram, apps[t].image),
           NEW r \in Region, r.page_count \in Nat \ {0},
           \A t \in Live : owned(t) \cap pages(r) = {},
           \A a \in Address \ extent(r) : ram'[a] = ram[a]
    PROVE  \A t \in Live : Right(ram', apps[t].image)
<1> SUFFICES ASSUME NEW t \in Live PROVE Right(ram', apps[t].image)
  OBVIOUS
<1>1. PICK image : image = apps[t].image
  OBVIOUS
<1>2. Fits(image) /\ Right(ram, image) /\ pages(image.memory) \cap pages(r) = {}
  BY <1>1 DEF owned
<1>3. image.memory \in Region /\ image.memory.page_count \in Nat \ {0}
  BY <1>2 DEF Fits, Image
<1>4. extent(image.memory) \subseteq Address /\ extent(image.memory) \cap extent(r) = {}
  BY <1>2, <1>3, WordsApart, ExtentInside
<1>5. \A a \in extent(image.memory) : ram'[a] = ram[a]
  BY <1>4
<1> QED BY <1>1, <1>2, <1>5, StaysRight

LEMMA ZeroedOutside ==
    ASSUME NEW r
    PROVE  \A a \in Address \ extent(r) : zeroed(r)[a] = ram[a]
BY DEF zeroed

LEMMA LoadErrorPlaced ==
    ASSUME Types, Owners, Placed, at \in {"copy", "relocate"}, load_error, UNCHANGED apps
    PROVE  Placed'
<1>1. /\ Fits(job.image) /\ job.image.memory \in Region
      /\ job.image.memory.page_count \in Nat \ {0}
  BY DEF Placed, Loading, Fits, Image
<1>2. \A t \in Live : owned(t) \cap pages(job.image.memory) = {}
  BY DEF Owners, Disjoint, Fore, Loading, mine
<1>3. \A a \in Address \ extent(job.image.memory) : ram'[a] = ram[a]
  BY ZeroedOutside DEF load_error
<1>4. PICK r : r = job.image.memory
  OBVIOUS
<1>5. \A t \in Live : Right(ram', apps[t].image)
  BY <1>1, <1>2, <1>3, <1>4, WrappersStay DEF Placed
<1>6. at' = "recv" /\ ~Loading' /\ Live' = Live
  BY DEF load_error, Loading, Live
<1> QED BY <1>5, <1>6 DEF Placed

LEMMA AllocatePlaced ==
    ASSUME Types, Owners, Placed, allocate, UNCHANGED apps
    PROVE  Placed'
<1>0. Live' = Live
  BY DEF Live
<1>1. CASE at' = "recv" /\ UNCHANGED <<page_used, ram, job>>
  BY <1>0, <1>1 DEF Placed, Loading
<1>2. CASE \E r \in candidates(image_size(job.file), alignment(job.file)) :
            /\ page_used' = page_used \cup pages(r)
            /\ ram' = zeroed(r)
            /\ job' = [job EXCEPT !.image = [file |-> job.file, memory |-> r]]
            /\ at' = "copy"
  <2>1. PICK r \in candidates(image_size(job.file), alignment(job.file)) :
            /\ ram' = zeroed(r)
            /\ job' = [job EXCEPT !.image = [file |-> job.file, memory |-> r]]
            /\ at' = "copy"
    BY <1>2
  <2>2. PICK file, al : file \in Files /\ file = job.file /\ acceptable(file) /\ al = alignment(job.file)
    BY DEF Types, JobOK, allocate
  <2>3. Fits([file |-> file, memory |-> r]) /\ r \in Region /\ pages(r) \cap page_used = {}
    BY <2>1, <2>2, Sized, Chosen, Bounds
  <2>4. r.page_count \in Nat \ {0}
    BY <2>3 DEF Fits
  <2>5. \A t \in Live : owned(t) \cap pages(r) = {}
    BY <2>3 DEF Owners, Covered
  <2>6. \A t \in Live : Right(ram', apps[t].image)
    BY <2>1, <2>3, <2>4, <2>5, WrappersStay, ZeroedOutside DEF Placed
  <2>7. job'.image = [file |-> file, memory |-> r] /\ job'.file = file /\ job'.next = 1
    BY <2>1, <2>2 DEF Types, JobOK, Placed, allocate
  <2>8. Copied(job.next)'
    <3>1. \A k \in DOMAIN file.segments : ~(k < 1)
      BY <2>2, LinkerAssumption DEF WellLinked
    <3> QED BY <2>7, <3>1 DEF Copied
  <2> QED BY <1>0, <2>1, <2>3, <2>6, <2>7, <2>8 DEF Placed
<1> QED BY <1>1, <1>2 DEF allocate, app_memory_alloc, alloc_fails

LEMMA CopyPlaced ==
    ASSUME Types, Owners, Placed, copy_segment, UNCHANGED apps
    PROVE  Placed'
<1>0. Live' = Live
  BY DEF Live
<1>1. /\ at = "copy" /\ Loading /\ Fits(job.image) /\ job.image.file = job.file
      /\ job.next \in Nat \ {0} /\ Copied(job.next) /\ job.file.segments \in Seq(FileSegment)
      /\ job.image.memory \in Region /\ job.image.memory.page_count \in Nat \ {0}
  <2>1. at = "copy" /\ Loading /\ Fits(job.image) /\ job.image.file = job.file
    BY DEF copy_segment, Placed, Loading
  <2> QED BY <2>1, FileFacts DEF Placed, Fits, Image, WellLinked
<1>2. \A t \in Live : owned(t) \cap pages(job.image.memory) = {}
  BY <1>1 DEF Owners, Disjoint, Fore, mine
<1>3. ASSUME job.next <= Len(job.file.segments),
             job' = [job EXCEPT !.next = @ + 1], at' = at,
             \/ job.file.segments[job.next].memsz = 0 /\ UNCHANGED ram
             \/ /\ job.file.segments[job.next].memsz > 0
                /\ ram' = loaded(job.file, job.file.segments[job.next], base(job.image.memory), ram)
      PROVE  Placed'
  <2>1. PICK image, file, k : /\ image = job.image /\ file = job.file /\ k = job.next
                              /\ Fits(image) /\ image.file = file /\ k \in Nat \ {0}
    BY <1>1
  <2>2. job'.image = image /\ job'.file = file /\ job'.next = k + 1 /\ Loading'
    BY <1>1, <1>3, <2>1 DEF Types, JobOK, Loading
  <2>3. \A l \in DOMAIN file.segments : l < k + 1 <=> l < k \/ l = k
    BY <1>1, <2>1
  <2>4. /\ Copied(job.next)'
        /\ \A a \in Address \ extent(image.memory) : ram'[a] = ram[a]
    <3>1. CASE job.file.segments[job.next].memsz = 0 /\ UNCHANGED ram
      BY <1>1, <2>1, <2>2, <2>3, <3>1 DEF Copied
    <3>2. CASE /\ job.file.segments[job.next].memsz > 0
               /\ ram' = loaded(job.file, job.file.segments[job.next], base(job.image.memory), ram)
      <4>1. PICK s : s = file.segments[k]
        OBVIOUS
      <4>2. s.memsz > 0 /\ ram' = loaded(image.file, s, base(image.memory), ram)
        BY <2>1, <3>2, <4>1
      <4>3. k \in DOMAIN image.file.segments
        BY <1>1, <1>3, <2>1
      <4>4. PICK m : m = ram'
        OBVIOUS
      <4>5. /\ Holds(m, s, image, image_start(image.file))
            /\ \A l \in DOMAIN image.file.segments \ {k} :
                 LET z == image.file.segments[l] IN
                 z.memsz > 0 /\ Holds(ram, z, image, image_start(image.file))
                   => Holds(m, z, image, image_start(image.file))
            /\ \A a \in Address \ extent(image.memory) : m[a] = ram[a]
        <5>1. m = loaded(image.file, s, base(image.memory), ram) /\ s = image.file.segments[k]
          BY <2>1, <4>1, <4>2, <4>4
        <5>2. PICK memory : memory = ram
          OBVIOUS
        <5> QED BY <2>1, <4>2, <4>3, <5>1, <5>2, CopiedHolds
      <4>6. \A l \in DOMAIN file.segments : l < k /\ file.segments[l].memsz > 0
               => Holds(ram, file.segments[l], image, image_start(file))
        BY <1>1, <2>1 DEF Copied
      <4>7. \A l \in DOMAIN file.segments : l < k + 1 /\ file.segments[l].memsz > 0
               => Holds(ram', file.segments[l], image, image_start(file))
        BY <2>1, <2>3, <4>1, <4>4, <4>5, <4>6
      <4> QED BY <2>2, <4>4, <4>5, <4>7 DEF Copied
    <3> QED BY <1>3, <3>1, <3>2
  <2>5. PICK r : r = job.image.memory
    OBVIOUS
  <2>6. \A t \in Live : Right(ram', apps[t].image)
    BY <1>1, <1>2, <2>1, <2>4, <2>5, WrappersStay DEF Placed
  <2> QED BY <1>0, <1>1, <1>3, <2>1, <2>2, <2>4, <2>6 DEF Placed
<1>4. CASE /\ job.next > Len(job.file.segments) /\ at' = "relocate"
           /\ UNCHANGED <<ram, page_used, job>>
  <2>1. \A s \in loadable(job.file) : Holds(ram, s, job.image, image_start(job.file))
    <3> TAKE s \in loadable(job.file)
    <3>1. PICK k \in DOMAIN job.file.segments : s = job.file.segments[k] /\ s.memsz > 0
      BY DEF loadable, ToSet
    <3>2. k < job.next
      BY <1>1, <1>4
    <3> QED BY <1>1, <3>1, <3>2 DEF Copied
  <2> QED BY <1>0, <1>1, <1>4, <2>1 DEF Placed, Loading
<1>5. CASE load_error
  BY <1>1, <1>5, LoadErrorPlaced
<1> QED BY <1>3, <1>4, <1>5 DEF copy_segment

LEMMA RelocatePlaced ==
    ASSUME Types, Owners, Placed, apply_relocations, UNCHANGED apps
    PROVE  Placed'
<1>0. Live' = Live
  BY DEF Live
<1>1. /\ at = "relocate" /\ Loading /\ Fits(job.image) /\ job.image.file = job.file
      /\ job.image.memory \in Region /\ job.image.memory.page_count \in Nat \ {0}
      /\ \A s \in loadable(job.file) : Holds(ram, s, job.image, image_start(job.file))
  BY DEF apply_relocations, Placed, Loading, Fits, Image
<1>2. \A t \in Live : owned(t) \cap pages(job.image.memory) = {}
  BY <1>1 DEF Owners, Disjoint, Fore, mine
<1>3. CASE /\ base(job.image.memory) = image_start(job.file) /\ ram' = ram
           /\ at' = "param" /\ job' = job
  <2>1. Right(ram, job.image)
    BY <1>1, <1>3 DEF Right
  <2> QED BY <1>0, <1>1, <1>3, <2>1 DEF Placed, Loading
<1>4. CASE /\ \A e \in relocations(job.file) : ~unsupported(e, job.file)
           /\ ram' = relocated(job.file, base(job.image.memory), ram)
           /\ at' = "param" /\ job' = job
  <2>1. PICK image : image = job.image
    OBVIOUS
  <2>2. /\ Right(ram', image)
        /\ \A a \in Address \ extent(image.memory) : ram'[a] = ram[a]
    BY <1>1, <1>4, <2>1, RelocatedRight
  <2>3. PICK r : r = job.image.memory
    OBVIOUS
  <2>4. \A t \in Live : Right(ram', apps[t].image)
    BY <1>1, <1>2, <2>1, <2>2, <2>3, WrappersStay DEF Placed
  <2> QED BY <1>0, <1>1, <1>4, <2>1, <2>2, <2>4 DEF Placed, Loading
<1>5. CASE load_error
  BY <1>1, <1>5, LoadErrorPlaced
<1> QED BY <1>3, <1>4, <1>5 DEF apply_relocations

LEMMA MakeParamPlaced ==
    ASSUME Types, Owners, Placed, make_param, ~short, ~short'
    PROVE  Placed'
<1>0. /\ Live' = Live /\ apps' = apps /\ job' = job /\ at = "param" /\ Loading
      /\ Fits(job.image) /\ Right(ram, job.image) /\ job.image.file = job.file
  BY DEF Live, make_param, Placed, Loading
<1>1. param_memory' \in Pages \ page_used
  BY MadeParam
<1>2. CASE at' = "wild" /\ UNCHANGED ram
  BY <1>0, <1>2 DEF Placed, Loading
<1>3. CASE /\ at' = "run"
           /\ ram' = [a \in Address |-> IF a \in extent(Block(param_memory')) THEN Wild ELSE ram[a]]
  <2>1. PICK r : r = Block(param_memory')
    OBVIOUS
  <2>2. r \in Region /\ r.page_count \in Nat \ {0} /\ pages(r) = {param_memory'}
    BY <1>1, <2>1 DEF Block, Region, Pages, pages
  <2>3. \A a \in Address \ extent(r) : ram'[a] = ram[a]
    BY <1>3, <2>1
  <2>4. \A t \in Live : owned(t) \cap pages(r) = {}
    BY <1>1, <2>2 DEF Owners, Covered
  <2>5. \A t \in Live : Right(ram', apps[t].image)
    BY <2>2, <2>3, <2>4, WrappersStay DEF Placed
  <2>6. PICK image : image = job.image
    OBVIOUS
  <2>7. mine \cap pages(r) = {}
    BY <1>0, <1>1, <2>2 DEF Owners, Covered
  <2>8. image.memory \in Region /\ image.memory.page_count \in Nat \ {0}
    BY <1>0, <2>6 DEF Fits, Image
  <2>9. /\ extent(image.memory) \subseteq Address
        /\ extent(image.memory) \cap extent(r) = {}
    BY <2>2, <2>6, <2>7, <2>8, WordsApart, ExtentInside DEF mine
  <2>10. Right(ram', image)
    BY <1>0, <2>3, <2>6, <2>9, StaysRight
  <2> QED BY <1>0, <1>3, <2>5, <2>6, <2>10 DEF Placed, Loading
<1> QED BY <1>2, <1>3 DEF make_param

LEMMA RunAppPlaced ==
    ASSUME Types, Owners, Placed, run_app
    PROVE  Placed'
<1>0. /\ at = "run" /\ Loading /\ ram' = ram
      /\ Fits(job.image) /\ Right(ram, job.image) /\ job.image.file = job.file
  BY DEF run_app, Placed, Loading
<1>1. CASE \E t \in Threads :
            /\ apps[t] = NULL
            /\ apps' = [apps EXCEPT ![t] = [param |-> param_memory, started |-> FALSE,
                                            image |-> job.image, background |-> job.background]]
            /\ at' = IF job.background THEN "recv" ELSE "await"
            /\ job' = [job EXCEPT !.id = t]
  <2>1. PICK t \in Threads :
            /\ apps' = [apps EXCEPT ![t] = [param |-> param_memory, started |-> FALSE,
                                            image |-> job.image, background |-> job.background]]
            /\ at' \in {"recv", "await"}
            /\ job' = [job EXCEPT !.id = t]
    BY <1>1
  <2>2. job'.image = job.image /\ job'.file = job.file
    BY <1>0, <2>1 DEF Types, JobOK
  <2>3. \A u \in Threads : apps'[u] = IF u = t THEN [param |-> param_memory, started |-> FALSE,
                                image |-> job.image, background |-> job.background] ELSE apps[u]
    BY <2>1 DEF Types, TypeOK
  <2>4. \A u \in Live' : u \in Threads /\ (u = t \/ u \in Live)
    BY <2>3 DEF Live
  <2>5. \A u \in Live' : Fits(apps'[u].image) /\ Right(ram', apps'[u].image)
    <3> TAKE u \in Live'
    <3>1. PICK image : image = apps'[u].image
      OBVIOUS
    <3>2. image = IF u = t THEN job.image ELSE apps[u].image
      BY <2>3, <2>4, <3>1
    <3>3. Fits(image) /\ Right(ram, image)
      BY <1>0, <2>4, <3>2 DEF Placed
    <3> QED BY <1>0, <3>1, <3>3
  <2> QED BY <1>0, <2>1, <2>2, <2>5 DEF Placed, Loading
<1>2. CASE at' = "lost" /\ UNCHANGED <<apps, job>>
  BY <1>0, <1>2 DEF Placed, Loading, Live
<1> QED BY <1>1, <1>2 DEF run_app

LEMMA FinishPlaced ==
    ASSUME Types, Owners, Placed, finish_app, UNCHANGED job
    PROVE  Placed'
<1>1. CASE at = "await" /\ at' = "kill" /\ UNCHANGED <<apps, ram, page_used>>
  BY <1>1 DEF Placed, Loading, Live
<1>2. CASE /\ at = "kill" /\ at' = "unload"
           /\ apps' = [apps EXCEPT ![job.id] = NULL]
           /\ UNCHANGED <<ram, page_used>>
  <2>1. apps' = [u \in Threads |-> IF u = job.id THEN NULL ELSE apps[u]]
    BY <1>2 DEF Types, TypeOK
  <2>2. Live' \subseteq Live /\ \A u \in Live' : apps'[u] = apps[u]
    BY <2>1 DEF Live
  <2> QED BY <1>2, <2>2 DEF Placed, Loading
<1>3. CASE /\ at = "unload" /\ at' = "recv"
           /\ ram' = zeroed(params[param_memory].image.memory)
           /\ UNCHANGED apps
  <2>1. params[param_memory].image = job.image
    BY <1>3 DEF Owners, BlockInHand
  <2>2. PICK r : r = job.image.memory
    OBVIOUS
  <2>3. r \in Region /\ r.page_count \in Nat \ {0}
    BY <1>3, <2>2 DEF Placed, Loading, Fits, Image
  <2>4. \A t \in Live : owned(t) \cap pages(r) = {}
    BY <1>3, <2>2 DEF Owners, Disjoint, Fore, Loading, mine
  <2>5. \A a \in Address \ extent(r) : ram'[a] = ram[a]
    BY <1>3, <2>1, <2>2, ZeroedOutside
  <2>6. \A t \in Live : Right(ram', apps[t].image)
    BY <2>3, <2>4, <2>5, WrappersStay DEF Placed
  <2> QED BY <1>3, <2>6 DEF Placed, Loading, Live
<1> QED BY <1>1, <1>2, <1>3 DEF finish_app

LEMMA ExecAppPlaced ==
    ASSUME Types, Owners, ~short, Placed, NEW t \in Threads, exec_app(t)
    PROVE  Placed'
<1>1. /\ t \in Live /\ UNCHANGED <<ram, at, job>> /\ apps[t] \in Wrapper
      /\ Loading' = Loading /\ (Copied(job.next))' = Copied(job.next)
  BY DEF exec_app, Live, Types, TypeOK, Loading, Copied
<1>2. \A u \in Live' : u \in Live /\ apps'[u].image = apps[u].image
  <2>1. CASE /\ ~apps[t].started
             /\ apps' = [apps EXCEPT ![t] =
                  [param |-> apps[t].param, started |-> TRUE,
                   image |-> params[apps[t].param].image,
                   background |-> params[apps[t].param].background]]
    <3>1. params[apps[t].param].image = apps[t].image
      <4>1. params[apps[t].param] = [image |-> apps[t].image, background |-> apps[t].background]
        BY <1>1, <2>1 DEF Owners, OwnBlock, Live
      <4> QED BY <4>1
    <3>2. \A u \in Threads : apps'[u] = IF u = t THEN [param |-> apps[t].param, started |-> TRUE,
                   image |-> params[apps[t].param].image,
                   background |-> params[apps[t].param].background] ELSE apps[u]
      BY <2>1 DEF Types, TypeOK
    <3> QED BY <1>1, <3>1, <3>2 DEF Live
  <2>2. CASE apps' = [apps EXCEPT ![t] = NULL]
    BY <2>2 DEF Types, TypeOK, Live
  <2> QED BY <2>1, <2>2 DEF exec_app
<1>3. \A u \in Live' : Fits(apps'[u].image) /\ Right(ram', apps'[u].image)
  BY <1>1, <1>2 DEF Placed
<1> QED BY <1>1, <1>3 DEF Placed

LEMMA PlacedStep ==
    ASSUME IInv, ~short => Placed, [Next]_lvars, ~short'
    PROVE  Placed'
<1>0. Types /\ ~short /\ Owners /\ Placed
  <2>1. ~short
    BY DEF Next, lvars, request, elf_loader_load, exec_main, make_param, alloc_param,
           run_app, exec_app
  <2> QED BY <2>1 DEF IInv
<1>1. ASSUME NEW file \in Files, NEW background \in BOOLEAN, request(file, background)
      PROVE  Placed'
  BY <1>0, <1>1 DEF request, Placed, Loading, Live
<1>2. CASE elf_loader_load
  <2>1. CASE scan
    BY <1>0, <1>2, <2>1 DEF elf_loader_load, scan, Placed, Loading, Live
  <2> QED BY <1>0, <1>2, <2>1, AllocatePlaced, CopyPlaced, RelocatePlaced DEF elf_loader_load
<1>3. CASE make_param
  BY <1>0, <1>3, MakeParamPlaced
<1>4. CASE run_app
  BY <1>0, <1>4, RunAppPlaced
<1>5. CASE finish_app /\ UNCHANGED <<job, param_memory, params, abandoned, short>>
  BY <1>0, <1>5, FinishPlaced
<1>6. ASSUME NEW t \in Threads, exec_app(t)
      PROVE  Placed'
  BY <1>0, <1>6, ExecAppPlaced
<1>7. CASE UNCHANGED lvars
  BY <1>0, <1>7 DEF lvars, Placed, Loading, Live, Copied
<1> QED BY <1>1, <1>2, <1>3, <1>4, <1>5, <1>6, <1>7 DEF Next, exec_main

LEMMA PlacedIntact ==
    ASSUME ~short => Placed
    PROVE  Intact
BY RightIsInPlace DEF Intact, Placed, Live

(* An image that has been loaded is what the linker would have made of its *)
(* file for the place it lies at, from the end of its relocation for as    *)
(* long as its wrapper exists: no load, relocation, block or unload of     *)
(* another app writes into it (elf_loader.c, app_memory.c, exec.c).        *)
THEOREM ImagesIntact == Spec => []Intact
<1>1. Init => IInv /\ (~short => Placed)
  <2> SUFFICES ASSUME Init PROVE IInv /\ Placed
    OBVIOUS
  <2>1. Live = {}
    BY DEF Init, Live
  <2> QED BY <2>1, Initially DEF Init, Placed, Loading
<1>2. IInv /\ (~short => Placed) /\ [Next]_lvars => IInv' /\ (~short => Placed)'
  BY Step, PlacedStep
<1>3. IInv /\ (~short => Placed) => Intact
  BY PlacedIntact
<1> QED BY <1>1, <1>2, <1>3, PTL DEF Spec
=================================================================================
