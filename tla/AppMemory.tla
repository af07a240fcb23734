------------------------------ MODULE AppMemory ------------------------------
(***************************************************************************)
(* The allocator of app RAM (app_memory.c): pages of equal size from       *)
(* _app_load_start on, of which a request takes the first free run that    *)
(* starts on its alignment.  Addresses and sizes count words.              *)
(*                                                                         *)
(* Definitions named <function>_<fault> are wrong versions of a function,  *)
(* kept to show which property notices the fault.                          *)
(***************************************************************************)
EXTENDS Integers, FiniteSetsExt

CONSTANTS
    APP_LOAD_START,     \* _app_load_start
    APP_PAGE_SIZE,
    APP_PAGE_COUNT

ASSUME PageAssumption ==
    /\ APP_LOAD_START \in Nat
    /\ APP_PAGE_SIZE \in Nat \ {0}
    /\ APP_PAGE_COUNT \in Nat \ {0}

VARIABLE page_used      \* the pages whose flag is set

Pages   == 0 .. APP_PAGE_COUNT - 1
Address == APP_LOAD_START .. APP_LOAD_START + APP_PAGE_COUNT * APP_PAGE_SIZE - 1

(* A region is [first_page, page_count]; its base and size follow.         *)
base(r)    == APP_LOAD_START + r.first_page * APP_PAGE_SIZE
pages(r)   == r.first_page .. r.first_page + r.page_count - 1
extent(r)  == base(r) .. base(r) + r.page_count * APP_PAGE_SIZE - 1

required_pages(size) == (size + APP_PAGE_SIZE - 1) \div APP_PAGE_SIZE

candidates_past_the_end(size, alignment) ==
    {r \in [first_page : Pages, page_count : {required_pages(size)}] :
        /\ base(r) % alignment = 0
        /\ pages(r) \cap page_used = {}}

(* The runs the loop over first accepts.                                   *)
candidates(size, alignment) ==
    {r \in [first_page : Pages, page_count : {required_pages(size)}] :
        /\ r.first_page + r.page_count <= APP_PAGE_COUNT
        /\ base(r) % alignment = 0
        /\ pages(r) \cap page_used = {}}

(* The region a successful app_memory_alloc returns.                       *)
first_fit(size, alignment) ==
    CHOOSE r \in candidates(size, alignment) :
        \A o \in candidates(size, alignment) : r.first_page <= o.first_page

app_memory_alloc(size, alignment, r) ==
    /\ candidates(size, alignment) # {}
    /\ r = first_fit(size, alignment)
    /\ page_used' = page_used \cup pages(r)

alloc_fails(size, alignment) == candidates(size, alignment) = {} /\ UNCHANGED page_used

app_memory_free(r) == page_used' = page_used \ pages(r)
=============================================================================
