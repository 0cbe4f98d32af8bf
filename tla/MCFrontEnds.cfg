\* The assistant, the API and the stores, safety.
SPECIFICATION Spec
CONSTANTS
    Parts = {"actions", "hooked", "turns", "twoturns", "twin", "admin",
             "notices", "replies", "plain_replies", "keys", "edits", "records",
             "whole", "api", "api_create", "api_talk", "memory", "memory_proposals",
             "memory_limit", "stores", "stores_kept", "locks", "locks_polled", "locks_hooked",
             "files", "files_curated", "files_strict", "files_lax", "migrations"}
INVARIANTS
    TypeOK
    TaskIsApproved
    OneTurnAtATime
    OnceOnly
    DeliveryIsHonest
    RecordsAgree
    ApiIsHonest
    MemoryIsSound
    StoresAreSound
    FilesAreSound
PROPERTIES
    DecisionsStand
    StoresAgree
CHECK_DEADLOCK FALSE
