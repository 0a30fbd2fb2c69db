------------------------------ MODULE Packages ------------------------------
(***************************************************************************)
(* Checker scripts on their way from a folder of the control server        *)
(* through the database (controlserver/db_filesystem.py) to the disk of a  *)
(* worker machine (checker_runner/package_loader.py), and the service rows *)
(* that name a package (controlserver/service_mgr.py).                     *)
(*                                                                         *)
(* A hash stands for the content of a file.  The id of a package is a hash *)
(* of all paths and hashes, so a package is a function from paths to       *)
(* hashes; folders are left out.  Uploaders are requests of the panel,     *)
(* loaders are processes of one machine.                                   *)
(***************************************************************************)
EXTENDS Integers, FiniteSets, Functions

CONSTANTS
  Folders,      (* contents of the script folder: functions path -> hash   *)
  Big,          (* hashes of files for the large file storage              *)
  Uploaders, Loaders,
  MaxEdits,     (* bound: changes of the folder                            *)
  MaxKills      (* bound: loaders killed                                   *)

VARIABLES
  folder,    (* the script folder                                          *)
  files,     (* checker_files: hashes                                      *)
  rows,      (* checker_filesystem: packages (their rows are one commit)   *)
  service,   (* Service.package                                            *)
  up,        (* uploaders: step, what was read so far                      *)
  disk,      (* package -> its folder at the worker                        *)
  part,      (* package -> its folder with the suffix .tmp                 *)
  lfs,       (* large file storage: hash -> "part" or "full"               *)
  lock,      (* the process that holds the file lock, or Nobody            *)
  load,      (* loaders: step, package                                     *)
  edits, kills,
  torn       (* history: a loader was killed while it wrote a large file   *)

pvars == <<folder, files, rows, service, up, disk, part, lfs, lock, load, edits, kills, torn>>

Nobody == "nobody"
Nothing == <<>>

Init ==
  /\ folder \in Folders /\ files = {} /\ rows = {} /\ service = Nothing
  /\ up = [u \in Uploaders |-> [step |-> "idle", read |-> Nothing]]
  /\ disk = Nothing /\ part = Nothing /\ lfs = Nothing /\ lock = Nobody
  /\ load = [l \in Loaders |-> [step |-> "idle", package |-> Nothing]]
  /\ edits = 0 /\ kills = 0 /\ torn = FALSE

Put(f, x, y) == [z \in DOMAIN f \cup {x} |-> IF z = x THEN y ELSE f[z]]
Drop(f, x) == Restrict(f, DOMAIN f \ {x})

(* Somebody works in the script folder, also during an upload.             *)
Edit(f) ==
  /\ edits < MaxEdits /\ f # folder /\ edits' = edits + 1 /\ folder' = f
  /\ UNCHANGED <<files, rows, service, up, disk, part, lfs, lock, load, kills, torn>>

-----------------------------------------------------------------------------
(* packages_update and move_folder_to_package.                             *)

UploadUnchanged == UNCHANGED <<folder, disk, part, lfs, lock, load, edits, kills, torn>>
Upload(u, r) == up' = [up EXCEPT ![u] = r]

UploadStart(u) ==
  /\ up[u].step = "idle" /\ Upload(u, [step |-> "read", read |-> Nothing])
  /\ UploadUnchanged /\ UNCHANGED <<files, rows, service>>

Unread(u) == DOMAIN folder \ DOMAIN up[u].read

(* store_file_in_database: the file is read and looked up.                 *)
Missing(h) == h \notin files

ReadFile(u, p) ==
  /\ up[u].step = "read" /\ p \in Unread(u)
  /\ LET r == Put(up[u].read, p, folder[p])
     IN Upload(u, IF Missing(folder[p]) THEN [step |-> "store", read |-> r, hash |-> folder[p]]
                                           ELSE [step |-> "read", read |-> r])
  /\ UploadUnchanged /\ UNCHANGED <<files, rows, service>>

(* The hash is unique: the second of two commits fails, and its request.   *)
StoreFile(u) ==
  /\ up[u].step = "store"
  /\ IF up[u].hash \in files THEN Upload(u, [step |-> "idle", read |-> Nothing])
                             ELSE Upload(u, [step |-> "read", read |-> up[u].read])
  /\ files' = files \cup {up[u].hash}
  /\ UploadUnchanged /\ UNCHANGED <<rows, service>>

(* All files are read: is the package known?                               *)
LookUpPackage(u) ==
  /\ up[u].step = "read" /\ Unread(u) = {} /\ up[u].read # Nothing
  /\ Upload(u, [step |-> IF up[u].read \in rows THEN "set" ELSE "rows", read |-> up[u].read])
  /\ UploadUnchanged /\ UNCHANGED <<files, rows, service>>

StoreRows(u) ==
  /\ up[u].step = "rows"
  /\ IF up[u].read \in rows THEN Upload(u, [step |-> "idle", read |-> Nothing])
                            ELSE Upload(u, [step |-> "set", read |-> up[u].read])
  /\ rows' = rows \cup {up[u].read}
  /\ UploadUnchanged /\ UNCHANGED <<files, service>>

SetPackage(u) ==
  /\ up[u].step = "set" /\ service' = up[u].read
  /\ Upload(u, [step |-> "idle", read |-> Nothing])
  /\ UploadUnchanged /\ UNCHANGED <<files, rows>>

(* A test run uploads the folder like an update, but only the test's task  *)
(* gets the package; the service keeps its own.                            *)
packages_test(u) ==
  /\ up[u].step = "set" /\ Upload(u, [step |-> "idle", read |-> Nothing])
  /\ UploadUnchanged /\ UNCHANGED <<files, rows, service>>

-----------------------------------------------------------------------------
(* ensure_package_exists and load_package_to_folder.                       *)

LoadUnchanged == UNCHANGED <<folder, files, rows, service, up, edits>>
Load(l, r) == load' = [load EXCEPT ![l] = r]
Idle == [step |-> "idle", package |-> Nothing]

(* A task needs a package: it is on the disk, or the lock is needed.       *)
Need(l, package) ==
  /\ load[l].step = "idle" /\ package \in rows /\ package \notin DOMAIN disk
  /\ Load(l, [step |-> "lock", package |-> package])
  /\ LoadUnchanged /\ UNCHANGED <<disk, part, lfs, lock, kills, torn>>

(* packages_push asks all workers to load the package of the service.      *)
packages_push == {service} \ {Nothing}
preload_packages(l) == \E package \in packages_push : Need(l, package)

(* A checker script runs from the package of the service or of a test, or  *)
(* that of a message that came before the service changed.                 *)
get_checker_class(l) == \E package \in rows : Need(l, package)

(* Mutant: the lock does not exclude other processes.                      *)
LockFreeAlways == TRUE
LockFree == lock = Nobody

Acquire(l) ==
  /\ load[l].step = "lock" /\ LockFree
  /\ IF load[l].package \in DOMAIN disk THEN Load(l, Idle) /\ UNCHANGED <<part, lock>>
     ELSE /\ lock' = l /\ Load(l, [step |-> "copy", package |-> load[l].package, done |-> {}])
          /\ part' = IF load[l].package \in DOMAIN part THEN part ELSE Put(part, load[l].package, Nothing)
  /\ LoadUnchanged /\ UNCHANGED <<disk, lfs, kills, torn>>

Fails(l) == Load(l, Idle) /\ lock' = Nobody

(* One row of the package.  A link that is already there is an error (as   *)
(* is a folder that is gone); a file is written again.                     *)
Copied(l, p, kind) ==
  LET k == load[l].package IN
  IF k \notin DOMAIN part \/ (kind = "link" /\ p \in DOMAIN part[k])
    THEN Fails(l) /\ UNCHANGED part
    ELSE /\ part' = [part EXCEPT ![k] = Put(@, p, [kind |-> kind, hash |-> k[p]])]
         /\ Load(l, [load[l] EXCEPT !.step = "copy", !.done = @ \cup {p}])
         /\ UNCHANGED lock

Todo(l, p) == load[l].step = "copy" /\ p \in DOMAIN load[l].package \ load[l].done

CopyFile(l, p) ==
  /\ Todo(l, p) /\ load[l].package[p] \notin DOMAIN lfs /\ load[l].package[p] \notin Big
  /\ Copied(l, p, "file")
  /\ LoadUnchanged /\ UNCHANGED <<disk, lfs, kills, torn>>

LinkFile(l, p) ==
  /\ Todo(l, p) /\ load[l].package[p] \in DOMAIN lfs /\ Copied(l, p, "link")
  /\ LoadUnchanged /\ UNCHANGED <<disk, lfs, kills, torn>>

(* A large file is created in the storage, written, and then linked.       *)
OpenLarge(l, p) ==
  /\ Todo(l, p) /\ load[l].package[p] \in Big \ DOMAIN lfs
  /\ lfs' = Put(lfs, load[l].package[p], "part")
  /\ Load(l, [step |-> "large", package |-> load[l].package, done |-> load[l].done, path |-> p])
  /\ LoadUnchanged /\ UNCHANGED <<disk, part, lock, kills, torn>>

WriteLarge(l) ==
  /\ load[l].step = "large"
  /\ lfs' = Put(lfs, load[l].package[load[l].path], "full")
  /\ Copied(l, load[l].path, "link")
  /\ LoadUnchanged /\ UNCHANGED <<disk, kills, torn>>

(* os.rename and the end of the lock.                                      *)
Rename(l) ==
  /\ load[l].step = "copy" /\ load[l].done = DOMAIN load[l].package
  /\ LET k == load[l].package IN
     IF k \in DOMAIN part /\ k \notin DOMAIN disk
       THEN disk' = Put(disk, k, part[k]) /\ part' = Drop(part, k)
       ELSE UNCHANGED <<disk, part>>
  /\ Fails(l)
  /\ LoadUnchanged /\ UNCHANGED <<lfs, kills, torn>>

(* A process is killed (time limit, memory); the system frees its lock.    *)
Kill(l) ==
  /\ load[l].step # "idle" /\ kills < MaxKills /\ kills' = kills + 1
  /\ Load(l, Idle) /\ lock' = IF lock = l THEN Nobody ELSE lock
  /\ torn' = (torn \/ load[l].step = "large")
  /\ LoadUnchanged /\ UNCHANGED <<disk, part, lfs>>

Next ==
  \/ \E f \in Folders : Edit(f)
  \/ \E u \in Uploaders :
       \/ UploadStart(u) \/ StoreFile(u) \/ LookUpPackage(u) \/ StoreRows(u) \/ SetPackage(u) \/ packages_test(u)
       \/ \E p \in DOMAIN folder : ReadFile(u, p)
  \/ \E l \in Loaders :
       \/ Acquire(l) \/ WriteLarge(l) \/ Rename(l) \/ Kill(l)
       \/ preload_packages(l) \/ get_checker_class(l)
       \/ \E p \in DOMAIN load[l].package : CopyFile(l, p) \/ LinkFile(l, p) \/ OpenLarge(l, p)

Spec == Init /\ [][Next]_pvars

-----------------------------------------------------------------------------
(* Properties.                                                             *)

TypeOK ==
  /\ folder \in Folders /\ files \subseteq UNION {Range(f) : f \in Folders}
  /\ DOMAIN lfs \subseteq Big /\ lock \in Loaders \cup {Nobody}

(* The package a service names, and every package a worker may be asked    *)
(* for, is in the database with all its files, however requests of the     *)
(* panel overlap with each other and with changes of the folder            *)
(* (move_folder_to_package, store_file_in_database).                       *)
UploadsWhole == (service = Nothing \/ service \in rows) /\ \A k \in rows : Range(k) \subseteq files

(* A package folder that other processes can see has all files of the      *)
(* package, with all their content, unless a process was killed while it   *)
(* wrote a large file (ensure_package_exists, load_package_to_folder).     *)
LoadedWhole ==
  ~torn => \A k \in DOMAIN disk :
    /\ DOMAIN disk[k] = DOMAIN k
    /\ \A p \in DOMAIN k : disk[k][p].hash = k[p] /\ (disk[k][p].kind = "link" => lfs[k[p]] = "full")

(* A package is whole wherever it is: in the database, and in the folders  *)
(* of a worker's host (package_loader.py).                                 *)
PackagesWhole == UploadsWhole /\ LoadedWhole
=============================================================================
