----------------------------- MODULE FileSystem ------------------------------
(***************************************************************************)
(* Inodes, directories, open files and the system calls on them (fs.c,     *)
(* file.c, sysfile.c, and what fork and exit of proc.c do to them).  A     *)
(* process in a call has the steps still to do in "todo"; a step is what   *)
(* it does between two points where another process can interfere: a       *)
(* section under icache.lock or ftable.lock, or the work on an inode under *)
(* I_BUSY.  The contents of regular files are in FileContent, transactions *)
(* in Log.  A directory is a function from names to inode numbers, 0 for   *)
(* none; an entry of the inode cache is known by the number of its inode.  *)
(***************************************************************************)
EXTENDS Integers, Sequences, FiniteSets, FiniteSetsExt

CONSTANTS Procs,     \* slots of the process table
          NInodes,   \* inodes of the disk are 1 .. NInodes, 1 the root
          Names,     \* names other than "." and ".."
          SysCalls,  \* the system calls made: see Start
          MaxCalls,  \* calls made in all
          Files,     \* the indices of ftable.file
          Fds,       \* the indices of ofile
          None       \* no process or file

VARIABLES dinode, dir,             \* on disk: type and nlink; contents of directories
          ref, busy, valid, inode, \* the inode cache
          ftable,                  \* ref and ip of the open files
          trans,                   \* the process in a transaction
          panic,                   \* the panic that has stopped the system
          live, cwd, ofile,        \* struct proc
          todo, found, left        \* steps to do, result of a lookup, calls left

disk == <<dinode, dir>>
cache == <<ref, busy, valid, inode>>
proc == <<live, cwd, ofile, left>>
vars == <<disk, cache, ftable, trans, panic, proc, todo, found>>

Inums == 1 .. NInodes
AllNames == Names \union {".", ".."}
NoEntries == [n \in AllNames |-> 0]
Free == [type |-> "free", nlink |-> 0]

(* The root has a directory "d" and a file "x"; every process is in it.    *)
Init ==
  /\ dinode = [i \in Inums |->
                 CASE i = 1 -> [type |-> "dir", nlink |-> 2]
                   [] i = 2 -> [type |-> "dir", nlink |-> 1]
                   [] i = 3 -> [type |-> "file", nlink |-> 1]
                   [] OTHER -> Free]
  /\ dir = [i \in Inums |->
              CASE i = 1 -> [NoEntries EXCEPT !["."] = 1, ![".."] = 1, !["d"] = 2, !["x"] = 3]
                [] i = 2 -> [NoEntries EXCEPT !["."] = 2, ![".."] = 1]
                [] OTHER -> NoEntries]
  /\ ref = [i \in Inums |-> IF i = 1 THEN Cardinality(Procs) ELSE 0]
  /\ busy = [i \in Inums |-> FALSE] /\ valid = busy /\ inode = [i \in Inums |-> Free]
  /\ ftable = [f \in Files |-> [ref |-> 0, ip |-> 0]] /\ trans = None /\ panic = "none"
  /\ live = Procs /\ cwd = [p \in Procs |-> 1]
  /\ ofile = [p \in Procs |-> [n \in Fds |-> None]]
  /\ todo = [p \in Procs |-> <<>>] /\ found = [p \in Procs |-> 0]
  /\ left = MaxCalls

-----------------------------------------------------------------------------
(* Steps.  A step names the inodes it works on and what it was given.      *)
Op(o) == [op |-> o, ip |-> 0, dp |-> 0, path |-> <<>>, arg |-> "none"]
Inode(o, i) == [Op(o) EXCEPT !.ip = i]
Both(o, d, i) == [Op(o) EXCEPT !.dp = d, !.ip = i]
Unlockput(i) == <<Inode("iunlock", i), Inode("iput", i)>>

At(p, o) == panic = "none" /\ todo[p] # <<>> /\ Head(todo[p]).op = o
Top(p) == Head(todo[p])

(* The step is done; "steps" come before the ones that were to follow.     *)
Do(p, steps) == todo' = [todo EXCEPT ![p] = steps \o Tail(@)]
(* The call is over but for these steps.                                   *)
Only(p, steps) == todo' = [todo EXCEPT ![p] = steps]

Die(why) ==
  /\ panic' = why /\ UNCHANGED <<disk, cache, ftable, trans, proc, todo, found>>

(* iget and idup: the entry is found, or a free one is taken.              *)
(* Mutant: the entry of an inode in use is not found.                      *)
IgetFresh(i) ==
  /\ ref' = [ref EXCEPT ![i] = 1]
  /\ valid' = [valid EXCEPT ![i] = FALSE]
Iget(i) ==
  /\ ref' = [ref EXCEPT ![i] = @ + 1]
  /\ valid' = [valid EXCEPT ![i] = @ /\ ref[i] > 0]

(* iupdate of the inodes in n, whose in-memory copies become n[i].         *)
Iupdate(n) ==
  /\ inode' = [i \in Inums |-> IF i \in DOMAIN n THEN n[i] ELSE inode[i]]
  /\ dinode' = [i \in Inums |-> IF i \in DOMAIN n THEN n[i] ELSE dinode[i]]

Linked(i, k) == [inode[i] EXCEPT !.nlink = @ + k]

(* dirlookup, without its iget, and the entry that dirlink writes.         *)
Dirlookup(dp, name) == dir[dp][name]
Dirlink(d, dp, name, i) == [d EXCEPT ![dp][name] = i]

-----------------------------------------------------------------------------
BeginTrans(p) ==
  /\ At(p, "begin") /\ trans = None /\ trans' = p /\ Do(p, <<>>)
  /\ UNCHANGED <<disk, cache, ftable, panic, proc, found>>

CommitTrans(p) ==
  /\ At(p, "commit") /\ trans' = None /\ Do(p, <<>>)
  /\ UNCHANGED <<disk, cache, ftable, panic, proc, found>>

(* ilock: a process waits while another one has the inode.                 *)
Ilock(p) ==
  /\ At(p, "ilock")
  /\ LET i == Top(p).ip IN
     IF ref[i] < 1 THEN Die("ilock")
     ELSE /\ ~busy[i]
          /\ IF ~valid[i] /\ dinode[i].type = "free" THEN Die("ilock: no type")
             ELSE /\ inode' = IF valid[i] THEN inode ELSE [inode EXCEPT ![i] = dinode[i]]
                  /\ busy' = [busy EXCEPT ![i] = TRUE] /\ valid' = [valid EXCEPT ![i] = TRUE]
                  /\ Do(p, <<>>)
                  /\ UNCHANGED <<disk, ref, ftable, trans, panic, proc, found>>

Iunlock(p) ==
  /\ At(p, "iunlock")
  /\ LET i == Top(p).ip IN
     IF ~busy[i] \/ ref[i] < 1 THEN Die("iunlock")
     ELSE /\ busy' = [busy EXCEPT ![i] = FALSE] /\ Do(p, <<>>)
          /\ UNCHANGED <<disk, ref, valid, inode, ftable, trans, panic, proc, found>>

(* The last reference to an inode without links: iput frees it.            *)
(* Mutant: the other references are not looked at.                         *)
LastPutAny(i) == valid[i] /\ inode[i].nlink = 0
LastPut(i) == ref[i] = 1 /\ valid[i] /\ inode[i].nlink = 0

Iput(p) ==
  /\ At(p, "iput")
  /\ LET i == Top(p).ip IN
     CASE LastPut(i) /\ busy[i] -> Die("iput busy")
       [] LastPut(i) /\ ~busy[i] ->
            /\ busy' = [busy EXCEPT ![i] = TRUE] /\ Do(p, <<Inode("itrunc", i)>>)
            /\ UNCHANGED <<disk, ref, valid, inode, ftable, trans, panic, proc, found>>
       [] OTHER ->
            /\ ref' = [ref EXCEPT ![i] = @ - 1] /\ Do(p, <<>>)
            /\ UNCHANGED <<disk, busy, valid, inode, ftable, trans, panic, proc, found>>

(* itrunc, and ip->type = 0 with iupdate.  log_write panics when no        *)
(* process is in a transaction.                                            *)
Itrunc(p) ==
  /\ At(p, "itrunc")
  /\ LET i == Top(p).ip IN
     IF trans = None THEN Die("write outside of trans")
     ELSE /\ dir' = [dir EXCEPT ![i] = NoEntries] /\ Do(p, <<Inode("ifree", i)>>)
          /\ UNCHANGED <<dinode, cache, ftable, trans, panic, proc, found>>

Ifree(p) ==
  /\ At(p, "ifree")
  /\ LET i == Top(p).ip IN
     IF trans = None THEN Die("write outside of trans")
     ELSE /\ Iupdate([k \in {i} |-> Free]) /\ Do(p, <<Inode("iputend", i)>>)
          /\ UNCHANGED <<dir, ref, busy, valid, ftable, trans, panic, proc, found>>

IputEnd(p) ==
  /\ At(p, "iputend")
  /\ LET i == Top(p).ip IN
     /\ busy' = [busy EXCEPT ![i] = FALSE] /\ valid' = [valid EXCEPT ![i] = FALSE]
     /\ ref' = [ref EXCEPT ![i] = @ - 1]
  /\ Do(p, <<>>)
  /\ UNCHANGED <<disk, inode, ftable, trans, panic, proc, found>>

-----------------------------------------------------------------------------
(* namex.  path: an absolute one begins with "/".  arg: "parent" when the  *)
(* last element is left to the caller.                                     *)
Namei(path, arg) == [Op("namei") EXCEPT !.path = path, !.arg = arg]
Look(i, path, arg) == [Op("look") EXCEPT !.ip = i, !.path = path, !.arg = arg]

(* The inode that namei or create returns; 0 again once the caller has it. *)
Found(p, i) == found' = [found EXCEPT ![p] = i]

NameiStart(p) ==
  /\ At(p, "namei")
  /\ LET abs == Top(p).path # <<>> /\ Head(Top(p).path) = "/"
         i == IF abs THEN 1 ELSE cwd[p]
         path == IF abs THEN Tail(Top(p).path) ELSE Top(p).path
     IN /\ Iget(i) /\ Found(p, IF path = <<>> /\ Top(p).arg # "parent" THEN i ELSE 0)
        /\ Do(p, CASE path # <<>> -> <<Inode("ilock", i), Look(i, path, Top(p).arg)>>
                   [] path = <<>> /\ Top(p).arg = "parent" -> <<Inode("iput", i)>>
                   [] OTHER -> <<>>)
  /\ UNCHANGED <<disk, busy, inode, ftable, trans, panic, proc>>

(* The loop of namex, with the directory locked.                           *)
NameiLook(p) ==
  /\ At(p, "look")
  /\ LET i == Top(p).ip  path == Top(p).path  arg == Top(p).arg
         next == Dirlookup(i, Head(path))
     IN IF inode[i].type = "dir" /\ arg = "parent" /\ Len(path) = 1
        THEN Do(p, <<Inode("iunlock", i)>>) /\ Found(p, i) /\ UNCHANGED <<ref, valid>>
        ELSE IF inode[i].type # "dir" \/ next = 0
        THEN Do(p, Unlockput(i)) /\ Found(p, 0) /\ UNCHANGED <<ref, valid>>
        ELSE /\ Iget(next) /\ Found(p, next)
             /\ Do(p, Unlockput(i) \o
                      (IF Len(path) = 1 THEN <<>>
                       ELSE <<Inode("ilock", next), Look(next, Tail(path), arg)>>))
  /\ UNCHANGED <<disk, busy, inode, ftable, trans, panic, proc>>

Last(path) == path[Len(path)]

-----------------------------------------------------------------------------
(* create, of the type in arg.                                             *)
Create(path, type) ==
  <<Namei(path, "parent"), [Op("create") EXCEPT !.path = path, !.arg = type]>>

CreateParent(p) ==
  /\ At(p, "create")
  /\ Do(p, IF found[p] = 0 THEN <<>>
           ELSE <<Inode("ilock", found[p]),
                  [Top(p) EXCEPT !.op = "create2", !.dp = found[p]]>>)
  /\ Found(p, 0) /\ UNCHANGED <<disk, cache, ftable, trans, panic, proc>>

(* ialloc: the inodes of which it takes the first.                         *)
Ialloc == {i \in Inums : dinode[i].type = "free"}

(* The name exists, or an inode is allocated.                              *)
CreateLookup(p) ==
  /\ At(p, "create2")
  /\ LET dp == Top(p).dp  ip == Dirlookup(dp, Last(Top(p).path))
         free == Ialloc
     IN CASE inode[dp].type # "dir" -> Die("dirlookup not DIR")
          [] inode[dp].type = "dir" /\ ip # 0 ->
               /\ Iget(ip)
               /\ Do(p, Unlockput(dp) \o
                        <<Inode("ilock", ip), [Top(p) EXCEPT !.op = "create3", !.ip = ip]>>)
               /\ UNCHANGED <<disk, busy, inode, ftable, trans, panic, proc, found>>
          [] inode[dp].type = "dir" /\ ip = 0 /\ free = {} -> Die("ialloc: no inodes")
          [] inode[dp].type = "dir" /\ ip = 0 /\ free # {} ->
               /\ Iget(Min(free))
               /\ dinode' = [dinode EXCEPT ![Min(free)] = [type |-> Top(p).arg, nlink |-> 0]]
               /\ Do(p, <<Inode("ilock", Min(free)),
                          [Top(p) EXCEPT !.op = "create4", !.ip = Min(free)]>>)
               /\ UNCHANGED <<dir, busy, inode, ftable, trans, panic, proc, found>>

(* Mutant: a file that exists is returned unlocked.                        *)
CreateExistsUnlocked(p) ==
  /\ At(p, "create3")
  /\ LET ip == Top(p).ip  isfile == Top(p).arg = "file" /\ inode[ip].type = "file" IN
     /\ Found(p, IF isfile THEN ip ELSE 0)
     /\ Do(p, IF isfile THEN <<Inode("iunlock", ip)>> ELSE Unlockput(ip))
  /\ UNCHANGED <<disk, cache, ftable, trans, panic, proc>>
CreateExists(p) ==
  /\ At(p, "create3")
  /\ LET ip == Top(p).ip  isfile == Top(p).arg = "file" /\ inode[ip].type = "file" IN
     /\ Found(p, IF isfile THEN ip ELSE 0)
     /\ Do(p, IF isfile THEN <<>> ELSE Unlockput(ip))
  /\ UNCHANGED <<disk, cache, ftable, trans, panic, proc>>

CreateNew(p) ==
  /\ At(p, "create4")
  /\ LET dp == Top(p).dp  ip == Top(p).ip  isdir == Top(p).arg = "dir" IN
     /\ dir' = Dirlink(IF isdir THEN Dirlink(Dirlink(dir, ip, ".", ip), ip, "..", dp) ELSE dir,
                       dp, Last(Top(p).path), ip)
     /\ Iupdate([k \in {ip} \union (IF isdir THEN {dp} ELSE {}) |->
                   IF k = ip THEN [inode[ip] EXCEPT !.nlink = 1] ELSE Linked(dp, 1)])
     /\ Do(p, Unlockput(dp)) /\ Found(p, ip)
  /\ UNCHANGED <<ref, busy, valid, ftable, trans, panic, proc>>

(* sys_mkdir and sys_mknod after create.                                   *)
Made(p) ==
  /\ At(p, "made") /\ Do(p, IF found[p] = 0 THEN <<>> ELSE Unlockput(found[p]))
  /\ Found(p, 0) /\ UNCHANGED <<disk, cache, ftable, trans, panic, proc>>

-----------------------------------------------------------------------------
(* sys_open without O_CREATE, after namei; arg is the mode.                *)
OpenFound(p) ==
  /\ At(p, "open")
  /\ IF found[p] = 0 THEN Only(p, <<>>)
     ELSE Do(p, <<Inode("ilock", found[p]), [Top(p) EXCEPT !.op = "open2", !.ip = found[p]]>>)
  /\ UNCHANGED <<disk, cache, ftable, trans, panic, proc, found>>

OpenCheck(p) ==
  /\ At(p, "open2")
  /\ LET ip == Top(p).ip IN
     IF inode[ip].type = "dir" /\ Top(p).arg # "r"
     THEN Do(p, Unlockput(ip)) /\ Found(p, 0)
     ELSE Do(p, <<Op("open3")>>) /\ UNCHANGED found
  /\ UNCHANGED <<disk, cache, ftable, trans, panic, proc>>

(* fdalloc takes the first free descriptor, filealloc the first free file. *)
FreeFds(p) == {n \in Fds : ofile[p][n] = None}
Filealloc == {f \in Files : ftable[f].ref = 0}

(* filealloc, fdalloc and the rest, with the inode locked (after create it *)
(* may be 0).                                                              *)
OpenFile(p) ==
  /\ At(p, "open3")
  /\ LET ip == found[p]  free == Filealloc IN
     IF ip = 0 \/ free = {} \/ FreeFds(p) = {}
     THEN /\ Do(p, IF ip = 0 THEN <<>> ELSE Unlockput(ip)) /\ UNCHANGED <<ftable, ofile>>
     ELSE /\ ftable' = [ftable EXCEPT ![Min(free)] = [ref |-> 1, ip |-> ip]]
          /\ ofile' = [ofile EXCEPT ![p][Min(FreeFds(p))] = Min(free)]
          /\ Do(p, <<Inode("iunlock", ip)>>)
  /\ Found(p, 0) /\ UNCHANGED <<disk, cache, trans, panic, live, cwd, left>>

(* fileclose of f: what is left to do, given that it has ref references.   *)
CloseSteps(f) ==
  IF ftable[f].ref > 1 THEN <<>>
  ELSE <<Op("begin"), Inode("iput", ftable[f].ip), Op("commit")>>

Fileclose(f) ==
  ftable' = [ftable EXCEPT ![f] = IF @.ref > 1 THEN [@ EXCEPT !.ref = @ - 1]
                                  ELSE [ref |-> 0, ip |-> 0]]

SysClose(p, n) ==
  /\ ofile[p][n] # None
  /\ Fileclose(ofile[p][n]) /\ todo' = [todo EXCEPT ![p] = CloseSteps(ofile[p][n])]
  /\ ofile' = [ofile EXCEPT ![p][n] = None]
  /\ UNCHANGED <<disk, cache, trans, panic, live, cwd, found>>

SysDup(p, n) ==
  /\ ofile[p][n] # None /\ FreeFds(p) # {}
  /\ ofile' = [ofile EXCEPT ![p][Min(FreeFds(p))] = ofile[p][n]]
  /\ ftable' = [ftable EXCEPT ![ofile[p][n]].ref = @ + 1]
  /\ UNCHANGED <<disk, cache, trans, panic, live, cwd, todo, found>>

-----------------------------------------------------------------------------
(* sys_link: path is the old name, then the new one.                       *)
LinkFound(p) ==
  /\ At(p, "link")
  /\ IF found[p] = 0 THEN Only(p, <<>>)
     ELSE Do(p, <<Op("begin"), Inode("ilock", found[p]),
                  [Top(p) EXCEPT !.op = "link2", !.ip = found[p]]>>)
  /\ Found(p, 0) /\ UNCHANGED <<disk, cache, ftable, trans, panic, proc>>

LinkCount(p) ==
  /\ At(p, "link2")
  /\ LET ip == Top(p).ip IN
     IF inode[ip].type = "dir"
     THEN Do(p, Unlockput(ip) \o <<Op("commit")>>) /\ UNCHANGED <<inode, dinode>>
     ELSE /\ Iupdate([k \in {ip} |-> Linked(ip, 1)])
          /\ Do(p, <<Inode("iunlock", ip), Namei(Top(p).path, "parent"),
                     [Top(p) EXCEPT !.op = "link3"]>>)
  /\ UNCHANGED <<dir, ref, busy, valid, ftable, trans, panic, proc, found>>

LinkBad(ip) == <<Inode("ilock", ip), Inode("unlinked", ip)>>

LinkParent(p) ==
  /\ At(p, "link3")
  /\ Do(p, IF found[p] = 0 THEN LinkBad(Top(p).ip)
           ELSE <<Inode("ilock", found[p]),
                  [Top(p) EXCEPT !.op = "link4", !.dp = found[p]]>>)
  /\ Found(p, 0) /\ UNCHANGED <<disk, cache, ftable, trans, panic, proc>>

(* dirlink.                                                                *)
LinkEnter(p) ==
  /\ At(p, "link4")
  /\ LET dp == Top(p).dp  ip == Top(p).ip  name == Last(Top(p).path)
         old == Dirlookup(dp, name)
     IN CASE inode[dp].type # "dir" -> Die("dirlookup not DIR")
          [] inode[dp].type = "dir" /\ old # 0 ->
               /\ Iget(old)
               /\ Do(p, <<Inode("iput", old)>> \o Unlockput(dp) \o LinkBad(ip))
               /\ UNCHANGED <<disk, busy, inode, ftable, trans, panic, proc, found>>
          [] inode[dp].type = "dir" /\ old = 0 ->
               /\ dir' = Dirlink(dir, dp, name, ip)
               /\ Do(p, Unlockput(dp) \o <<Inode("iput", ip), Op("commit")>>)
               /\ UNCHANGED <<dinode, cache, ftable, trans, panic, proc, found>>

(* ip->nlink--, iupdate, iunlockput and commit_trans: the end of sys_unlink *)
(* and of a sys_link that failed.                                          *)
Unlinked(p) ==
  /\ At(p, "unlinked")
  /\ LET ip == Top(p).ip IN
     /\ Iupdate([k \in {ip} |-> Linked(ip, -1)])
     /\ Do(p, Unlockput(ip) \o <<Op("commit")>>)
  /\ UNCHANGED <<dir, ref, busy, valid, ftable, trans, panic, proc, found>>

-----------------------------------------------------------------------------
UnlinkParent(p) ==
  /\ At(p, "unlink")
  /\ IF found[p] = 0 THEN Only(p, <<>>)
     ELSE Do(p, <<Op("begin"), Inode("ilock", found[p]),
                  [Top(p) EXCEPT !.op = "unlink2", !.dp = found[p]]>>)
  /\ Found(p, 0) /\ UNCHANGED <<disk, cache, ftable, trans, panic, proc>>

UnlinkLookup(p) ==
  /\ At(p, "unlink2")
  /\ LET dp == Top(p).dp  name == Last(Top(p).path)  ip == Dirlookup(dp, name) IN
     CASE name \in {".", ".."} ->
            /\ Do(p, Unlockput(dp) \o <<Op("commit")>>)
            /\ UNCHANGED <<disk, cache, ftable, trans, panic, proc, found>>
       [] name \notin {".", ".."} /\ inode[dp].type # "dir" -> Die("dirlookup not DIR")
       [] name \notin {".", ".."} /\ inode[dp].type = "dir" /\ ip = 0 ->
            /\ Do(p, Unlockput(dp) \o <<Op("commit")>>)
            /\ UNCHANGED <<disk, cache, ftable, trans, panic, proc, found>>
       [] name \notin {".", ".."} /\ inode[dp].type = "dir" /\ ip # 0 ->
            /\ Iget(ip)
            /\ Do(p, <<Inode("ilock", ip), [Top(p) EXCEPT !.op = "unlink3", !.ip = ip]>>)
            /\ UNCHANGED <<disk, busy, inode, ftable, trans, panic, proc, found>>

IsDirEmpty(i) == \A n \in Names : dir[i][n] = 0

(* Both are locked.                                                       *)
UnlinkEntry(p) ==
  /\ At(p, "unlink3")
  /\ LET dp == Top(p).dp  ip == Top(p).ip  isdir == inode[ip].type = "dir" IN
     CASE inode[ip].nlink < 1 -> Die("unlink: nlink < 1")
       [] inode[ip].nlink >= 1 /\ isdir /\ ~IsDirEmpty(ip) ->
            /\ Do(p, Unlockput(ip) \o Unlockput(dp) \o <<Op("commit")>>)
            /\ UNCHANGED <<disk, cache, ftable, trans, panic, proc, found>>
       [] inode[ip].nlink >= 1 /\ (isdir => IsDirEmpty(ip)) ->
            /\ dir' = [dir EXCEPT ![dp][Last(Top(p).path)] = 0]
            /\ Iupdate([k \in (IF isdir THEN {dp} ELSE {}) |-> Linked(dp, -1)])
            /\ Do(p, Unlockput(dp) \o <<Inode("unlinked", ip)>>)
            /\ UNCHANGED <<ref, busy, valid, ftable, trans, panic, proc, found>>

-----------------------------------------------------------------------------
ChdirFound(p) ==
  /\ At(p, "chdir")
  /\ IF found[p] = 0 THEN Only(p, <<>>)
     ELSE Do(p, <<Inode("ilock", found[p]), Inode("chdir2", found[p])>>)
  /\ Found(p, 0) /\ UNCHANGED <<disk, cache, ftable, trans, panic, proc>>

ChdirCheck(p) ==
  /\ At(p, "chdir2")
  /\ LET ip == Top(p).ip IN
     Do(p, IF inode[ip].type # "dir" THEN Unlockput(ip)
           ELSE <<Inode("iunlock", ip), Inode("iput", cwd[p]), Inode("chdir3", ip)>>)
  /\ UNCHANGED <<disk, cache, ftable, trans, panic, proc, found>>

ChdirSet(p) ==
  /\ At(p, "chdir3") /\ cwd' = [cwd EXCEPT ![p] = Top(p).ip] /\ Do(p, <<>>)
  /\ UNCHANGED <<disk, cache, ftable, trans, panic, live, ofile, left, found>>

(* exec reads the file with its inode locked.                              *)
ExecFile(p) ==
  /\ At(p, "exec")
  /\ Do(p, IF found[p] = 0 THEN <<>> ELSE <<Inode("ilock", found[p])>> \o Unlockput(found[p]))
  /\ Found(p, 0) /\ UNCHANGED <<disk, cache, ftable, trans, panic, proc>>

(* The loop of exit over the open files, and iput(proc->cwd).              *)
ExitFiles(p) ==
  /\ At(p, "exit")
  /\ LET open == Fds \ FreeFds(p) IN
     IF open = {}
     THEN Do(p, <<Inode("iput", cwd[p]), Op("exit2")>>) /\ UNCHANGED <<ftable, ofile>>
     ELSE LET f == ofile[p][Min(open)] IN
          /\ Fileclose(f) /\ todo' = [todo EXCEPT ![p] = CloseSteps(f) \o @]
          /\ ofile' = [ofile EXCEPT ![p][Min(open)] = None]
  /\ UNCHANGED <<disk, cache, trans, panic, live, cwd, left, found>>

ExitLast(p) ==
  /\ At(p, "exit2") /\ live' = live \ {p} /\ cwd' = [cwd EXCEPT ![p] = 0] /\ Do(p, <<>>)
  /\ UNCHANGED <<disk, cache, ftable, trans, panic, ofile, left, found>>

(* fork: filedup and idup.  (The slot's ofile is empty: see ExitFiles.)    *)
SysFork(p, q) ==
  /\ q \notin live /\ live' = live \union {q}
  /\ ftable' = [f \in Files |-> [ftable[f] EXCEPT
                  !.ref = @ + Cardinality({n \in Fds : ofile[p][n] = f})]]
  /\ ofile' = [ofile EXCEPT ![q] = [n \in Fds |-> IF ofile[p][n] # None THEN ofile[p][n] ELSE @[n]]]
  /\ cwd' = [cwd EXCEPT ![q] = cwd[p]] /\ Iget(cwd[p])
  /\ UNCHANGED <<disk, busy, inode, trans, panic, todo, found>>

-----------------------------------------------------------------------------
(* The steps of a call on a path.                                          *)
Steps(c) ==
  CASE c.sys = "open" -> <<Namei(c.path, "inode"), [Op("open") EXCEPT !.arg = c.arg]>>
    [] c.sys = "create" -> <<Op("begin")>> \o Create(c.path, "file") \o <<Op("commit"), Op("open3")>>
    [] c.sys = "make" -> <<Op("begin")>> \o Create(c.path, c.arg) \o <<Op("made"), Op("commit")>>
    [] c.sys = "link" -> <<Namei(c.path, "inode"), [Op("link") EXCEPT !.path = c.new]>>
    [] c.sys = "unlink" -> <<Namei(c.path, "parent"), [Op("unlink") EXCEPT !.path = c.path]>>
    [] c.sys = "chdir" -> <<Namei(c.path, "inode"), Op("chdir")>>
    [] c.sys = "exec" -> <<Namei(c.path, "inode"), Op("exec")>>
    [] c.sys = "exit" -> <<Op("exit")>>

(* A process makes a call.                                                 *)
Idle(p) == panic = "none" /\ p \in live /\ todo[p] = <<>>

Start(p) ==
  /\ Idle(p) /\ left > 0 /\ left' = left - 1
  /\ \/ \E c \in SysCalls : todo' = [todo EXCEPT ![p] = Steps(c)]
                         /\ UNCHANGED <<disk, cache, ftable, trans, panic, live, cwd, ofile, found>>
     \/ \E n \in Fds : SysClose(p, n)
     \/ \E n \in Fds : SysDup(p, n)
     \/ \E q \in Procs : SysFork(p, q)

Step(p) ==
  \/ BeginTrans(p) \/ CommitTrans(p) \/ Ilock(p) \/ Iunlock(p)
  \/ Iput(p) \/ Itrunc(p) \/ Ifree(p) \/ IputEnd(p)
  \/ NameiStart(p) \/ NameiLook(p)
  \/ CreateParent(p) \/ CreateLookup(p) \/ CreateExists(p) \/ CreateNew(p) \/ Made(p)
  \/ OpenFound(p) \/ OpenCheck(p) \/ OpenFile(p)
  \/ LinkFound(p) \/ LinkCount(p) \/ LinkParent(p) \/ LinkEnter(p) \/ Unlinked(p)
  \/ UnlinkParent(p) \/ UnlinkLookup(p) \/ UnlinkEntry(p)
  \/ ChdirFound(p) \/ ChdirCheck(p) \/ ChdirSet(p) \/ ExecFile(p)
  \/ ExitFiles(p) \/ ExitLast(p)

(* Nothing is left to do, or the system has stopped.                       *)
Done ==
  /\ panic # "none" \/ \A p \in live : Idle(p) /\ left = 0
  /\ UNCHANGED vars

Next == Done \/ \E p \in Procs : Start(p) \/ Step(p)

Spec == Init /\ [][Next]_vars

-----------------------------------------------------------------------------
AllIdle == \A p \in live : Idle(p)
Pointers(i) ==
  Cardinality({p \in live : Idle(p) /\ cwd[p] = i}) + Cardinality({f \in Files : ftable[f].ip = i})

(* "ip->ref tracks the number of in-memory pointers to the entry (open     *)
(* files and current directories)": no call, whatever it met and however   *)
(* calls interleave, keeps a reference, an inode lock or the transaction,  *)
(* or gives back one that it did not have; and f->ref counts descriptors.  *)
RefsTrack ==
  AllIdle =>
    /\ \A i \in Inums : ref[i] = Pointers(i) /\ ~busy[i]
    /\ trans = None
    /\ \A f \in Files :
         ftable[f].ref = Cardinality({pn \in Procs \X Fds : ofile[pn[1]][pn[2]] = f})

(* A name never outlives its file: between transactions an inode has on    *)
(* disk at least the links that directories name it by, so that it is not  *)
(* freed while it has a name, nor while a process or an open file has it.  *)
NamesExist ==
  trans = None =>
    \A i \in Inums :
      LET entries == {dn \in Inums \X Names : dir[dn[1]][dn[2]] = i} IN
      /\ dinode[i].nlink >= Cardinality(entries)
      /\ entries # {} \/ Pointers(i) > 0 => dinode[i].type # "free"

(* Of the panics of these calls only three can be reached: too few inodes, *)
(* an iput outside of a transaction that frees, and ".." of a directory    *)
(* that was removed while in use.                                          *)
FewPanics ==
  panic \in {"none", "ialloc: no inodes", "write outside of trans", "ilock: no type"}

=============================================================================
