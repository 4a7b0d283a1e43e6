---------------------------- MODULE CatalogSearch ----------------------------
(***************************************************************************)
(* A search while the anonftp catalog is updated.  It takes no lock: it     *)
(* reads the host-table file when it opens the start database, then the     *)
(* list of one string after another, and looks up each index in the table   *)
(* it has read.                                                            *)
(***************************************************************************)
EXTENDS AnonftpUpdate

VARIABLE client     \* the host table of a search

searchVars == <<vars, client>>

SearchInit == Init /\ client = <<>>

\* open_start_dbs with O_RDONLY; nothing is written when it is closed.
OpenSearch ==
    /\ client' = tableFile
    /\ UNCHANGED vars

SearchNext == OpenSearch \/ (Next /\ UNCHANGED client)

SearchSpec == SearchInit /\ [][SearchNext]_searchVars

\* The strings under which a search finds a site: host_table_find skips an
\* index its table does not have.
Found(s) == Indexed(client, s)
-----------------------------------------------------------------------------
\* A search that has a site in its host table goes on finding it under every
\* string that both its file and that of its update have, and never finds it
\* under a string of neither (this is why insert_anonftp compares the two), at
\* any place of the update, also while the host table is written; and sites that
\* are not updated are found as their files say.  A search that opens while no
\* host table is being written has them all: it is only between the truncation
\* of the file and its rewriting that one gets an empty table and finds nothing.
\* A call that has failed, two updates at once, or one that was killed may have
\* lost the table.
SearchableThroughout ==
    failures = 0 /\ ~ overlap /\ ~ Interrupted =>
        \A s \in Sites :
            LET old == siteFile[s]
                now == Found(s)
                own == {p \in Procs : Updating(p) /\ Site(p) = s}
            IN  /\ Find(client, s) # {} =>
                      /\ own = {} => now = old
                      /\ \A p \in own : LET new == Target(proc[p])
                                        IN  old \cap new \subseteq now /\ now \subseteq old \cup new
                /\ own = {} /\ old # NoFile /\ (\A p \in Procs : ~ At(p, "write"))
                      => Find(tableFile, s) # {}
=============================================================================
