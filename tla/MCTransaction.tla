--------------------------- MODULE MCTransaction ---------------------------
(* One or two connections; x and kz hold strings, y a list or a string.    *)
EXTENDS Transaction, TLC

CONSTANTS x, y, kz, c1, c2, v, w

MCConn == {c1, c2}
MCConn1 == {c1}
MCKey == {x, y}
MCKey3 == {x, y, kz}
RPush(k, values) == Command("rpush", k, 0, values)
Rename(k, dest) == Command("rename", k, 0, <<dest>>)
Soon(k) == Command("pexpire", k, 5, <<>>)

\* A push on the string of y fails and rolls x back.
AtomicPlain == {Set(y, <<v>>), Del(y)}
AtomicQueued == {Set(x, <<v>>), Soon(x), RPush(y, <<v>>)}

\* A pop of the string of x fails and rolls everything before it back.  SET of
\* the list of y panics in its undo log, ZINCRBY of a member that is not there in
\* its executor.
RollbackPlain == {Set(x, <<v>>), RPush(y, <<v>>)}
RollbackQueued == {Set(x, <<v>>), Set(kz, <<w>>), Del(x), Soon(x), On("persist", kz),
                   RPush(y, <<v, w>>), On("rpop", y), On("rpop", x),
                   Rename(x, kz), Rename(kz, x),
                   Set(y, <<v>>), Command("zincrby", kz, 1, <<1>>)}

bad == On("bad", x)
MCUnknown == {bad}

SetX == {Set(x, <<v>>)}

Symmetry == Permutations(MCConn)
=============================================================================
