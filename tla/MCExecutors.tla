---------------------------- MODULE MCExecutors ----------------------------
(* Every command on x; y holds a string, a list or a set for the commands  *)
(* with two keys.  Every expiry is a second away.                          *)
EXTENDS Executors

CONSTANTS x, y, v, w, f1, f2

MCKey == {x, y}

With(c, flag) == [c EXCEPT !.flag = flag]

StringCommands ==
    {Set(x, <<v>>), Set(x, <<1>>), Set(y, <<w>>), With(Set(x, <<w>>), "NX"),
     With(Set(x, <<w>>), "XX"), With(Set(x, <<w>>), "NX XX"),
     [Set(x, <<v>>) EXCEPT !.n = Second], [Set(x, <<v>>) EXCEPT !.n = -1],
     Command("setnx", x, 0, <<v>>), Command("getset", x, 0, <<v>>),
     On("getdel", x), On("get", x), On("incr", x), On("decr", x),
     Command("append", x, 0, <<v>>), Command("mset", x, 0, <<x, v, y, w>>),
     Command("mset", x, 0, <<x, v, x, w>>), Command("mset", x, 0, <<x, v, y>>),
     Command("msetnx", x, 0, <<x, v, y, w>>), Command("msetnx", x, 0, <<x>>),
     On("getex", x), With(On("getex", x), "PERSIST"), Command("getex", x, Second, <<>>),
     Command("getex", x, -1, <<>>), With(Command("getex", x, -1, <<>>), "PERSIST")}
    \cup {Command(op, x, n, <<v>>) : op \in {"setex", "psetex"}, n \in {-1, 0}}
    \cup {Command("setex", x, 1, <<v>>), Command("psetex", x, Second, <<v>>)}
    \cup {Command(op, x, n, <<>>) : op \in {"incrby", "incrbyfloat", "decrby"}, n \in {-1, 1}}
    \cup {Command("setrange", x, n, <<v>>) : n \in -1..2}

ListCommands ==
    {Command(op, x, 0, <<e>>) : op \in {"lpush", "rpush", "lpushx", "rpushx"}, e \in {v, w}}
    \cup {Command(op, x, 0, <<v, w>>) : op \in {"lpush", "rpush"}}
    \cup {On(op, x) : op \in {"lpop", "rpop"}}
    \cup {Command("rpush", y, 0, <<v>>), On("lpop", y)}
    \cup {Command("lset", x, n, <<v>>) : n \in {-1, 0, 1, 5}}
    \cup {Command("lrem", x, n, <<v>>) : n \in -1..1}
    \cup {Command("rpoplpush", k, 0, <<d>>) : k \in MCKey, d \in MCKey}

KeyCommands ==
    {Command("del", x, 0, <<x>>), Command("del", x, 0, <<x, y>>), Command("del", y, 0, <<y>>),
     On("persist", x), Command("expire", y, 1, <<>>)}
    \cup {Command(op, x, 1, <<>>) : op \in {"expire", "expireat"}}
    \cup {Command(op, x, Second, <<>>) : op \in {"pexpire", "pexpireat"}}
    \cup {Command(op, k, 0, <<d>>) : op \in {"rename", "renamenx"}, k \in {x}, d \in {y}}
    \cup {Command("rename", y, 0, <<x>>)}

HashCommands ==
    {Command("hset", x, 0, <<f1, v>>), Command("hsetnx", x, 0, <<f1, v>>),
     Command("hsetnx", x, 0, <<f2, w>>), Command("hmset", x, 0, [h \in {f1} |-> <<w>>]),
     Command("hdel", x, 0, <<f1>>), Command("hdel", x, 0, <<f1, f2>>),
     Command("hincrby", x, 1, <<f1>>), Command("hincrbyfloat", x, -1, <<f1>>)}

SetCommands ==
    {Command(op, x, 0, m) : op \in {"sadd", "srem"}, m \in {<<v>>, <<w>>, <<v, w>>}}
    \cup {Command("spop", x, n, m) : n \in 0..1, m \in {<<v, w>>, <<w, v>>}}
    \cup {Command("sadd", y, 0, <<v>>)}
    \cup {Command(op, x, 0, ks) : op \in StoreOps, ks \in {<<y>>, <<y, x>>, <<x, y>>}}

SortedSetCommands ==
    {Command("zadd", x, 0, <<1, 1>>), Command("zadd", x, 0, <<0, 1, 1, 2>>),
     Command("zadd", x, 0, <<1>>), Command("zrem", x, 0, <<1>>), Command("zrem", x, 0, <<1, 2>>),
     Command("zremrangebyscore", x, 0, <<0, 0>>), Command("zremrangebyrank", x, 0, <<-1, -1>>),
     Command("zremrangebyrank", x, 0, <<0, 0>>), Command("zremrangebyrank", x, 0, <<2, 3>>)}
    \cup {Command("zincrby", x, n, <<1>>) : n \in {-1, 1}}
    \cup {Command("zpopmin", x, n, <<>>) : n \in 0..1}

AllCommands == StringCommands \cup ListCommands \cup KeyCommands
                 \cup HashCommands \cup SetCommands \cup SortedSetCommands
=============================================================================
