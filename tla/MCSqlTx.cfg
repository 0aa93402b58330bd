SPECIFICATION FairTxSpec
CONSTANTS
    Txs = {t1, t2, t3}
    Conns = {c1, c2}
    c1 = c1
    OnlyConn = c1
    Statements = 2
    NoConn = NoConn
INVARIANT Transactional
PROPERTY ImplementsStore
PROPERTY EveryTxAnswered
