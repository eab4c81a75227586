SPECIFICATION PartSpec
CONSTANTS
    r1 = r1  r2 = r2  r3 = r3
    q1 = q1  q2 = q2  q3 = q3
    b1 = b1  b2 = b2
    y1 = y1  y2 = y2  y3 = y3
    None = None  Keep = Keep
    Amount <- OneEach
    Request = {r1, r2}
    BillingId = {b1, b2}
    PaymentId = {y1, y2}
    Received0 <- OneReceipt
    Paying = {1}
    Kind <- Handler
SYMMETRY Requests
CHECK_DEADLOCK FALSE
PROPERTIES
    CountersPromise
    SettleFits
