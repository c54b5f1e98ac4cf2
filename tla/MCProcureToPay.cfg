SPECIFICATION EntrySpec
CONSTANTS
  Lines <- MCLines
  Goods <- MCGoods
  NegativeStock <- MCNegativeStock
  Ordered <- MCOrdered
  Rate <- MCRate
  TaxPercent <- MCTaxPercent
  TaxAccount <- MCTaxAccount
  ReceiptTolerance <- MCReceiptTolerance
  BillingTolerance <- MCBillingTolerance
  Exchange = 5
  Quantities = {1, 2}
  RequestLines = 2
  ReceiptParts <- MCReceiptParts
  PaymentRequests <- MCPaymentRequests
  Clerks = {c1}
  ImportedPayments <- MCImportedPayments
  Scale = 2
  Fine = 3
  Digits = 100
  MaxDocuments = 4
  None = None
INVARIANTS TypeOK CountersAreDocuments OrderLimitsHold ClearingIsUnbilled PayableIsOutstanding
\* An order is finished when it is received, billed and settled.
CHECK_DEADLOCK FALSE
