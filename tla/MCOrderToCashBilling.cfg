SPECIFICATION EntrySpec
CONSTANTS
  Lines <- MCLines
  Goods <- MCGoods
  Ordered <- MCOrdered
  Rate <- MCRate
  TaxPercent <- MCTaxPercent
  OwnTaxAccount <- MCOwnTaxAccount
  DeliveryTolerance <- MCDeliveryTolerance
  BillingTolerance <- MCBillingTolerance
  Exchange = 3
  Quantities = {1, 2}
  RequestLines = 3
  Charges <- MCCharges
  PaymentRequests <- MCPaymentRequests
  Clerks = {c1}
  Amounts = {2, 9}
  ImportedPayments <- MCImportedPayments
  Scale = 2
  Fine = 3
  MaxDocuments = 4
  None = None
INVARIANT BilledWithinTolerance
CHECK_DEADLOCK FALSE
